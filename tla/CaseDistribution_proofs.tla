---------------------- MODULE CaseDistribution_proofs ----------------------
(***************************************************************************)
(* Proofs about CaseDistribution, for any number of appeals, requests and  *)
(* runs: the pool and the judges' desks never share an appeal, an appeal   *)
(* is on one desk, and the hearing docket's distributions implement the    *)
(* abstract allocation, whatever the interleaving and whoever is killed.   *)
(***************************************************************************)
EXTENDS CaseDistribution, WellFoundedInduction, TLAPS

-----------------------------------------------------------------------------
(* The inductive invariant *)

Working == {"case", "rename", "task", "assign", "complete", "record"}

\* A run that has begun executes a request that some judge made.
Placed ==
    /\ \A r \in Runs : pc[r] # "idle" => of[r] \in Distributions /\ status[of[r]] # "none"
    /\ \A d \in Distributions : status[d] # "none" => judge[d] \in Judges

\* Nothing is visible of a run before it ends.
RowsOfEnded == \A x \in tasks \union cases : pc[x[2]] = "done"

\* A run's uncommitted tasks: those it replaces are of appeals it assigns again,
\* and of the appeals it assigns the ready ones leave the pool with it.
TxPool(r) ==
    /\ pc[r] \in Working => todo[r] \union unrecorded[r] # {}
    /\ \A x \in tx[r].cancelled : x[1] \in tx[r].tasks
    /\ tx[r].completed \subseteq tx[r].tasks
    /\ \A a \in tx[r].tasks \intersect ready :
          a \in tx[r].completed \/ (pc[r] = "complete" /\ a = Appeal(r))
    /\ pc[r] \in {"rename", "assign"} => \A x \in found[r] : x[1] = Appeal(r)
    /\ pc[r] = "complete" => Appeal(r) \in tx[r].tasks

OneEach(rows) == \A x, y \in rows : x[1] = y[1] => x = y

\* In the hearing docket a run records each appeal it assigns. A record it
\* renamed is of the task that it has replaced, or is about to.
TxCases(r) ==
    /\ unrecorded[r] = {}
    /\ \A x \in tx[r].renamed : pc[x[2]] = "done"
    /\ pc[r] = "rename" => \A x \in found[r] : pc[x[2]] = "done"
    /\ tx[r].tasks = tx[r].cases \union (IF pc[r] \in {"complete", "record"} THEN {Appeal(r)} ELSE {})
    /\ pc[r] \in Working => todo[r] \intersect tx[r].cases = {}
    /\ \A x \in tx[r].renamed \intersect cases :
          \/ x \in tx[r].cancelled
          \/ x[1] = Appeal(r) /\ pc[r] = "task"
          \/ x[1] = Appeal(r) /\ pc[r] = "assign" /\ x \in found[r]
    /\ \A x \in cases : x[1] \in tx[r].cases => x \in tx[r].renamed

\* The unique index: no two runs are about to record an appeal.
OneRecorder == \A r, q \in Runs : r # q => tx[r].cases \intersect tx[q].cases = {}

Hearing ==
    HearingDocket =>
        tasks = cases /\ OneEach(cases) /\ OneRecorder /\ \A r \in Runs : TxCases(r)

\* Until a job restarts a distribution that still runs.
Alone ==
    overlaps = 0 =>
        /\ \A r, q \in Runs : Live(r) /\ Live(q) /\ of[r] = of[q] => r = q
        /\ \A r \in Runs : Live(r) => status[of[r]] \in Pending
        /\ OnlyCompletedDistribute

IInv ==
    /\ TypeOK /\ Placed /\ RowsOfEnded /\ PoolAndDesksDisjoint
    /\ \A r \in Runs : TxPool(r)
    /\ Hearing /\ Alone

-----------------------------------------------------------------------------
(* Types *)

\* The oldest of some appeals is one of them.
LEMMA OldestIn ==
    ASSUME NEW S, S \subseteq Nat, S # {}
    PROVE  Oldest(S) \in S
<1> DEFINE R == OpToRel(<, Nat)
<1>1. IsWellFoundedOn(R, Nat)
  BY NatLessThanWellFounded, Zenon
<1> HIDE DEF R
<1>2. PICK x \in S : \A y \in S : ~ (<<y, x>> \in R)
  BY <1>1, WFMin
<1>3. \A y \in S : <<y, x>> \in R <=> y < x
  BY DEF R, OpToRel
<1>4. ASSUME NEW y \in S PROVE x <= y
  <2>1. x \in Nat /\ y \in Nat /\ ~ (y < x)
    BY <1>2, <1>3
  <2> QED
    BY <2>1
<1> QED
  BY <1>4 DEF Oldest

\* A run that works on an appeal has selected it.
LEMMA AppealIn ==
    ASSUME TypeOK, NEW r \in Runs, TxPool(r), pc[r] \in Working
    PROVE  /\ Appeal(r) \in Appeals
           /\ todo[r] # {} => Appeal(r) \in todo[r]
           /\ unrecorded[r] = {} => todo[r] # {}
           /\ todo[r] = {} => Appeal(r) \in unrecorded[r]
<1>1. todo[r] \subseteq Appeals /\ unrecorded[r] \subseteq Appeals /\ Appeals \subseteq Nat
  BY AppealsAssumption DEF TypeOK
<1>2. todo[r] \union unrecorded[r] # {}
  BY DEF TxPool
<1>3. CASE todo[r] = {}
  <2>1. Oldest(unrecorded[r]) \in unrecorded[r]
    BY <1>1, <1>2, <1>3, OldestIn
  <2> QED
    BY <1>1, <1>3, <2>1 DEF Appeal
<1>4. CASE todo[r] # {}
  <2>1. Oldest(todo[r]) \in todo[r]
    BY <1>1, <1>4, OldestIn
  <2> QED
    BY <1>1, <1>4, <2>1 DEF Appeal
<1> QED
  BY <1>3, <1>4

Writes == [tasks: SUBSET Appeals, cancelled: SUBSET Rows, completed: SUBSET Appeals,
           cases: SUBSET Appeals, renamed: SUBSET Rows]

\* What a statement adds to the writes of a run keeps them of their type.
LEMMA WritesTyped ==
    ASSUME NEW w \in Writes, NEW A \in SUBSET Appeals, NEW F \in SUBSET Rows
    PROVE  /\ [w EXCEPT !.tasks = @ \union A, !.cancelled = @ \union F] \in Writes
           /\ [w EXCEPT !.completed = @ \union A] \in Writes
           /\ [w EXCEPT !.cases = @ \union A] \in Writes
           /\ [w EXCEPT !.renamed = @ \union F] \in Writes
<1>1. /\ w.tasks \union A \in SUBSET Appeals
      /\ w.cancelled \union F \in SUBSET Rows
  BY DEF Writes
<1>2. [w EXCEPT !.tasks = @ \union A, !.cancelled = @ \union F] \in Writes
  BY <1>1 DEF Writes
<1>3. [w EXCEPT !.completed = @ \union A] \in Writes
  BY DEF Writes
<1>4. [w EXCEPT !.cases = @ \union A] \in Writes
  BY DEF Writes
<1>5. [w EXCEPT !.renamed = @ \union F] \in Writes
  BY DEF Writes
<1> QED
  BY <1>2, <1>3, <1>4, <1>5

\* One run's entry is replaced by one of the type.
LEMMA EntryTyped ==
    ASSUME NEW S, NEW f \in [Runs -> S], NEW r \in Runs, NEW v \in S
    PROVE  [f EXCEPT ![r] = v] \in [Runs -> S]
OBVIOUS

\* An appeal leaves the run's two lists, or goes from the first to the second.
LEMMA ListsTyped ==
    ASSUME NEW r \in Runs,
           todo \in [Runs -> SUBSET Appeals], unrecorded \in [Runs -> SUBSET Appeals],
           \/ UNCHANGED <<todo, unrecorded>>
           \/ /\ todo' = [todo EXCEPT ![r] = todo[r] \ {Appeal(r)}]
              /\ unrecorded' = [unrecorded EXCEPT ![r] = unrecorded[r] \ {Appeal(r)}]
           \/ /\ todo' = [todo EXCEPT ![r] = todo[r] \ {Appeal(r)}]
              /\ unrecorded' = [unrecorded EXCEPT ![r] = unrecorded[r] \union {Appeal(r)}]
              /\ Appeal(r) \in Appeals
    PROVE  todo' \in [Runs -> SUBSET Appeals] /\ unrecorded' \in [Runs -> SUBSET Appeals]
<1>1. CASE UNCHANGED <<todo, unrecorded>>
  BY <1>1
<1>2. todo[r] \ {Appeal(r)} \in SUBSET Appeals /\ unrecorded[r] \ {Appeal(r)} \in SUBSET Appeals
  OBVIOUS
<1>3. Appeal(r) \in Appeals => unrecorded[r] \union {Appeal(r)} \in SUBSET Appeals
  OBVIOUS
<1>4. [todo EXCEPT ![r] = todo[r] \ {Appeal(r)}] \in [Runs -> SUBSET Appeals]
  BY <1>2, EntryTyped
<1>5. [unrecorded EXCEPT ![r] = unrecorded[r] \ {Appeal(r)}] \in [Runs -> SUBSET Appeals]
  BY <1>2, EntryTyped
<1>6. Appeal(r) \in Appeals =>
        [unrecorded EXCEPT ![r] = unrecorded[r] \union {Appeal(r)}] \in [Runs -> SUBSET Appeals]
  BY <1>3, EntryTyped
<1> QED
  BY <1>1, <1>4, <1>5, <1>6, Zenon

LEMMA TypesKept ==
    ASSUME TypeOK, \A r \in Runs : TxPool(r), [Next]_vars
    PROVE  TypeOK'
<1> DEFINE Steps == {"idle", "loaded", "select", "case", "rename", "task", "assign", "complete",
                     "record", "done"}
<1> USE DEF TypeOK, Writes
<1>0. tx \in [Runs -> Writes] /\ \A r \in Runs : found[r] \in SUBSET Rows /\ tx[r] \in Writes
  OBVIOUS
<1>1. CASE \E d \in Distributions : Create(d)
  BY <1>1 DEF Create, progress, database, counters
<1>2. CASE \E d \in Distributions, j \in Judges : Validate(d, j)
  BY <1>2 DEF Validate, progress, database, counters
<1>3. ASSUME NEW r \in Runs, NEW d \in Distributions, StartJob(r, d) PROVE TypeOK'
  BY <1>3, ModeAssumption DEF StartJob, Attach, Goto, progress, database
<1>4. ASSUME NEW r \in Runs, NEW d \in Distributions, RestartStalled(r, d) PROVE TypeOK'
  BY <1>4, ModeAssumption DEF RestartStalled, Attach, Goto, progress, database
<1>5. ASSUME NEW r \in Runs, Begin(r) PROVE TypeOK'
  BY <1>5 DEF Begin, Goto, progress, database, counters
<1>6. ASSUME NEW r \in Runs, SelectAppeals(r) PROVE TypeOK'
  BY <1>6 DEF SelectAppeals, ReadyAppeals, Goto, requests, database, counters
<1>7. ASSUME NEW r \in Runs, FindTask(r) PROVE TypeOK'
  <2>1. OpenTasks(r) \subseteq Rows
    BY DEF OpenTasks, Own, Rows
  <2>2. found' \in [Runs -> SUBSET Rows]
    BY <1>7, <2>1 DEF FindTask
  <2> QED
    BY <1>7, <2>2 DEF FindTask, May, Goto, requests, database, counters
<1>8. ASSUME NEW r \in Runs, AssignTask(r) PROVE TypeOK'
  <2>1. Appeal(r) \in Appeals
    BY <1>8, AppealIn DEF AssignTask, May, Working
  <2>2. tx' \in [Runs -> Writes]
    <3>1. tx' = [tx EXCEPT ![r] = [tx[r] EXCEPT !.tasks = @ \union {Appeal(r)},
                                               !.cancelled = @ \union found[r]]]
      BY <1>8 DEF AssignTask
    <3>2. {Appeal(r)} \in SUBSET Appeals
      BY <2>1
    <3> HIDE DEF TypeOK, Writes
    <3> QED
      BY <1>0, <3>1, <3>2, WritesTyped, EntryTyped
  <2> QED
    BY <1>8, <2>2 DEF AssignTask, May, Goto, requests, progress, database, counters
<1>9. ASSUME NEW r \in Runs, CompleteDistributionTask(r) PROVE TypeOK'
  <2>1. Appeal(r) \in Appeals
    BY <1>9, AppealIn DEF CompleteDistributionTask, May, Working
  <2>2. tx' \in [Runs -> Writes]
    <3>1. tx' = [tx EXCEPT ![r] = [tx[r] EXCEPT !.completed = @ \union ({Appeal(r)} \intersect ready)]]
      BY <1>9 DEF CompleteDistributionTask
    <3>2. {Appeal(r)} \intersect ready \in SUBSET Appeals
      OBVIOUS
    <3> HIDE DEF TypeOK, Writes
    <3> QED
      BY <1>0, <3>1, <3>2, WritesTyped, EntryTyped
  <2>3. pc' \in [Runs -> Steps]
    BY <1>9 DEF CompleteDistributionTask, Goto
  <2>4. todo' \in [Runs -> SUBSET Appeals] /\ unrecorded' \in [Runs -> SUBSET Appeals]
    <3>1. \/ UNCHANGED <<todo, unrecorded>>
          \/ /\ todo' = [todo EXCEPT ![r] = todo[r] \ {Appeal(r)}]
             /\ unrecorded' = [unrecorded EXCEPT ![r] = unrecorded[r] \union {Appeal(r)}]
      BY <1>9 DEF CompleteDistributionTask
    <3> QED
      BY <2>1, <3>1, ListsTyped
  <2> QED
    BY <1>9, <2>2, <2>3, <2>4 DEF CompleteDistributionTask, requests, database, counters
<1>10. ASSUME NEW r \in Runs, FindCase(r) PROVE TypeOK'
  <2>1. CurrentCases(r) \subseteq Rows
    BY DEF CurrentCases, Own, Rows
  <2>2. found' \in [Runs -> SUBSET Rows]
    BY <1>10, <2>1 DEF FindCase
  <2>3. pc' \in [Runs -> Steps]
    BY <1>10 DEF FindCase, Leave, Goto
  <2>4. todo' \in [Runs -> SUBSET Appeals] /\ unrecorded' \in [Runs -> SUBSET Appeals]
    <3>1. \/ UNCHANGED <<todo, unrecorded>>
          \/ /\ todo' = [todo EXCEPT ![r] = todo[r] \ {Appeal(r)}]
             /\ unrecorded' = [unrecorded EXCEPT ![r] = unrecorded[r] \ {Appeal(r)}]
      BY <1>10 DEF FindCase, Leave
    <3> QED
      BY <3>1, ListsTyped
  <2> QED
    BY <1>10, <2>2, <2>3, <2>4 DEF FindCase, requests, database, counters
<1>11. ASSUME NEW r \in Runs, RenameCase(r) PROVE TypeOK'
  <2>1. tx' \in [Runs -> Writes]
    <3>1. tx' = [tx EXCEPT ![r] = [tx[r] EXCEPT !.renamed = @ \union found[r]]]
      BY <1>11 DEF RenameCase
    <3> HIDE DEF TypeOK, Writes
    <3> QED
      BY <1>0, <3>1, WritesTyped, EntryTyped
  <2> QED
    BY <1>11, <2>1 DEF RenameCase, Goto, requests, progress, database, counters
<1>12. ASSUME NEW r \in Runs, CreateCase(r) PROVE TypeOK'
  <2>1. Appeal(r) \in Appeals
    BY <1>12, AppealIn DEF CreateCase, May, Working
  <2>2. tx' \in [Runs -> Writes]
    <3>1. tx' = [tx EXCEPT ![r] = [tx[r] EXCEPT !.cases = @ \union {Appeal(r)}]]
      BY <1>12 DEF CreateCase
    <3>2. {Appeal(r)} \in SUBSET Appeals
      BY <2>1
    <3> HIDE DEF TypeOK, Writes
    <3> QED
      BY <1>0, <3>1, <3>2, WritesTyped, EntryTyped
  <2>3. pc' \in [Runs -> Steps]
    BY <1>12 DEF CreateCase, Leave, Goto
  <2>4. todo' \in [Runs -> SUBSET Appeals] /\ unrecorded' \in [Runs -> SUBSET Appeals]
    <3>1. /\ todo' = [todo EXCEPT ![r] = todo[r] \ {Appeal(r)}]
          /\ unrecorded' = [unrecorded EXCEPT ![r] = unrecorded[r] \ {Appeal(r)}]
      BY <1>12 DEF CreateCase, Leave
    <3> QED
      BY <3>1, ListsTyped
  <2> QED
    BY <1>12, <2>2, <2>3, <2>4 DEF CreateCase, requests, database, counters
<1>13. ASSUME NEW r \in Runs, Commit(r) PROVE TypeOK'
  <2>1. tx' \in [Runs -> Writes]
    BY <1>13 DEF Commit, NoWrites
  <2>2. ready' \subseteq Appeals /\ tasks' \subseteq Rows /\ cases' \subseteq Rows /\ renamed' \subseteq Rows
    BY <1>13 DEF Commit, ReadyAppeals, OpenTasks, CurrentCases, RenamedCases, Own, Rows
  <2> QED
    BY <1>13, <2>1, <2>2 DEF Commit, Goto, progress, counters
<1>14. ASSUME NEW r \in Runs, Abandon(r) PROVE /\ tx' \in [Runs -> Writes]
                                               /\ pc' \in [Runs -> Steps]
                                               /\ todo' \in [Runs -> SUBSET Appeals]
                                               /\ unrecorded' \in [Runs -> SUBSET Appeals]
                                               /\ found' \in [Runs -> SUBSET Rows]
  BY <1>14 DEF Abandon, NoWrites, Goto
<1>15. ASSUME NEW r \in Runs, Fail(r) PROVE TypeOK'
  BY <1>14, <1>15 DEF Fail, Abandon, database, counters
<1>16. ASSUME NEW r \in Runs, Crash(r) PROVE TypeOK'
  <2>1. crashes' \in 0..MaxCrashes
    BY <1>16, ModeAssumption DEF Crash
  <2> QED
    BY <1>14, <1>16, <2>1 DEF Crash, Abandon, database
<1>17. CASE UNCHANGED vars
  BY <1>17 DEF vars, requests, progress, database, counters
<1> QED
  BY <1>1, <1>2, <1>3, <1>4, <1>5, <1>6, <1>7, <1>8, <1>9, <1>10, <1>11, <1>12, <1>13,
     <1>15, <1>16, <1>17 DEF Next, Work

-----------------------------------------------------------------------------
(* Requests and runs only go forward *)

Forward ==
    /\ \A r \in Runs : pc[r] # "idle" => pc'[r] # "idle" /\ of'[r] = of[r]
    /\ \A r \in Runs : pc[r] = "done" => pc'[r] = "done"
    /\ \A d \in Distributions : status[d] # "none" => status'[d] # "none" /\ judge'[d] = judge[d]

LEMMA StepsGoForward ==
    ASSUME TypeOK, [Next]_vars
    PROVE  Forward
<1> USE DEF TypeOK, Forward
<1>1. CASE \E d \in Distributions : Create(d)
  BY <1>1 DEF Create
<1>2. CASE \E d \in Distributions, j \in Judges : Validate(d, j)
  BY <1>2 DEF Validate
<1>3. ASSUME NEW r \in Runs, NEW d \in Distributions, StartJob(r, d) PROVE Forward
  BY <1>3 DEF StartJob, Attach, Goto
<1>4. ASSUME NEW r \in Runs, NEW d \in Distributions, RestartStalled(r, d) PROVE Forward
  BY <1>4 DEF RestartStalled, Attach, Goto
<1>5. ASSUME NEW r \in Runs, Begin(r) PROVE Forward
  BY <1>5 DEF Begin, Goto
<1>6. ASSUME NEW r \in Runs, SelectAppeals(r) PROVE Forward
  BY <1>6 DEF SelectAppeals, Goto, requests
<1>7. ASSUME NEW r \in Runs, FindTask(r) PROVE Forward
  BY <1>7 DEF FindTask, May, Goto, requests
<1>8. ASSUME NEW r \in Runs, AssignTask(r) PROVE Forward
  BY <1>8 DEF AssignTask, May, Goto, requests
<1>9. ASSUME NEW r \in Runs, CompleteDistributionTask(r) PROVE Forward
  BY <1>9 DEF CompleteDistributionTask, May, Goto, requests
<1>10. ASSUME NEW r \in Runs, FindCase(r) PROVE Forward
  BY <1>10 DEF FindCase, May, Leave, Goto, requests
<1>11. ASSUME NEW r \in Runs, RenameCase(r) PROVE Forward
  BY <1>11 DEF RenameCase, May, Goto, requests
<1>12. ASSUME NEW r \in Runs, CreateCase(r) PROVE Forward
  BY <1>12 DEF CreateCase, May, Leave, Goto, requests
<1>13. ASSUME NEW r \in Runs, Commit(r) PROVE Forward
  BY <1>13 DEF Commit, Goto
<1>14. ASSUME NEW r \in Runs, Fail(r) PROVE Forward
  BY <1>14 DEF Fail, Live, Abandon, Goto
<1>15. ASSUME NEW r \in Runs, Crash(r) PROVE Forward
  BY <1>15 DEF Crash, Live, Abandon, Goto
<1>16. CASE UNCHANGED vars
  BY <1>16 DEF vars, requests
<1> QED
  BY <1>1, <1>2, <1>3, <1>4, <1>5, <1>6, <1>7, <1>8, <1>9, <1>10, <1>11, <1>12, <1>13,
     <1>14, <1>15, <1>16 DEF Next, Work

LEMMA PlacedKept ==
    ASSUME TypeOK, Placed, [Next]_vars
    PROVE  Placed'
<1> USE DEF TypeOK, Placed
<1>1. Forward
  BY StepsGoForward
<1>2. ASSUME NEW r \in Runs, pc[r] = "idle", pc'[r] # "idle"
      PROVE  of'[r] \in Distributions /\ status'[of'[r]] # "none"
  <2>1. PICK d \in Distributions : StartJob(r, d) \/ RestartStalled(r, d)
    <3>1. ASSUME NEW q \in Runs, Work(q) PROVE FALSE
      BY <1>2, <3>1 DEF Work, Begin, SelectAppeals, FindTask, AssignTask, CompleteDistributionTask,
                        FindCase, RenameCase, CreateCase, Commit, May, Leave, Goto
    <3>2. ASSUME NEW q \in Runs, Fail(q) \/ Crash(q) PROVE FALSE
      BY <1>2, <3>2 DEF Fail, Crash, Live, Abandon, Goto
    <3>3. ASSUME NEW q \in Runs, NEW d \in Distributions, StartJob(q, d) \/ RestartStalled(q, d) PROVE q = r
      BY <1>2, <3>3 DEF StartJob, RestartStalled, Attach, Goto
    <3>4. ASSUME NEW d \in Distributions, NEW j \in Judges, Create(d) \/ Validate(d, j) PROVE FALSE
      BY <1>2, <3>4 DEF Create, Validate
    <3>5. ASSUME NEW d \in Distributions, Create(d) PROVE FALSE
      BY <1>2, <3>5 DEF Create
    <3> QED
      BY <1>2, <3>1, <3>2, <3>3, <3>4, <3>5 DEF Next, vars
  <2> QED
    BY <2>1 DEF StartJob, RestartStalled, Attach
<1>3. ASSUME NEW d \in Distributions, status[d] = "none", status'[d] # "none"
      PROVE  judge'[d] \in Judges
  <2>1. PICK j \in Judges : Validate(d, j)
    <3>1. ASSUME NEW q \in Runs, Work(q) PROVE FALSE
      BY <1>3, <3>1 DEF Work, Begin, SelectAppeals, FindTask, AssignTask, CompleteDistributionTask,
                        FindCase, RenameCase, CreateCase, Commit, May, requests
    <3>2. ASSUME NEW q \in Runs, Fail(q) \/ Crash(q) PROVE FALSE
      BY <1>3, <3>2 DEF Fail, Crash, Live
    <3>3. ASSUME NEW q \in Runs, NEW e \in Distributions, StartJob(q, e) \/ RestartStalled(q, e) PROVE FALSE
      BY <1>3, <3>3 DEF StartJob, RestartStalled
    <3>4. ASSUME NEW e \in Distributions, NEW j \in Judges, Validate(e, j) PROVE e = d
      BY <1>3, <3>4 DEF Validate
    <3>5. ASSUME NEW e \in Distributions, Create(e) PROVE FALSE
      BY <1>3, <3>5 DEF Create
    <3> QED
      BY <1>3, <3>1, <3>2, <3>3, <3>4, <3>5 DEF Next, vars, requests
  <2> QED
    BY <2>1 DEF Validate
<1> QED
  BY <1>1, <1>2, <1>3 DEF Forward

\* What a commit makes visible is the run's, and the run has ended.
LEMMA RowsOfEndedKept ==
    ASSUME TypeOK, RowsOfEnded, [Next]_vars
    PROVE  RowsOfEnded'
<1>1. Forward
  BY StepsGoForward
<1>2. \A x \in tasks \union cases : x[2] \in Runs
  BY DEF TypeOK, Rows
<1>3. ASSUME NEW r \in Runs, Commit(r) PROVE RowsOfEnded'
  <2>1. pc'[r] = "done"
    BY <1>3 DEF Commit, Goto, TypeOK
  <2>2. ASSUME NEW x \in tasks' \union cases' PROVE x \in tasks \union cases \/ x[2] = r
    BY <1>3, <2>2 DEF Commit, OpenTasks, CurrentCases, Own
  <2> QED
    BY <1>1, <1>2, <2>1, <2>2 DEF RowsOfEnded, Forward
<1>4. CASE UNCHANGED <<tasks, cases>>
  BY <1>1, <1>2, <1>4 DEF RowsOfEnded, Forward
<1>5. (\E r \in Runs : Commit(r)) \/ UNCHANGED <<tasks, cases>>
  BY DEF Next, Work, Create, Validate, StartJob, RestartStalled, Attach, Begin, SelectAppeals, FindTask,
         AssignTask, CompleteDistributionTask, FindCase, RenameCase, CreateCase, Fail, Crash, Abandon,
         vars, database
<1> QED
  BY <1>3, <1>4, <1>5

\* One run at a time moves, and the others keep what they hold.
Kept(q) ==
    /\ pc'[q] = pc[q] /\ todo'[q] = todo[q] /\ unrecorded'[q] = unrecorded[q]
    /\ found'[q] = found[q] /\ tx'[q] = tx[q]

Move(r) ==
    \/ \E d \in Distributions : StartJob(r, d) \/ RestartStalled(r, d)
    \/ Work(r) \/ Fail(r) \/ Crash(r)

LEMMA OthersKept ==
    ASSUME TypeOK, NEW r \in Runs, Move(r), NEW q \in Others(r)
    PROVE  Kept(q)
<1> USE DEF TypeOK, Kept, Others, Goto
<1>1. ASSUME NEW d \in Distributions, StartJob(r, d) \/ RestartStalled(r, d) PROVE Kept(q)
  BY <1>1 DEF StartJob, RestartStalled, Attach, progress
<1>2. CASE Begin(r) \/ SelectAppeals(r) \/ FindTask(r) \/ AssignTask(r)
  BY <1>2 DEF Begin, SelectAppeals, FindTask, AssignTask, progress
<1>3. CASE CompleteDistributionTask(r)
  BY <1>3 DEF CompleteDistributionTask
<1>4. CASE FindCase(r)
  BY <1>4 DEF FindCase, Leave
<1>5. CASE RenameCase(r) \/ CreateCase(r)
  BY <1>5 DEF RenameCase, CreateCase, Leave, progress
<1>6. CASE Commit(r)
  BY <1>6 DEF Commit, progress
<1>7. CASE Fail(r) \/ Crash(r)
  BY <1>7 DEF Fail, Crash, Abandon
<1> QED
  BY <1>1, <1>2, <1>3, <1>4, <1>5, <1>6, <1>7 DEF Move, Work

\* A step is a run's move, a request's, or changes nothing.
LEMMA StepKinds ==
    ASSUME [Next]_vars
    PROVE  \/ \E r \in Runs : Move(r)
           \/ /\ UNCHANGED <<of, pc, todo, unrecorded, found, tx, ready, tasks, cases, overlaps>>
              /\ \/ \E d \in Distributions : Create(d) \/ \E j \in Judges : Validate(d, j)
                 \/ UNCHANGED vars
BY DEF Next, Move, Create, Validate, vars, progress, database, counters

-----------------------------------------------------------------------------
(* Without overlaps *)

LEMMA AloneKept ==
    ASSUME TypeOK, Placed, RowsOfEnded, Alone, [Next]_vars
    PROVE  Alone'
<1> DEFINE Solo == \A r, q \in Runs : Live(r) /\ Live(q) /\ of[r] = of[q] => r = q
<1> DEFINE Marked == \A r \in Runs : Live(r) => status[of[r]] \in Pending
<1> USE DEF TypeOK
<1>1. SUFFICES ASSUME overlaps' = 0
               PROVE  Solo' /\ Marked' /\ OnlyCompletedDistribute'
  BY DEF Alone
<1>2. overlaps \in Nat /\ (overlaps' = overlaps \/ overlaps' = overlaps + 1)
  <2>1. overlaps \in Nat
    BY ModeAssumption
  <2>2. ASSUME NEW r \in Runs, NEW d \in Distributions, StartJob(r, d) \/ RestartStalled(r, d)
        PROVE  overlaps' = overlaps \/ overlaps' = overlaps + 1
    BY <2>2 DEF StartJob, RestartStalled, Attach
  <2>3. ASSUME NEW r \in Runs, Work(r) \/ Fail(r) \/ Crash(r) PROVE overlaps' = overlaps
    BY <2>3 DEF counters, Work, Begin, SelectAppeals, FindTask, AssignTask, CompleteDistributionTask,
                FindCase, RenameCase, CreateCase, Commit, Fail, Crash
  <2>4. ASSUME NEW d \in Distributions, Create(d) \/ \E j \in Judges : Validate(d, j)
        PROVE  overlaps' = overlaps
    BY <2>4 DEF Create, Validate, counters
  <2> QED
    BY <2>1, <2>2, <2>3, <2>4 DEF Next, vars, counters
<1>3. Solo /\ Marked /\ OnlyCompletedDistribute /\ overlaps = 0 /\ overlaps' = overlaps
  BY <1>1, <1>2 DEF Alone
<1>4. \A x \in tasks : x[2] \in Runs /\ pc[x[2]] = "done"
  BY DEF RowsOfEnded, Rows
<1>5. Forward
  BY StepsGoForward
<1>6. CASE \E d \in Distributions : Create(d) \/ \E j \in Judges : Validate(d, j)
  BY <1>3, <1>4, <1>6 DEF Create, Validate, progress, database, counters, Live, Pending,
                          OnlyCompletedDistribute, Placed
<1>7. ASSUME NEW r \in Runs, NEW d \in Distributions, StartJob(r, d) \/ RestartStalled(r, d)
      PROVE  Solo' /\ Marked' /\ OnlyCompletedDistribute'
  <2>1. ~ \E q \in Runs : of[q] = d /\ Live(q)
    BY <1>2, <1>3, <1>7 DEF StartJob, RestartStalled, Attach
  <2>2. /\ of' = [of EXCEPT ![r] = d] /\ pc' = [pc EXCEPT ![r] = "loaded"] /\ pc[r] = "idle"
        /\ status[d] \in Pending /\ status' = [status EXCEPT ![d] = "pending"]
        /\ tasks' = tasks
    BY <1>7 DEF StartJob, RestartStalled, Attach, Goto, database, Pending
  <2>3. Solo'
    BY <1>3, <2>1, <2>2 DEF Live
  <2>4. Marked'
    BY <1>3, <2>1, <2>2 DEF Live, Pending, Placed
  <2>5. OnlyCompletedDistribute'
    BY <1>3, <1>4, <2>2 DEF OnlyCompletedDistribute, Pending
  <2> QED
    BY <2>3, <2>4, <2>5
<1>8. ASSUME NEW r \in Runs, Live(r), \A q \in Others(r) : pc'[q] = pc[q], UNCHANGED <<of, tasks>>,
             \/ status' = status
             \/ status' = [status EXCEPT ![of[r]] = "started"]
             \/ status' = [status EXCEPT ![of[r]] = "error"] /\ pc'[r] = "done"
      PROVE  Solo' /\ Marked' /\ OnlyCompletedDistribute'
  <2>1. Solo'
    BY <1>3, <1>8 DEF Live, Others
  <2>2. of[r] \in Distributions
    BY <1>8 DEF Placed, Live
  <2>3. Marked'
    BY <1>3, <1>8, <2>1, <2>2 DEF Live, Others, Pending, Placed
  <2>4. OnlyCompletedDistribute'
    <3>1. status[of[r]] # "completed"
      BY <1>3, <1>8 DEF Pending
    <3>2. \A x \in tasks : of[x[2]] \in Distributions /\ status[of[x[2]]] = "completed"
      BY <1>3, <1>4 DEF OnlyCompletedDistribute, Placed
    <3> QED
      BY <1>8, <3>1, <3>2 DEF OnlyCompletedDistribute
  <2> QED
    BY <2>1, <2>3, <2>4
<1>9. ASSUME NEW r \in Runs, Begin(r) PROVE Solo' /\ Marked' /\ OnlyCompletedDistribute'
  <2>1. of[r] \in Distributions /\ \A q \in Others(r) : pc'[q] = pc[q]
    BY <1>9, OthersKept DEF Begin, Placed, Move, Work, Kept
  <2> QED
    BY <1>8, <1>9, <2>1 DEF Begin, Goto, Live, database
<1>10. ASSUME NEW r \in Runs,
              \/ SelectAppeals(r) \/ FindTask(r) \/ AssignTask(r) \/ CompleteDistributionTask(r)
              \/ FindCase(r) \/ RenameCase(r) \/ CreateCase(r)
       PROVE  Solo' /\ Marked' /\ OnlyCompletedDistribute'
  <2>1. \A q \in Others(r) : pc'[q] = pc[q]
    BY <1>10, OthersKept DEF Move, Work, Kept
  <2>2. Live(r)
    BY <1>10 DEF SelectAppeals, FindTask, AssignTask, CompleteDistributionTask, FindCase, RenameCase,
                 CreateCase, May, Live
  <2>3. UNCHANGED <<of, status, tasks>>
    BY <1>10 DEF SelectAppeals, FindTask, AssignTask, CompleteDistributionTask, FindCase, RenameCase,
                 CreateCase, requests, database
  <2> QED
    BY <1>8, <2>1, <2>2, <2>3
<1>11. ASSUME NEW r \in Runs, Commit(r) PROVE Solo' /\ Marked' /\ OnlyCompletedDistribute'
  <2>1. /\ of[r] \in Distributions /\ Live(r) /\ pc'[r] = "done" /\ of' = of
        /\ status' = [status EXCEPT ![of[r]] = "completed"]
        /\ \A q \in Others(r) : pc'[q] = pc[q]
    BY <1>11, OthersKept DEF Commit, Placed, Live, Goto, Move, Work, Kept
  <2>2. Solo'
    BY <1>3, <2>1 DEF Live, Others
  <2>3. Marked'
    BY <1>3, <2>1 DEF Live, Others, Placed
  <2>4. \A x \in tasks' : x \in tasks \/ x[2] = r
    BY <1>11 DEF Commit, OpenTasks, Own
  <2>5. OnlyCompletedDistribute'
    BY <1>3, <1>4, <2>1, <2>4 DEF OnlyCompletedDistribute
  <2> QED
    BY <2>2, <2>3, <2>5
<1>12. ASSUME NEW r \in Runs, Fail(r) \/ Crash(r) PROVE Solo' /\ Marked' /\ OnlyCompletedDistribute'
  <2>1. \A q \in Others(r) : pc'[q] = pc[q]
    BY <1>12, OthersKept DEF Move, Kept
  <2> QED
    BY <1>8, <1>12, <2>1 DEF Fail, Crash, Abandon, Goto, database
<1>13. CASE UNCHANGED vars
  BY <1>3, <1>13 DEF vars, requests, database, Live, OnlyCompletedDistribute
<1> QED
  BY <1>6, <1>7, <1>9, <1>10, <1>11, <1>12, <1>13 DEF Next, Work

-----------------------------------------------------------------------------
(* The pool and the desks *)

LEMMA TxPoolOfOthers ==
    ASSUME NEW q \in Runs, TxPool(q), Kept(q), ready' \subseteq ready
    PROVE  TxPool(q)'
BY DEF TxPool, Kept, Appeal

\* A run without writes.
LEMMA TxPoolEmpty ==
    ASSUME NEW r \in Runs, tx'[r] = NoWrites, pc'[r] = "done"
    PROVE  TxPool(r)'
BY DEF TxPool, NoWrites, Working

\* What is left of a batch when the run leaves an appeal.
LEMMA LeftOver ==
    ASSUME TypeOK, NEW r \in Runs, TxPool(r), pc[r] \in Working, Leave(r)
    PROVE  /\ pc'[r] \in {"select", "case"}
           /\ pc'[r] = "case" => todo'[r] \union unrecorded'[r] # {}
<1>1. todo'[r] \union unrecorded'[r] = (todo[r] \union unrecorded[r]) \ {Appeal(r)}
  BY DEF Leave, TypeOK
<1>2. pc'[r] = (IF todo[r] \union unrecorded[r] = {Appeal(r)} THEN "select" ELSE "case")
  BY DEF Leave, Goto, TypeOK
<1>3. todo[r] \union unrecorded[r] # {}
  BY DEF TxPool
<1> QED
  BY <1>1, <1>2, <1>3

LEMMA TxPoolKept ==
    ASSUME TypeOK, NEW r \in Runs, TxPool(r), Move(r)
    PROVE  TxPool(r)'
<1> USE DEF TypeOK
<1>1. ASSUME NEW d \in Distributions, StartJob(r, d) \/ RestartStalled(r, d) PROVE TxPool(r)'
  BY <1>1 DEF StartJob, RestartStalled, Attach, Goto, progress, database, TxPool, Working
<1>2. CASE Begin(r)
  BY <1>2 DEF Begin, Goto, progress, database, TxPool, Working
<1>3. CASE SelectAppeals(r)
  <2>1. /\ todo'[r] # {} /\ pc'[r] \in {"case", "task"} /\ pc[r] = "select"
        /\ UNCHANGED <<unrecorded, tx, ready>>
    <3>1. PICK S \in (SUBSET ReadyAppeals(r)) \ {{}} : todo' = [todo EXCEPT ![r] = S]
      BY <1>3 DEF SelectAppeals
    <3>2. todo'[r] # {}
      BY <3>1
    <3> QED
      BY <1>3, <3>2 DEF SelectAppeals, Goto, database
  <2> QED
    BY <2>1 DEF TxPool
<1>4. CASE FindTask(r)
  <2>1. /\ pc'[r] = "assign" /\ pc[r] = "task" /\ UNCHANGED <<todo, unrecorded, tx, ready>>
        /\ \A x \in found'[r] : x[1] = Appeal(r)
    BY <1>4 DEF FindTask, May, Goto, database
  <2>2. Appeal(r)' = Appeal(r)
    BY <2>1 DEF Appeal
  <2> QED
    BY <2>1, <2>2 DEF TxPool, Working
<1>5. CASE AssignTask(r)
  <2>1. /\ pc'[r] = "complete" /\ pc[r] = "assign" /\ UNCHANGED <<todo, unrecorded, found, ready>>
        /\ tx'[r].tasks = tx[r].tasks \union {Appeal(r)}
        /\ tx'[r].cancelled = tx[r].cancelled \union found[r]
        /\ tx'[r].completed = tx[r].completed
    BY <1>5 DEF AssignTask, May, Goto, progress, database
  <2>2. Appeal(r)' = Appeal(r)
    BY <2>1 DEF Appeal
  <2> QED
    BY <2>1, <2>2 DEF TxPool, Working
<1>6. CASE CompleteDistributionTask(r)
  <2>1. /\ pc'[r] \in {"record", "case", "task"} /\ pc[r] = "complete" /\ UNCHANGED <<found, ready>>
        /\ tx'[r].tasks = tx[r].tasks
        /\ tx'[r].cancelled = tx[r].cancelled
        /\ tx'[r].completed = tx[r].completed \union ({Appeal(r)} \intersect ready)
    BY <1>6 DEF CompleteDistributionTask, May, Goto, database
  <2>2. UNCHANGED <<todo, unrecorded>> \/ Appeal(r) \in unrecorded'[r]
    BY <1>6 DEF CompleteDistributionTask
  <2> QED
    BY <2>1, <2>2 DEF TxPool, Working
<1>7. CASE FindCase(r)
  <2>1. /\ pc[r] = "case" /\ UNCHANGED <<tx, ready>>
        /\ \A x \in found'[r] : x[1] = Appeal(r)
    BY <1>7 DEF FindCase, May, database
  <2>2. CASE Leave(r)
    BY <2>1, <2>2, LeftOver DEF TxPool, Working
  <2>3. CASE UNCHANGED <<todo, unrecorded>> /\ pc'[r] \in {"rename", "task", "record"}
    <3>1. Appeal(r)' = Appeal(r)
      BY <2>3 DEF Appeal
    <3> QED
      BY <2>1, <2>3, <3>1 DEF TxPool, Working
  <2> QED
    BY <1>7, <2>2, <2>3 DEF FindCase, Goto
<1>8. CASE RenameCase(r)
  <2>1. /\ pc'[r] \in {"task", "record"} /\ pc[r] = "rename" /\ UNCHANGED <<todo, unrecorded, found, ready>>
        /\ tx'[r].tasks = tx[r].tasks
        /\ tx'[r].cancelled = tx[r].cancelled
        /\ tx'[r].completed = tx[r].completed
    BY <1>8 DEF RenameCase, May, Goto, progress, database
  <2> QED
    BY <2>1 DEF TxPool, Working
<1>9. CASE CreateCase(r)
  <2>1. /\ Leave(r) /\ pc[r] = "record" /\ UNCHANGED <<found, ready>>
        /\ tx'[r].tasks = tx[r].tasks
        /\ tx'[r].cancelled = tx[r].cancelled
        /\ tx'[r].completed = tx[r].completed
    BY <1>9 DEF CreateCase, May, database
  <2> QED
    BY <2>1, LeftOver DEF TxPool, Working
<1>10. CASE Commit(r) \/ Fail(r) \/ Crash(r)
  BY <1>10, TxPoolEmpty DEF Commit, Fail, Crash, Abandon, Goto
<1> QED
  BY <1>1, <1>2, <1>3, <1>4, <1>5, <1>6, <1>7, <1>8, <1>9, <1>10 DEF Move, Work

LEMMA PoolKept ==
    ASSUME TypeOK, \A r \in Runs : TxPool(r), PoolAndDesksDisjoint, [Next]_vars
    PROVE  PoolAndDesksDisjoint' /\ \A r \in Runs : TxPool(r)'
<1>1. ASSUME NEW r \in Runs, Commit(r) PROVE PoolAndDesksDisjoint' /\ ready' \subseteq ready
  <2>1. /\ pc[r] = "select" /\ ready' = ready \ tx[r].completed
        /\ tasks' = (tasks \ tx[r].cancelled) \union {<<a, r>> : a \in tx[r].tasks}
    BY <1>1 DEF Commit, ReadyAppeals, OpenTasks, Own
  <2>2. ASSUME NEW a \in Appeals, a \in ready' PROVE ~ \E x \in tasks' : x[1] = a
    <3>1. a \in ready /\ a \notin tx[r].tasks
      BY <2>1, <2>2 DEF TxPool
    <3> QED
      BY <2>1, <3>1 DEF PoolAndDesksDisjoint
  <2>3. ASSUME NEW a \in Appeals, a \notin ready' PROVE \E x \in tasks' : x[1] = a
    <3>1. CASE a \in tx[r].tasks
      <4>1. <<a, r>> \in tasks' /\ <<a, r>>[1] = a
        BY <2>1, <3>1
      <4> QED
        BY <4>1
    <3>2. CASE a \notin tx[r].tasks
      <4>1. a \notin ready
        BY <2>1, <2>3, <3>2 DEF TxPool
      <4>2. PICK x \in tasks : x[1] = a
        BY <4>1 DEF PoolAndDesksDisjoint
      <4>3. x \notin tx[r].cancelled
        BY <3>2, <4>2 DEF TxPool
      <4> QED
        BY <2>1, <4>2, <4>3
    <3> QED
      BY <3>1, <3>2
  <2> QED
    BY <2>1, <2>2, <2>3 DEF PoolAndDesksDisjoint
<1>2. (\E r \in Runs : Commit(r)) \/ UNCHANGED <<ready, tasks>>
  BY DEF Next, Work, Create, Validate, StartJob, RestartStalled, Attach, Begin, SelectAppeals, FindTask,
         AssignTask, CompleteDistributionTask, FindCase, RenameCase, CreateCase, Fail, Crash, Abandon,
         vars, database
<1>3. PoolAndDesksDisjoint' /\ ready' \subseteq ready
  BY <1>1, <1>2 DEF PoolAndDesksDisjoint
<1>4. ASSUME NEW r \in Runs, Move(r), NEW q \in Runs PROVE TxPool(q)'
  <2>1. CASE q = r
    BY <1>4, <2>1, TxPoolKept
  <2>2. CASE q # r
    BY <1>3, <1>4, <2>2, OthersKept, TxPoolOfOthers DEF Others
  <2> QED
    BY <2>1, <2>2
<1>5. ASSUME UNCHANGED <<pc, todo, unrecorded, found, tx>>, NEW q \in Runs PROVE TxPool(q)'
  BY <1>3, <1>5, TxPoolOfOthers DEF Kept
<1> QED
  BY <1>3, <1>4, <1>5, StepKinds

-----------------------------------------------------------------------------
(* The hearing docket *)

LEMMA TxCasesOfOthers ==
    ASSUME TypeOK, Forward, NEW q \in Runs, TxCases(q), Kept(q), UNCHANGED cases
    PROVE  TxCases(q)'
<1>1. Appeal(q)' = Appeal(q)
  BY DEF Kept, Appeal
<1>2. \A x \in tx[q].renamed \union found[q] : x[2] \in Runs
  BY DEF TypeOK, Rows
<1> QED
  BY <1>1, <1>2 DEF TxCases, Kept, Forward

\* The appeal a run works on is not among those it has recorded.
LEMMA AppealNotRecorded ==
    ASSUME TypeOK, NEW r \in Runs, TxPool(r), TxCases(r), pc[r] \in Working
    PROVE  Appeal(r) \in todo[r] /\ Appeal(r) \notin tx[r].cases
BY AppealIn DEF TxCases

LEMMA TxCasesKept ==
    ASSUME TypeOK, HearingDocket, RowsOfEnded, tasks = cases, OneEach(cases),
           NEW r \in Runs, TxPool(r), TxCases(r), Move(r), Forward
    PROVE  TxCases(r)'
<1> USE DEF TypeOK
<1>0. /\ \A x \in tx[r].renamed \union found[r] : x[2] \in Runs
      /\ \A x \in cases : pc[x[2]] = "done" /\ x[2] \in Runs
      /\ \A q \in Runs : pc[q] = "done" => pc'[q] = "done"
  BY DEF Rows, RowsOfEnded, Forward
<1>1. ASSUME NEW d \in Distributions, StartJob(r, d) \/ RestartStalled(r, d) PROVE TxCases(r)'
  <2>1. pc'[r] = "loaded" /\ pc[r] = "idle" /\ UNCHANGED <<todo, unrecorded, found, tx, cases>>
    BY <1>1 DEF StartJob, RestartStalled, Attach, Goto, progress, database
  <2> QED
    BY <1>0, <2>1 DEF TxCases, Working
<1>2. CASE Begin(r)
  <2>1. pc'[r] = "select" /\ pc[r] = "loaded" /\ UNCHANGED <<todo, unrecorded, found, tx, cases>>
    BY <1>2 DEF Begin, Goto, progress, database
  <2> QED
    BY <1>0, <2>1 DEF TxCases, Working
<1>3. CASE SelectAppeals(r)
  <2>1. PICK S \in (SUBSET ReadyAppeals(r)) \ {{}} : todo' = [todo EXCEPT ![r] = S]
    BY <1>3 DEF SelectAppeals
  <2>2. pc[r] = "select" /\ UNCHANGED <<unrecorded, found, tx, cases>>
    BY <1>3 DEF SelectAppeals, database
  <2>3. todo'[r] \subseteq ready \ tx[r].completed
    BY <2>1 DEF ReadyAppeals
  <2>4. pc'[r] = "case"
    BY <1>3 DEF SelectAppeals, Goto
  <2>5. tx[r].cases \subseteq tx[r].tasks
    BY DEF TxCases
  <2>6. todo'[r] \intersect tx[r].cases = {}
    BY <2>2, <2>3, <2>5 DEF TxPool
  <2> QED
    BY <1>0, <2>2, <2>4, <2>6 DEF TxCases
<1>4. CASE FindTask(r)
  <2> DEFINE open == {x \in OpenTasks(r) : x[1] = Appeal(r)}
  <2>1. pc'[r] = "assign" /\ pc[r] = "task" /\ UNCHANGED <<todo, unrecorded, tx, cases>>
    BY <1>4 DEF FindTask, May, Goto, database
  <2>2. (open = {} /\ found'[r] = {}) \/ \E y \in open : found'[r] = {y}
    BY <1>4 DEF FindTask
  <2>3. Appeal(r)' = Appeal(r)
    BY <2>1 DEF Appeal
  <2>4. Appeal(r) \notin tx[r].tasks
    BY <2>1, AppealNotRecorded DEF TxCases, Working
  <2>5. \A x \in open : x \in cases
    BY <2>4 DEF OpenTasks, Own
  <2>6. ASSUME NEW x \in tx[r].renamed \intersect cases, x \notin tx[r].cancelled
        PROVE  x[1] = Appeal(r) /\ x \in found'[r]
    <3>1. x[1] = Appeal(r)
      BY <2>1, <2>6 DEF TxCases
    <3>2. x \in open
      BY <2>6, <3>1 DEF OpenTasks
    <3>3. \A y \in open : y = x
      BY <2>5, <3>1, <3>2 DEF OneEach
    <3> QED
      BY <2>2, <3>1, <3>2, <3>3
  <2> HIDE DEF open
  <2> QED
    BY <1>0, <2>1, <2>3, <2>6 DEF TxCases, Working
<1>5. CASE AssignTask(r)
  <2>1. /\ pc'[r] = "complete" /\ pc[r] = "assign" /\ UNCHANGED <<todo, unrecorded, found, cases>>
        /\ tx'[r].tasks = tx[r].tasks \union {Appeal(r)}
        /\ tx'[r].cancelled = tx[r].cancelled \union found[r]
        /\ tx'[r].cases = tx[r].cases /\ tx'[r].renamed = tx[r].renamed
    BY <1>5 DEF AssignTask, May, Goto, progress, database
  <2>2. Appeal(r)' = Appeal(r)
    BY <2>1 DEF Appeal
  <2> QED
    BY <1>0, <2>1, <2>2 DEF TxCases, Working
<1>6. CASE CompleteDistributionTask(r)
  <2>1. /\ pc'[r] = "record" /\ pc[r] = "complete" /\ UNCHANGED <<todo, unrecorded, found, cases>>
        /\ tx'[r].tasks = tx[r].tasks
        /\ tx'[r].cancelled = tx[r].cancelled
        /\ tx'[r].cases = tx[r].cases /\ tx'[r].renamed = tx[r].renamed
    BY <1>6 DEF CompleteDistributionTask, May, Goto, database
  <2>2. Appeal(r)' = Appeal(r)
    BY <2>1 DEF Appeal
  <2> QED
    BY <1>0, <2>1, <2>2 DEF TxCases, Working
<1>7. CASE FindCase(r)
  <2>1. /\ pc'[r] \in {"rename", "task"} /\ pc[r] = "case" /\ UNCHANGED <<todo, unrecorded, tx, cases>>
        /\ found'[r] = {x \in CurrentCases(r) : x[1] = Appeal(r)}
    BY <1>7 DEF FindCase, May, Goto, database
  <2>2. Appeal(r)' = Appeal(r)
    BY <2>1 DEF Appeal
  <2>3. found'[r] \subseteq cases
    BY <2>1, AppealNotRecorded DEF CurrentCases, Own, Working
  <2>4. \A x \in found'[r] : pc'[x[2]] = "done"
    BY <1>0, <2>3
  <2> QED
    BY <1>0, <2>1, <2>2, <2>4 DEF TxCases, Working
<1>8. CASE RenameCase(r)
  <2>1. /\ pc'[r] = "task" /\ pc[r] = "rename" /\ UNCHANGED <<todo, unrecorded, found, cases>>
        /\ tx'[r].tasks = tx[r].tasks
        /\ tx'[r].cancelled = tx[r].cancelled
        /\ tx'[r].cases = tx[r].cases
        /\ tx'[r].renamed = tx[r].renamed \union found[r]
    BY <1>8 DEF RenameCase, May, Goto, progress, database
  <2>2. Appeal(r)' = Appeal(r)
    BY <2>1 DEF Appeal
  <2>3. \A x \in found[r] : x[1] = Appeal(r)
    BY <2>1 DEF TxPool
  <2> QED
    BY <1>0, <2>1, <2>2, <2>3 DEF TxCases, Working
<1>9. CASE CreateCase(r)
  <2>1. /\ Leave(r) /\ pc[r] = "record" /\ UNCHANGED <<found, cases>>
        /\ tx'[r].tasks = tx[r].tasks
        /\ tx'[r].cancelled = tx[r].cancelled
        /\ tx'[r].cases = tx[r].cases \union {Appeal(r)}
        /\ tx'[r].renamed = tx[r].renamed
    BY <1>9 DEF CreateCase, May, database
  <2>2. pc'[r] \in {"select", "case"}
    BY <2>1, LeftOver DEF Working
  <2>3. todo'[r] = todo[r] \ {Appeal(r)} /\ unrecorded'[r] = {}
    BY <2>1 DEF Leave, TxCases
  <2>4. \A x \in cases : x[1] = Appeal(r) => x \in tx[r].renamed
    BY <1>9, <2>1 DEF CreateCase, May, Rejected, CurrentCases
  <2> QED
    BY <1>0, <2>1, <2>2, <2>3, <2>4 DEF TxCases, Working
<1>10. CASE Commit(r) \/ Fail(r) \/ Crash(r)
  <2>1. pc'[r] = "done" /\ tx'[r] = NoWrites
    BY <1>10 DEF Commit, Fail, Crash, Abandon, Goto
  <2>2. unrecorded'[r] = {}
    BY <1>10 DEF Commit, Fail, Crash, Abandon, progress, TxCases
  <2> QED
    BY <2>1, <2>2 DEF TxCases, NoWrites, Working
<1> QED
  BY <1>1, <1>2, <1>3, <1>4, <1>5, <1>6, <1>7, <1>8, <1>9, <1>10 DEF Move, Work

\* The appeals a run has recorded grow by one that no other run records.
LEMMA OneRecorderKept ==
    ASSUME TypeOK, OneRecorder, NEW r \in Runs, Move(r)
    PROVE  OneRecorder'
<1>1. \/ tx'[r].cases = tx[r].cases
      \/ tx'[r].cases = {}
      \/ /\ tx'[r].cases = tx[r].cases \union {Appeal(r)}
         /\ \A q \in Others(r) : Appeal(r) \notin tx[q].cases
  <2> USE DEF TypeOK
  <2>1. ASSUME NEW d \in Distributions, StartJob(r, d) \/ RestartStalled(r, d) PROVE tx' = tx
    BY <2>1 DEF StartJob, RestartStalled, Attach
  <2>2. CASE Begin(r) \/ SelectAppeals(r) \/ FindTask(r) \/ FindCase(r)
    BY <2>2 DEF Begin, SelectAppeals, FindTask, FindCase
  <2>3. CASE AssignTask(r) \/ CompleteDistributionTask(r) \/ RenameCase(r)
    BY <2>3 DEF AssignTask, CompleteDistributionTask, RenameCase
  <2>4. CASE CreateCase(r)
    BY <2>4 DEF CreateCase, May, Blockers
  <2>5. CASE Commit(r) \/ Fail(r) \/ Crash(r)
    BY <2>5 DEF Commit, Fail, Crash, Abandon, NoWrites
  <2> QED
    BY <2>1, <2>2, <2>3, <2>4, <2>5 DEF Move, Work
<1>2. \A q \in Others(r) : tx'[q].cases = tx[q].cases
  BY OthersKept DEF Kept
<1> QED
  BY <1>1, <1>2 DEF OneRecorder, Others

\* A commit puts one task and one record where the run's appeals had theirs.
LEMMA CommitHearing ==
    ASSUME TypeOK, HearingDocket, Hearing, \A q \in Runs : TxPool(q), RowsOfEnded, Forward,
           NEW r \in Runs, Commit(r)
    PROVE  /\ tasks' = cases' /\ OneEach(cases')
           /\ \A q \in Others(r) : TxCases(q)'
<1>1. /\ pc[r] = "select"
      /\ tasks' = (tasks \ tx[r].cancelled) \union {<<a, r>> : a \in tx[r].tasks}
      /\ cases' = (cases \ tx[r].renamed) \union {<<a, r>> : a \in tx[r].cases}
  BY DEF Commit, OpenTasks, CurrentCases, Own
<1>2. TxCases(r) /\ TxPool(r) /\ tasks = cases /\ OneEach(cases) /\ OneRecorder /\ \A q \in Runs : TxCases(q)
  BY DEF Hearing
<1>3. tx[r].tasks = tx[r].cases
  BY <1>1, <1>2 DEF TxCases
<1>4. \A x \in cases : x \in tx[r].renamed <=> x \in tx[r].cancelled
  BY <1>1, <1>2, <1>3 DEF TxCases, TxPool
<1>5. tasks' = cases'
  BY <1>1, <1>2, <1>3, <1>4
<1>6. OneEach(cases')
  <2>1. ASSUME NEW x \in cases', NEW y \in cases', x[1] = y[1] PROVE x = y
    <3>1. CASE x \in cases /\ y \in cases
      BY <1>2, <2>1, <3>1 DEF OneEach
    <3>2. ASSUME NEW u \in cases', NEW v \in cases', u[1] = v[1], u \notin cases PROVE u = v
      <4>1. PICK a \in tx[r].cases : u = <<a, r>>
        BY <1>1, <3>2
      <4>2. v \notin cases \ tx[r].renamed
        BY <1>2, <3>2, <4>1 DEF TxCases
      <4>3. PICK b \in tx[r].cases : v = <<b, r>>
        BY <1>1, <4>2
      <4> QED
        BY <3>2, <4>1, <4>3
    <3> QED
      BY <2>1, <3>1, <3>2
  <2> QED
    BY <2>1 DEF OneEach
<1>7. ASSUME NEW q \in Others(r) PROVE TxCases(q)'
  <2>1. q \in Runs /\ q # r /\ TxCases(q) /\ Kept(q) /\ Appeal(q)' = Appeal(q)
    BY <1>2, <1>7, OthersKept DEF Others, Move, Work, Kept, Appeal
  <2>2. \A x \in tx[q].renamed \union found[q] : x[2] \in Runs
    BY <2>1 DEF TypeOK, Rows
  <2>3. \A x \in cases' : x \in cases \/ (x[2] = r /\ x[1] \in tx[r].cases)
    BY <1>1
  <2>4. \A x \in tx[q].renamed : x[2] # r
    BY <1>1, <2>1 DEF TxCases
  <2>5. tx[q].cases \intersect tx[r].cases = {}
    BY <1>2, <2>1 DEF OneRecorder
  <2> QED
    BY <2>1, <2>2, <2>3, <2>4, <2>5 DEF TxCases, Kept, Forward
<1> QED
  BY <1>5, <1>6, <1>7

LEMMA HearingKept ==
    ASSUME TypeOK, RowsOfEnded, \A r \in Runs : TxPool(r), Hearing, [Next]_vars
    PROVE  Hearing'
<1>1. SUFFICES ASSUME HearingDocket
               PROVE  tasks' = cases' /\ OneEach(cases') /\ OneRecorder' /\ \A q \in Runs : TxCases(q)'
  BY DEF Hearing, OneEach
<1>2. Forward
  BY StepsGoForward
<1>3. tasks = cases /\ OneEach(cases) /\ OneRecorder /\ \A q \in Runs : TxCases(q)
  BY <1>1 DEF Hearing
<1>4. ASSUME NEW r \in Runs, Move(r)
      PROVE  tasks' = cases' /\ OneEach(cases') /\ OneRecorder' /\ \A q \in Runs : TxCases(q)'
  <2>1. TxCases(r)' /\ OneRecorder'
    BY <1>1, <1>2, <1>3, <1>4, TxCasesKept, OneRecorderKept
  <2>2. CASE Commit(r)
    BY <1>1, <1>2, <2>1, <2>2, CommitHearing DEF Others
  <2>3. CASE ~ Commit(r)
    <3>1. UNCHANGED <<tasks, cases>>
      BY <1>4, <2>3 DEF Move, Work, StartJob, RestartStalled, Attach, Begin, SelectAppeals, FindTask,
         AssignTask, CompleteDistributionTask, FindCase, RenameCase, CreateCase, Fail, Crash, Abandon,
         database
    <3>2. ASSUME NEW q \in Others(r) PROVE TxCases(q)'
      BY <1>2, <1>3, <1>4, <3>1, <3>2, OthersKept, TxCasesOfOthers DEF Others
    <3> QED
      BY <1>3, <2>1, <3>1, <3>2 DEF Others
  <2> QED
    BY <2>2, <2>3
<1>5. CASE UNCHANGED <<of, pc, todo, unrecorded, found, tx, ready, tasks, cases, overlaps>>
  <2>1. ASSUME NEW q \in Runs PROVE TxCases(q)'
    BY <1>2, <1>3, <1>5, <2>1, TxCasesOfOthers DEF Kept
  <2> QED
    BY <1>3, <1>5, <2>1 DEF OneRecorder
<1> QED
  BY <1>4, <1>5, StepKinds

-----------------------------------------------------------------------------
(* The invariant *)

LEMMA InitInvariant == Init => IInv
<1> SUFFICES ASSUME Init PROVE IInv
  OBVIOUS
<1>1. TypeOK
  BY ModeAssumption DEF Init, TypeOK, NoWrites
<1>2. Placed /\ RowsOfEnded /\ PoolAndDesksDisjoint
  BY DEF Init, Placed, RowsOfEnded, PoolAndDesksDisjoint
<1>3. \A r \in Runs : TxPool(r) /\ TxCases(r)
  BY DEF Init, TxPool, TxCases, NoWrites, Working
<1>4. Hearing
  BY <1>3 DEF Init, Hearing, OneEach, OneRecorder, NoWrites
<1>5. Alone
  BY DEF Init, Alone, Live, OnlyCompletedDistribute
<1> QED
  BY <1>1, <1>2, <1>3, <1>4, <1>5 DEF IInv

LEMMA NextPreserves == IInv /\ [Next]_vars => IInv'
<1> SUFFICES ASSUME IInv, [Next]_vars PROVE IInv'
  OBVIOUS
<1>1. TypeOK'
  BY TypesKept DEF IInv
<1>2. Placed' /\ RowsOfEnded'
  BY PlacedKept, RowsOfEndedKept DEF IInv
<1>3. PoolAndDesksDisjoint' /\ \A r \in Runs : TxPool(r)'
  BY PoolKept DEF IInv
<1>4. Hearing' /\ Alone'
  BY HearingKept, AloneKept DEF IInv
<1> QED
  BY <1>1, <1>2, <1>3, <1>4 DEF IInv

\* The invariant holds in every reachable state.
THEOREM InductiveInvariant == Spec => []IInv
<1> QED
  BY InitInvariant, NextPreserves, PTL DEF Spec

\* Types are correct.
THEOREM TypeCorrect == Spec => []TypeOK
<1>1. IInv => TypeOK
  BY DEF IInv
<1> QED
  BY <1>1, InductiveInvariant, PTL

\* An appeal has left the pool (its DistributionTask is closed) just when a judge
\* has it, for every docket and whatever runs fail, are killed or overlap.
THEOREM PoolIsDisjoint == Spec => []PoolAndDesksDisjoint
<1>1. IInv => PoolAndDesksDisjoint
  BY DEF IInv
<1> QED
  BY <1>1, InductiveInvariant, PTL

\* In the hearing docket an appeal is on one judge's desk: the unique index on
\* distributed_cases makes up for the check of open tasks that two runs can pass.
THEOREM OneJudge == ASSUME HearingDocket PROVE Spec => []OneJudgePerAppeal
<1>1. IInv => OneJudgePerAppeal
  BY DEF IInv, Hearing, OneEach, OneJudgePerAppeal
<1> QED
  BY <1>1, InductiveInvariant, PTL

\* While no job restarts a distribution that still runs, what is distributed was
\* distributed by completed distributions.
THEOREM OnlyCompleted == ASSUME MaxOverlaps = 0 PROVE Spec => []OnlyCompletedDistribute
<1>1. IInv => OnlyCompletedDistribute
  <2>1. IInv => overlaps = 0
    BY DEF IInv, TypeOK
  <2> QED
    BY <2>1 DEF IInv, Alone
<1> QED
  BY <1>1, InductiveInvariant, PTL

-----------------------------------------------------------------------------
(* The hearing docket's distributions implement the allocation *)

\* The judge of each appeal's row, over given tables of judges and executions.
Desk(rows, j, o) ==
    [a \in Appeals |->
        IF \E x \in rows : x[1] = a THEN j[o[(CHOOSE x \in rows : x[1] = a)[2]]] ELSE NoJudge]

LEMMA DeskOfRow ==
    ASSUME NEW rows, OneEach(rows), NEW j, NEW o, NEW a \in Appeals
    PROVE  /\ \A x \in rows : x[1] = a => Desk(rows, j, o)[a] = j[o[x[2]]]
           /\ (\A x \in rows : x[1] # a) => Desk(rows, j, o)[a] = NoJudge
<1>1. ASSUME NEW x \in rows, x[1] = a PROVE Desk(rows, j, o)[a] = j[o[x[2]]]
  <2>1. (CHOOSE y \in rows : y[1] = a) \in rows /\ (CHOOSE y \in rows : y[1] = a)[1] = a
    BY <1>1
  <2>2. (CHOOSE y \in rows : y[1] = a) = x
    BY <1>1, <2>1 DEF OneEach
  <2> QED
    BY <1>1, <2>2 DEF Desk
<1> QED
  BY <1>1 DEF Desk

\* Steps that leave the rows alone leave their judges alone.
LEMMA DeskKept ==
    ASSUME TypeOK, Placed, RowsOfEnded, Forward, NEW rows, rows \subseteq tasks \union cases, OneEach(rows)
    PROVE  Desk(rows, judge', of') = Desk(rows, judge, of)
<1>1. ASSUME NEW x \in rows PROVE judge'[of'[x[2]]] = judge[of[x[2]]]
  <2>1. x[2] \in Runs /\ pc[x[2]] = "done"
    BY <1>1 DEF TypeOK, Rows, RowsOfEnded
  <2> QED
    BY <2>1 DEF Placed, Forward
<1>2. ASSUME NEW a \in Appeals PROVE Desk(rows, judge', of')[a] = Desk(rows, judge, of)[a]
  <2>1. CASE \E x \in rows : x[1] = a
    <3>1. PICK x \in rows : x[1] = a
      BY <2>1
    <3>2. Desk(rows, judge', of')[a] = judge'[of'[x[2]]]
      BY <3>1, DeskOfRow
    <3>3. Desk(rows, judge, of)[a] = judge[of[x[2]]]
      BY <3>1, DeskOfRow
    <3> QED
      BY <1>1, <3>2, <3>3
  <2>2. CASE \A x \in rows : x[1] # a
    BY <2>2, DeskOfRow
  <2> QED
    BY <2>1, <2>2
<1> QED
  BY <1>2 DEF Desk

\* A commit hands the run's appeals to its judge, and no other appeal moves.
LEMMA DeskAfterCommit ==
    ASSUME TypeOK, Placed, RowsOfEnded, Forward, NEW r \in Runs, pc[r] = "select", of'[r] = of[r],
           NEW S \in SUBSET Appeals, NEW rows, rows \subseteq tasks \union cases, OneEach(rows),
           NEW new, OneEach(new), \A a \in S : <<a, r>> \in new,
           \A x \in new : x[1] \notin S => x \in rows,
           \A x \in rows : x[1] \notin S => x \in new
    PROVE  Desk(new, judge', of') =
               [a \in Appeals |-> IF a \in S THEN judge[of[r]] ELSE Desk(rows, judge, of)[a]]
<1>1. judge'[of'[r]] = judge[of[r]]
  BY DEF Placed, Forward
<1>2. Desk(rows, judge', of') = Desk(rows, judge, of)
  BY DeskKept
<1>3. ASSUME NEW a \in Appeals
      PROVE  Desk(new, judge', of')[a] = IF a \in S THEN judge[of[r]] ELSE Desk(rows, judge, of)[a]
  <2>1. CASE a \in S
    <3>1. <<a, r>> \in new /\ <<a, r>>[1] = a /\ <<a, r>>[2] = r
      BY <2>1
    <3>2. Desk(new, judge', of')[a] = judge'[of'[<<a, r>>[2]]]
      BY <3>1, DeskOfRow
    <3> QED
      BY <1>1, <2>1, <3>1, <3>2
  <2>2. CASE a \notin S /\ \E x \in rows : x[1] = a
    <3>1. PICK x \in rows : x[1] = a
      BY <2>2
    <3>2. x \in new
      BY <2>2, <3>1
    <3>3. Desk(new, judge', of')[a] = judge'[of'[x[2]]]
      BY <3>1, <3>2, DeskOfRow
    <3>4. Desk(rows, judge', of')[a] = judge'[of'[x[2]]]
      BY <3>1, DeskOfRow
    <3> QED
      BY <1>2, <2>2, <3>3, <3>4
  <2>3. CASE a \notin S /\ \A x \in rows : x[1] # a
    <3>1. \A x \in new : x[1] # a
      BY <2>3
    <3>2. Desk(new, judge', of')[a] = NoJudge
      BY <3>1, DeskOfRow
    <3>3. Desk(rows, judge, of)[a] = NoJudge
      BY <2>3, DeskOfRow
    <3> QED
      BY <2>3, <3>2, <3>3
  <2> QED
    BY <2>1, <2>2, <2>3
<1> QED
  BY <1>3 DEF Desk

LEMMA InitAllocates == Init => Allocation!Init
BY DEF Init, Allocation!Init, JudgeOf

\* A commit is a Give, and every other step a stutter.
LEMMA NextAllocates ==
    ASSUME HearingDocket, IInv, IInv', [Next]_vars
    PROVE  \/ Allocation!Next
           \/ JudgeOf(tasks)' = JudgeOf(tasks) /\ JudgeOf(cases)' = JudgeOf(cases)
<1>1. TypeOK /\ Placed /\ RowsOfEnded /\ tasks = cases /\ OneEach(cases) /\ OneEach(cases') /\ tasks' = cases'
  BY DEF IInv, Hearing, OneEach
<1>2. Forward
  BY <1>1, StepsGoForward
<1>3. /\ JudgeOf(tasks) = Desk(cases, judge, of) /\ JudgeOf(cases) = Desk(cases, judge, of)
      /\ JudgeOf(tasks)' = Desk(cases', judge', of') /\ JudgeOf(cases)' = Desk(cases', judge', of')
  BY <1>1 DEF JudgeOf, Desk
<1>4. ASSUME NEW r \in Runs, Commit(r) PROVE Allocation!Next
  <2>1. TxCases(r) /\ TxPool(r) /\ OneRecorder
    BY DEF IInv, Hearing
  <2>2. /\ pc[r] = "select" /\ of' = of
        /\ cases' = (cases \ tx[r].renamed) \union {<<a, r>> : a \in tx[r].cases}
    BY <1>4 DEF Commit, CurrentCases, Own
  <2>3. tx[r].cases \in SUBSET Appeals
    BY <1>1 DEF TypeOK
  <2>4. \A x \in tx[r].renamed \intersect cases : x[1] \in tx[r].cases
    BY <2>1, <2>2 DEF TxCases, TxPool
  <2>5. /\ \A a \in tx[r].cases : <<a, r>> \in cases'
        /\ \A x \in cases' : x[1] \notin tx[r].cases => x \in cases
        /\ \A x \in cases : x[1] \notin tx[r].cases => x \in cases'
    BY <2>2, <2>4
  <2>6. Desk(cases', judge', of') =
            [a \in Appeals |-> IF a \in tx[r].cases THEN judge[of[r]] ELSE Desk(cases, judge, of)[a]]
    <3>1. cases \subseteq tasks \union cases /\ of'[r] = of[r] /\ pc[r] = "select"
      BY <2>2
    <3> QED
      <4> DEFINE new == cases'
      <4> DEFINE S == tx[r].cases
      <4>1. /\ TypeOK /\ Placed /\ RowsOfEnded /\ Forward /\ S \in SUBSET Appeals
            /\ OneEach(cases) /\ OneEach(new)
        BY <1>1, <1>2, <2>3
      <4>2. /\ \A a \in S : <<a, r>> \in new
            /\ \A x \in new : x[1] \notin S => x \in cases
            /\ \A x \in cases : x[1] \notin S => x \in new
        BY <2>5
      <4> HIDE DEF new, S
      <4>3. Desk(new, judge', of') =
            [a \in Appeals |-> IF a \in S THEN judge[of[r]] ELSE Desk(cases, judge, of)[a]]
        BY <3>1, <4>1, <4>2, DeskAfterCommit
      <4> QED
        BY <4>3 DEF new, S
  <2>7. judge[of[r]] \in Judges
    BY <1>1, <2>2 DEF Placed
  <2>8. Allocation!Give(judge[of[r]], tx[r].cases)
    BY <1>3, <2>6 DEF Allocation!Give
  <2> QED
    BY <2>3, <2>7, <2>8 DEF Allocation!Next
<1>5. CASE UNCHANGED cases
  BY <1>1, <1>2, <1>3, <1>5, DeskKept
<1>6. (\E r \in Runs : Commit(r)) \/ UNCHANGED cases
  BY DEF Next, Work, Create, Validate, StartJob, RestartStalled, Attach, Begin, SelectAppeals, FindTask,
         AssignTask, CompleteDistributionTask, FindCase, RenameCase, CreateCase, Fail, Crash, Abandon,
         vars, database
<1> QED
  BY <1>4, <1>5, <1>6

\* The hearing docket's distributions implement the abstract allocation: a commit
\* hands its judge all its appeals with their records at once, takeovers of
\* appeals that came back included, and no other step moves an appeal or a record.
THEOREM ImplementsAllocation == ASSUME HearingDocket PROVE Spec => AllocationSpec
<1>1. IInv /\ IInv' /\ [Next]_vars => [Allocation!Next]_<<JudgeOf(tasks), JudgeOf(cases)>>
  BY NextAllocates
<1> QED
  BY <1>1, InitAllocates, InductiveInvariant, PTL DEF Spec, AllocationSpec, Allocation!Spec

=============================================================================
