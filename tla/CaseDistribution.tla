-------------------------- MODULE CaseDistribution --------------------------
(***************************************************************************)
(* Automatic case distribution: judges request distributions, jobs run     *)
(* them, several at a time, over one pool of appeals                       *)
(* (app/models/distribution.rb, docket.rb, the hearing docket's            *)
(* HearingRequestCaseDistributor, JudgeAssignTaskCreator and the jobs that *)
(* start and restart distributions).                                       *)
(*                                                                         *)
(* distribute! runs in one READ COMMITTED transaction: its writes are seen *)
(* by others when it commits, a second update of a row waits for the       *)
(* transaction that holds it, and a unique index is checked against what   *)
(* is committed by then. One action is one statement of the code that      *)
(* reads or writes rows.                                                   *)
(***************************************************************************)
EXTENDS Naturals, FiniteSets

CONSTANTS
    Appeals,        \* appeals of one docket, numbered from the oldest
    Judges,
    Distributions,  \* bound on the requests
    Runs,           \* bound on the executions of distribute!
    NoDistribution,
    NoJudge,
    HearingDocket,  \* TRUE: the hearing docket, FALSE: one of the other AMA dockets
    OtherWork,      \* appeals with other open tasks: not to be redistributed
    MaxCrashes,     \* bound on the workers killed
    MaxOverlaps     \* bound on the restarts of a distribution that still runs

ASSUME AppealsAssumption == Appeals \subseteq Nat /\ OtherWork \subseteq Appeals
ASSUME ModeAssumption == HearingDocket \in BOOLEAN /\ MaxCrashes \in Nat /\ MaxOverlaps \in Nat
ASSUME NamesAssumption == NoDistribution \notin Distributions /\ NoJudge \notin Judges

VARIABLES
    status,     \* distributions.status; "none" and "new" before the row exists
    judge,      \* its judge
    of,         \* the distribution each run executes
    pc,         \* what each run does next
    todo,       \* the selected appeals that are not yet assigned
    unrecorded, \* those assigned and not yet recorded
    found,      \* the row the run has read last
    tx,         \* its uncommitted writes
    ready,      \* appeals whose DistributionTask is assigned
    tasks,      \* open JudgeAssignTasks, named by appeal and creating run
    cases,      \* distributed_cases under their appeal's id, named likewise
    renamed,    \* distributed_cases renamed today
    crashes, overlaps

requests == <<status, judge>>
progress == <<todo, unrecorded, found>>
database == <<ready, tasks, cases, renamed>>
counters == <<crashes, overlaps>>
vars == <<requests, of, pc, progress, tx, database, counters>>

Pending == {"pending", "started"}
NoWrites == [tasks |-> {}, cancelled |-> {}, completed |-> {}, cases |-> {}, renamed |-> {}]

-----------------------------------------------------------------------------
(* What a run sees: the committed rows and its own writes *)

Oldest(S) == CHOOSE a \in S : \A b \in S : a <= b
Own(r, S) == {<<a, r>> : a \in S}
Others(r) == Runs \ {r}

ReadyAppeals(r) == ready \ tx[r].completed
OpenTasks(r)    == (tasks \ tx[r].cancelled) \union Own(r, tx[r].tasks)
CurrentCases(r) == (cases \ tx[r].renamed) \union Own(r, tx[r].cases)
RenamedCases(r) == renamed \union tx[r].renamed

\* The appeal a run works on: the oldest of the ones it selected.
Appeal(r) == Oldest(IF todo[r] = {} THEN unrecorded[r] ELSE todo[r])

Live(r) == pc[r] \notin {"idle", "done"}

\* The runs r waits for: those that hold the row it is about to update, or have
\* an uncommitted row in the way of its unique key.
Blockers(r) ==
    {q \in Others(r) :
        \/ pc[r] = "assign" /\ found[r] \intersect tx[q].cancelled # {}
        \/ pc[r] = "complete" /\ Appeal(r) \in ready \intersect tx[q].completed
        \/ pc[r] \in {"rename", "record"} /\ \E x \in tx[q].renamed : x[1] = Appeal(r)
        \/ pc[r] = "record" /\ Appeal(r) \in tx[q].cases}

\* Fault: no unique index on distributed_cases.case_id.
RejectedWithoutIndex(r) ==
    pc[r] = "assign" /\ found[r] = {} /\ \E x \in OpenTasks(r) : x[1] = Appeal(r)

\* The statement r is at raises: only_open_task_of_type, or the unique index on
\* distributed_cases.case_id.
Rejected(r) ==
    \/ pc[r] = "assign" /\ found[r] = {} /\ \E x \in OpenTasks(r) : x[1] = Appeal(r)
    \/ pc[r] = "rename" /\ \E x \in RenamedCases(r) \ found[r] : x[1] = Appeal(r)
    \/ pc[r] = "record" /\ \E x \in CurrentCases(r) : x[1] = Appeal(r)

May(r, p) == pc[r] = p /\ Blockers(r) = {} /\ ~ Rejected(r)

Goto(r, p) == pc' = [pc EXCEPT ![r] = p]

-----------------------------------------------------------------------------
(* Requests *)

Init ==
    /\ status = [d \in Distributions |-> "none"]
    /\ judge = [d \in Distributions |-> NoJudge]
    /\ of = [r \in Runs |-> NoDistribution]
    /\ pc = [r \in Runs |-> "idle"]
    /\ todo = [r \in Runs |-> {}]
    /\ unrecorded = [r \in Runs |-> {}]
    /\ found = [r \in Runs |-> {}]
    /\ tx = [r \in Runs |-> NoWrites]
    /\ ready = Appeals
    /\ tasks = {} /\ cases = {} /\ renamed = {}
    /\ crashes = 0 /\ overlaps = 0

\* Distribution.create! validates that the judge has no pending distribution...
Validate(d, j) ==
    /\ status[d] = "none"
    /\ ~ \E e \in Distributions : judge[e] = j /\ status[e] \in Pending
    /\ status' = [status EXCEPT ![d] = "new"]
    /\ judge' = [judge EXCEPT ![d] = j]
    /\ UNCHANGED <<of, pc, progress, tx, database, counters>>

\* Fault: the row is inserted without its status.
CreateUnmarked(d) ==
    /\ status[d] = "new"
    /\ status' = [status EXCEPT ![d] = "null"]
    /\ UNCHANGED <<judge, of, pc, progress, tx, database, counters>>

\* ... and then inserts the row (before_create :mark_as_pending).
Create(d) ==
    /\ status[d] = "new"
    /\ status' = [status EXCEPT ![d] = "pending"]
    /\ UNCHANGED <<judge, of, pc, progress, tx, database, counters>>

-----------------------------------------------------------------------------
(* Jobs *)

\* A job loads a distribution that another run may still execute.
Attach(r, d) ==
    /\ pc[r] = "idle"
    /\ of' = [of EXCEPT ![r] = d]
    /\ Goto(r, "loaded")
    /\ IF \E q \in Runs : of[q] = d /\ Live(q)
       THEN overlaps < MaxOverlaps /\ overlaps' = overlaps + 1
       ELSE UNCHANGED overlaps
    /\ UNCHANGED <<judge, progress, tx, database, crashes>>

\* StartDistributionJob, or IncompleteDistributionsJob for a distribution that
\* is still pending after 55 minutes.
StartJob(r, d) ==
    /\ status[d] = "pending"
    /\ Attach(r, d)
    /\ UNCHANGED status

\* Fault: distribute! is called on the started distribution and returns at once.
RestartWithoutPending(r, d) ==
    /\ status[d] = "started"
    /\ pc[r] = "idle"
    /\ Goto(r, "done")
    /\ UNCHANGED <<requests, of, progress, tx, database, counters>>

\* IncompleteDistributionsJob for one that was started over 15 minutes ago: it
\* is marked pending again.
RestartStalled(r, d) ==
    /\ status[d] = "started"
    /\ Attach(r, d)
    /\ status' = [status EXCEPT ![d] = "pending"]

\* distribute! has tested the status it loaded; it marks the distribution as
\* started before its transaction begins.
Begin(r) ==
    /\ pc[r] = "loaded"
    /\ Goto(r, "select")
    /\ status' = [status EXCEPT ![of[r]] = "started"]
    /\ UNCHANGED <<judge, of, progress, tx, database, counters>>

\* One call of distribute_appeals: which of the ready appeals it selects depends
\* on the docket, the judge and the batch.
SelectAppeals(r) ==
    /\ pc[r] = "select"
    /\ \E S \in (SUBSET ReadyAppeals(r)) \ {{}} : todo' = [todo EXCEPT ![r] = S]
    /\ Goto(r, IF HearingDocket THEN "case" ELSE "task")
    /\ UNCHANGED <<requests, of, unrecorded, found, tx, database, counters>>

\* JudgeAssignTaskCreator reads the appeal's open JudgeAssignTask.
FindTask(r) ==
    /\ May(r, "task")
    /\ LET open == {x \in OpenTasks(r) : x[1] = Appeal(r)}
       IN  \E f \in (IF open = {} THEN {{}} ELSE {{x} : x \in open}) :
              found' = [found EXCEPT ![r] = f]
    /\ Goto(r, "assign")
    /\ UNCHANGED <<requests, of, todo, unrecorded, tx, database, counters>>

\* It creates one for its judge, and cancels the one it found.
AssignTask(r) ==
    /\ May(r, "assign")
    /\ tx' = [tx EXCEPT ![r].tasks = @ \union {Appeal(r)},
                        ![r].cancelled = @ \union found[r]]
    /\ Goto(r, "complete")
    /\ UNCHANGED <<requests, of, progress, database, counters>>

\* close_distribution_tasks_for_appeal. The hearing docket goes on with the
\* record of this appeal, the others with the next task.
CompleteDistributionTask(r) ==
    /\ May(r, "complete")
    /\ tx' = [tx EXCEPT ![r].completed = @ \union ({Appeal(r)} \intersect ready)]
    /\ IF HearingDocket
       THEN Goto(r, "record") /\ UNCHANGED <<todo, unrecorded>>
       ELSE /\ Goto(r, IF todo[r] = {Appeal(r)} THEN "case" ELSE "task")
            /\ todo' = [todo EXCEPT ![r] = @ \ {Appeal(r)}]
            /\ unrecorded' = [unrecorded EXCEPT ![r] = @ \union {Appeal(r)}]
    /\ UNCHANGED <<requests, of, found, database, counters>>

\* The appeal is done with.
Leave(r) ==
    /\ todo' = [todo EXCEPT ![r] = @ \ {Appeal(r)}]
    /\ unrecorded' = [unrecorded EXCEPT ![r] = @ \ {Appeal(r)}]
    /\ Goto(r, IF todo[r] \union unrecorded[r] = {Appeal(r)} THEN "select" ELSE "case")

\* DistributedCase.find_by(case_id:). An appeal with other open work keeps the
\* record it has, except in the hearing docket.
FindCase(r) ==
    /\ May(r, "case")
    /\ LET kase == {x \in CurrentCases(r) : x[1] = Appeal(r)}
       IN  /\ found' = [found EXCEPT ![r] = kase]
           /\ IF kase # {} /\ ~ HearingDocket /\ Appeal(r) \in OtherWork
              THEN Leave(r)
              ELSE /\ Goto(r, IF kase # {} THEN "rename"
                              ELSE IF HearingDocket THEN "task" ELSE "record")
                   /\ UNCHANGED <<todo, unrecorded>>
    /\ UNCHANGED <<requests, of, tx, database, counters>>

RenameCase(r) ==
    /\ May(r, "rename")
    /\ tx' = [tx EXCEPT ![r].renamed = @ \union found[r]]
    /\ Goto(r, IF HearingDocket THEN "task" ELSE "record")
    /\ UNCHANGED <<requests, of, progress, database, counters>>

CreateCase(r) ==
    /\ May(r, "record")
    /\ tx' = [tx EXCEPT ![r].cases = @ \union {Appeal(r)}]
    /\ Leave(r)
    /\ UNCHANGED <<requests, of, found, database, counters>>

\* Fault: the status is saved when the transaction is over, by a job of its own.
CommitOnly(r) ==
    /\ pc[r] = "select"
    /\ Goto(r, "done")
    /\ ready' = ReadyAppeals(r)
    /\ tasks' = OpenTasks(r)
    /\ cases' = CurrentCases(r)
    /\ renamed' = RenamedCases(r)
    /\ tx' = [tx EXCEPT ![r] = NoWrites]
    /\ UNCHANGED <<requests, of, progress, counters>>

\* The transaction commits, the distribution's status with it.
Commit(r) ==
    /\ pc[r] = "select"
    /\ Goto(r, "done")
    /\ status' = [status EXCEPT ![of[r]] = "completed"]
    /\ ready' = ReadyAppeals(r)
    /\ tasks' = OpenTasks(r)
    /\ cases' = CurrentCases(r)
    /\ renamed' = RenamedCases(r)
    /\ tx' = [tx EXCEPT ![r] = NoWrites]
    /\ UNCHANGED <<judge, of, progress, counters>>

\* The transaction of r is rolled back and the run is over.
Abandon(r) ==
    /\ Goto(r, "done")
    /\ tx' = [tx EXCEPT ![r] = NoWrites]
    /\ todo' = [todo EXCEPT ![r] = {}]
    /\ unrecorded' = [unrecorded EXCEPT ![r] = {}]
    /\ found' = [found EXCEPT ![r] = {}]
    /\ UNCHANGED <<judge, of, database>>

\* Fault: distribute! does not open a transaction, what was written stays.
FailWithoutTransaction(r) ==
    /\ Live(r) /\ pc[r] # "loaded"
    /\ Goto(r, "done")
    /\ status' = [status EXCEPT ![of[r]] = "error"]
    /\ ready' = ReadyAppeals(r)
    /\ tasks' = OpenTasks(r)
    /\ cases' = CurrentCases(r)
    /\ renamed' = RenamedCases(r)
    /\ tx' = [tx EXCEPT ![r] = NoWrites]
    /\ UNCHANGED <<judge, of, progress, counters>>

\* Any StandardError in the transaction (a rejected statement, a deadlock that
\* the database breaks, a timeout, VACOLS): rolled back, then recorded.
Fail(r) ==
    /\ Live(r) /\ pc[r] # "loaded"
    /\ Abandon(r)
    /\ status' = [status EXCEPT ![of[r]] = "error"]
    /\ UNCHANGED counters

\* The worker is killed: nobody records anything.
Crash(r) ==
    /\ Live(r)
    /\ crashes < MaxCrashes
    /\ crashes' = crashes + 1
    /\ Abandon(r)
    /\ UNCHANGED <<status, overlaps>>

Work(r) ==
    \/ Begin(r) \/ SelectAppeals(r) \/ FindTask(r) \/ AssignTask(r)
    \/ CompleteDistributionTask(r) \/ FindCase(r) \/ RenameCase(r) \/ CreateCase(r)
    \/ Commit(r)

Next ==
    \/ \E d \in Distributions : Create(d) \/ \E j \in Judges : Validate(d, j)
    \/ \E r \in Runs, d \in Distributions : StartJob(r, d) \/ RestartStalled(r, d)
    \/ \E r \in Runs : Work(r) \/ Fail(r) \/ Crash(r)

Spec == Init /\ [][Next]_vars

\* r is one of several runs that wait for each other.
Deadlocked(r) ==
    \E S \in SUBSET Runs :
        /\ r \in S
        /\ \A x \in S : /\ Blockers(x) \intersect S # {}
                        /\ \E y \in S : x \in Blockers(y)

\* What the database raises is recorded, a deadlock included.
RaisedError(r) == (Rejected(r) \/ Deadlocked(r)) /\ Fail(r)

\* A job for a distribution that no run executes.
NextJob(d) ==
    /\ ~ \E q \in Runs : of[q] = d /\ Live(q)
    /\ \E r \in Runs : StartJob(r, d) \/ RestartStalled(r, d)

\* A worker goes on with its run unless it is killed, and the hourly
\* IncompleteDistributionsJob finds what was lost.
Fairness ==
    /\ \A r \in Runs : WF_vars(Work(r)) /\ WF_vars(RaisedError(r))
    /\ \A d \in Distributions : WF_vars(NextJob(d))

FairSpec == Spec /\ Fairness

-----------------------------------------------------------------------------
(* What must hold *)

Rows == Appeals \X Runs

TypeOK ==
    /\ status \in [Distributions -> {"none", "new", "pending", "started", "completed", "error"}]
    /\ judge \in [Distributions -> Judges \union {NoJudge}]
    /\ of \in [Runs -> Distributions \union {NoDistribution}]
    /\ pc \in [Runs -> {"idle", "loaded", "select", "case", "rename", "task", "assign",
                        "complete", "record", "done"}]
    /\ todo \in [Runs -> SUBSET Appeals]
    /\ unrecorded \in [Runs -> SUBSET Appeals]
    /\ found \in [Runs -> SUBSET Rows]
    /\ tx \in [Runs -> [tasks: SUBSET Appeals, cancelled: SUBSET Rows,
                        completed: SUBSET Appeals, cases: SUBSET Appeals,
                        renamed: SUBSET Rows]]
    /\ ready \subseteq Appeals
    /\ tasks \subseteq Rows
    /\ cases \subseteq Rows
    /\ renamed \subseteq Rows
    /\ crashes \in 0..MaxCrashes
    /\ overlaps \in 0..MaxOverlaps

\* An appeal is on one judge's desk: two distributions that select it at the
\* same time do not both give it away (MultipleOpenRootChildTaskChecker).
OneJudgePerAppeal == \A x, y \in tasks : x[1] = y[1] => x = y

\* An appeal leaves the pool when a judge gets it and not otherwise, whichever
\* statement a run fails at.
PoolAndDesksDisjoint == \A a \in Appeals : a \in ready <=> ~ \E x \in tasks : x[1] = a

\* Only completed distributions have distributed anything, so one that is stuck
\* or in error can be started again (Distribution#distributed_cases_count).
OnlyCompletedDistribute == \A x \in tasks : status[of[x[2]]] = "completed"

\* Every request is decided: crashed workers, deadlocks and rejected statements
\* never leave a distribution pending or started for good.
EventuallyDecided ==
    \A d \in Distributions : status[d] \in Pending ~> status[d] \in {"completed", "error"}

JudgeOf(rows) ==
    [a \in Appeals |->
        IF \E x \in rows : x[1] = a
        THEN judge[of[(CHOOSE x \in rows : x[1] = a)[2]]] ELSE NoJudge]

\* The hearing docket's distributions implement the abstract allocation: each
\* commit hands over a set of appeals at once, with the current DistributedCase of
\* each, takeovers by a later distribution included, and nothing else moves a case.
Allocation == INSTANCE CaseAllocation WITH holder <- JudgeOf(tasks), recorded <- JudgeOf(cases)
AllocationSpec == Allocation!Spec
=============================================================================
