--------------------------- MODULE EstablishClaim ---------------------------
(***************************************************************************)
(* The work queue of Establish Claim: tasks are created for decided legacy *)
(* appeals, prepared, assigned to users on request, worked with VBMS and   *)
(* VACOLS, and given back when they are left lying                         *)
(* (app/models/dispatch/task.rb, establish_claim.rb, their controllers and *)
(* the jobs that create, prepare and reassign the tasks).                  *)
(*                                                                         *)
(* A row is saved only if its lock_version is the one that was loaded:     *)
(* every event changes the row, so a loaded row is compared with the row.  *)
(* One action is one query, one committed transaction or one outside call; *)
(* a transaction that calls VACOLS has locked the row before and commits   *)
(* after. Quotas and claim_establishments, which follow the row, are left  *)
(* out, and every user may see every appeal.                               *)
(***************************************************************************)
EXTENDS Naturals, FiniteSets

CONSTANTS
    Appeals,    \* decided legacy appeals
    Users,
    Requests,   \* requests served at one time
    Jobs,       \* executions of the preparing and reassigning jobs at one time
    MaxTasks,   \* bound on the rows
    MaxFaults,  \* bound on requests and executions broken off
    None

ASSUME BoundsAssumption == MaxTasks \in Nat /\ MaxFaults \in Nat
ASSUME FiniteAssumption == IsFiniteSet(Requests)
ASSUME NoneAssumption == None \notin Appeals \union Users

Tasks   == 1..MaxTasks
Retries == 3

VARIABLES
    task,       \* dispatch_tasks, numbered in creation order
    old,        \* the rows prepared before today
    active,     \* appeals that are active in VACOLS again
    claims,     \* appeals with an end product of the decision in VBMS
    moved,      \* location updates of each appeal in VACOLS
    request,    \* what each request has loaded and does next
    job,        \* the same for each execution of a job
    faults

outside == <<active, claims, moved>>
vars == <<task, old, outside, request, job, faults>>

NoTask    == [appeal |-> None, state |-> "none", user |-> None, status |-> "none", ref |-> FALSE]
NoRequest == [pc |-> "idle", kind |-> "none", user |-> None, batch |-> {}, row |-> <<>>, tries |-> 0]
NoJob     == [kind |-> "idle", batch |-> {}]

\* The ways to complete a task; the first two update VACOLS.
Moving      == {"review_complete", "assign_existing"}
Completions == Moving \union {"email_complete", "cancel"}

-----------------------------------------------------------------------------
(* Rows *)

Existing == {t \in Tasks : task[t].state # "none"}
Of(a)    == {t \in Existing : task[t].appeal = a}

\* to_complete, assigned_not_completed, a user's current_task, assignable
ToComplete   == {t \in Existing \intersect old : task[t].state \notin {"unprepared", "completed"}}
NotCompleted == {t \in ToComplete : task[t].user # None}
Current(u)   == {t \in ToComplete : task[t].user = u}
Assignable   == {t \in Existing : task[t].state = "unassigned" /\ task[t].user = None}

\* The id of the next row.
NextId(t) == t \notin Existing /\ 1..(t-1) \subseteq Existing

\* What a query reads: the rows with their ids.
Load(S) == {<<t, task[t]>> : t \in S}
Oldest(x, batch) == x \in batch /\ \A y \in batch : x[1] <= y[1]

\* Fault: there is no lock_version.
Unversioned(x) == TRUE

\* The save of a loaded row finds its lock_version: else StaleObjectError.
Fresh(x) == task[x[1]] = x[2]

\* Fault: no row is locked.
NeverLocked(t) == TRUE

\* No transaction of a request that is with VACOLS holds the row.
Unlocked(t) ==
    \A r \in Requests : request[r].pc \in {"vacols", "commit"} => request[r].row[1] # t

Save(x, row) == task' = [task EXCEPT ![x[1]] = row]

\* Fault: the completion status is written to aasm_state.
StatusAsState(row, status) == [row EXCEPT !.state = status, !.status = status]

Completed(row, status) == [row EXCEPT !.state = "completed", !.status = status]

-----------------------------------------------------------------------------
Init ==
    /\ task = [t \in Tasks |-> NoTask] /\ old = {}
    /\ active = {} /\ claims = {} /\ moved = [a \in Appeals |-> 0]
    /\ request = [r \in Requests |-> NoRequest]
    /\ job = [j \in Jobs |-> NoJob]
    /\ faults = 0

NewRow(a) == [NoTask EXCEPT !.appeal = a, !.state = "unprepared"]

\* CreateEstablishClaimTasksJob, one execution at a time: find_or_create_by.
CreateTask(a) ==
    /\ Of(a) = {}
    /\ \E t \in Tasks : NextId(t) /\ task' = [task EXCEPT ![t] = NewRow(a)]
    /\ UNCHANGED <<old, outside, request, job, faults>>

\* Midnight: what is prepared was prepared before today.
NewDay ==
    /\ old' = old \union {t \in Existing : task[t].state # "unprepared"}
    /\ UNCHANGED <<task, outside, request, job, faults>>

\* The appeal goes on in VACOLS: should_invalidate? of its tasks.
Reactivate(a) ==
    /\ active' = active \union {a}
    /\ UNCHANGED <<task, old, claims, moved, request, job, faults>>

-----------------------------------------------------------------------------
(* Requests *)

At(r, pc) == request[r].pc = pc
Goto(r, pc) == request' = [request EXCEPT ![r].pc = pc]
Respond(r) == request' = [request EXCEPT ![r] = NoRequest]

\* Dispatch::Task.assign_next_to!: the user has no current task.
AskForTask(r, u) ==
    /\ At(r, "idle") /\ Current(u) = {}
    /\ request' = [request EXCEPT ![r] = [NoRequest EXCEPT !.pc = "find", !.user = u]]
    /\ UNCHANGED <<task, old, outside, job, faults>>

\* next_assignable loads the rows ...
FindAssignable(r) ==
    /\ At(r, "find")
    /\ IF Assignable = {} THEN Respond(r)
       ELSE request' = [request EXCEPT ![r].pc = "next", ![r].batch = Load(Assignable)]
    /\ UNCHANGED <<task, old, outside, job, faults>>

\* retry_when StaleObjectError
Retry(r) ==
    IF request[r].tries < Retries
    THEN request' = [request EXCEPT ![r] = [NoRequest EXCEPT !.pc = "find", !.user = request[r].user,
                                                             !.tries = request[r].tries + 1]]
    ELSE Respond(r)

\* ... and takes the oldest, invalidating those that have become invalid.
Consider(r, x) ==
    /\ At(r, "next") /\ Oldest(x, request[r].batch)
    /\ IF x[2].appeal \notin active
       THEN /\ request' = [request EXCEPT ![r].pc = "check", ![r].row = x, ![r].batch = {}]
            /\ UNCHANGED task
       ELSE IF Fresh(x)
       THEN /\ Save(x, Completed(x[2], "invalidated"))
            /\ IF request[r].batch = {x} THEN Respond(r)
               ELSE request' = [request EXCEPT ![r].batch = @ \ {x}]
       ELSE Retry(r) /\ UNCHANGED task
    /\ UNCHANGED <<old, outside, job, faults>>

\* assign_user: UserAlreadyHasTaskError.
CheckUser(r) ==
    /\ At(r, "check")
    /\ IF Current(request[r].user) = {} THEN Goto(r, "assign") ELSE Respond(r)
    /\ UNCHANGED <<task, old, outside, job, faults>>

Assign(r) ==
    /\ At(r, "assign")
    /\ LET x == request[r].row
       IN  IF Fresh(x)
           THEN /\ Save(x, [x[2] EXCEPT !.state = "assigned", !.user = request[r].user])
                /\ Respond(r)
           ELSE Retry(r) /\ UNCHANGED task
    /\ UNCHANGED <<old, outside, job, faults>>

\* The states a request of the task's user does something in. The page of a
\* task is shown once it is started; a task that is reviewed is not performed
\* again, and completing fails (InvalidTransition) in any other state.
ActionableStates(kind) ==
    IF kind = "show" THEN {"assigned"}
    ELSE IF kind = "perform" THEN {"started"}
    ELSE {"started", "reviewed"}

LoadTask(r, t, kind) ==
    /\ At(r, "idle")
    /\ t \in Existing /\ task[t].user # None /\ task[t].state \in ActionableStates(kind)
    /\ request' = [request EXCEPT ![r] = [NoRequest EXCEPT !.pc = kind, !.kind = kind,
                                              !.user = task[t].user, !.row = <<t, task[t]>>]]
    /\ UNCHANGED <<task, old, outside, job, faults>>

\* start! when the task is shown.
Start(r) ==
    /\ At(r, "show")
    /\ IF Fresh(request[r].row)
       THEN Save(request[r].row, [request[r].row[2] EXCEPT !.state = "started"])
       ELSE UNCHANGED task
    /\ Respond(r)
    /\ UNCHANGED <<old, outside, job, faults>>

\* perform!: VBMS establishes the end product, or refuses a duplicate ...
Perform(r) ==
    /\ At(r, "perform")
    /\ LET a == request[r].row[2].appeal
       IN  IF a \in claims THEN Respond(r) /\ UNCHANGED claims
           ELSE claims' = claims \union {a} /\ Goto(r, "review")
    /\ UNCHANGED <<task, old, active, moved, job, faults>>

\* Fault: the reference id is not saved.
ReviewWithoutReference(r) ==
    /\ At(r, "review") /\ Unlocked(request[r].row[1])
    /\ IF Fresh(request[r].row)
       THEN Save(request[r].row, [request[r].row[2] EXCEPT !.state = "reviewed"])
       ELSE UNCHANGED task
    /\ Respond(r)
    /\ UNCHANGED <<old, outside, job, faults>>

\* ... and review! saves its id.
Review(r) ==
    /\ At(r, "review") /\ Unlocked(request[r].row[1])
    /\ IF Fresh(request[r].row)
       THEN Save(request[r].row, [request[r].row[2] EXCEPT !.state = "reviewed", !.ref = TRUE])
       ELSE UNCHANGED task
    /\ Respond(r)
    /\ UNCHANGED <<old, outside, job, faults>>

\* The completion status and the reference id a request completes a task with.
StatusAfter(kind, row) ==
    IF kind # "review_complete" THEN kind
    ELSE IF row.ref THEN "routed" ELSE "vacols_routed"

CompletedRow(r) ==
    LET q == request[r]
        row == Completed(q.row[2], StatusAfter(q.kind, q.row[2]))
    IN  IF q.kind = "assign_existing" THEN [row EXCEPT !.ref = TRUE] ELSE row

\* complete_with_email! and cancel!.
Complete(r) ==
    /\ request[r].pc \in Completions \ Moving /\ Unlocked(request[r].row[1])
    /\ IF Fresh(request[r].row) THEN Save(request[r].row, CompletedRow(r)) ELSE UNCHANGED task
    /\ Respond(r)
    /\ UNCHANGED <<old, outside, job, faults>>

\* Fault: the task is saved in a transaction of its own.
LockAndSave(r) ==
    /\ request[r].pc \in Moving /\ Unlocked(request[r].row[1])
    /\ IF Fresh(request[r].row) THEN Save(request[r].row, CompletedRow(r)) /\ Goto(r, "vacols")
       ELSE UNCHANGED task /\ Respond(r)
    /\ UNCHANGED <<old, outside, job, faults>>

\* complete_with_review! and assign_existing_end_product!: the row is updated
\* and stays locked ...
LockTask(r) ==
    /\ request[r].pc \in Moving /\ Unlocked(request[r].row[1])
    /\ IF Fresh(request[r].row) THEN Goto(r, "vacols") ELSE Respond(r)
    /\ UNCHANGED <<task, old, outside, job, faults>>

\* ... while VACOLS commits the new location ...
UpdateVacols(r) ==
    /\ At(r, "vacols")
    /\ moved' = [moved EXCEPT ![request[r].row[2].appeal] = @ + 1]
    /\ Goto(r, "commit")
    /\ UNCHANGED <<task, old, active, claims, job, faults>>

\* ... and then the transaction does.
Commit(r) ==
    /\ At(r, "commit")
    /\ Save(request[r].row, CompletedRow(r))
    /\ Respond(r)
    /\ UNCHANGED <<old, outside, job, faults>>

\* A call fails, its reply is lost, or the web server is killed: rolled back.
FailRequest(r) ==
    /\ ~ At(r, "idle") /\ faults < MaxFaults
    /\ faults' = faults + 1
    /\ Respond(r)
    /\ UNCHANGED <<task, old, outside, job>>

-----------------------------------------------------------------------------
(* PrepareEstablishClaimTasksJob and ReassignOldTasksJob *)

Running(j, kind) == job[j].kind = kind
Stop(j) == job' = [job EXCEPT ![j] = NoJob]
Done(j, x) ==
    IF job[j].batch = {x} THEN Stop(j) ELSE job' = [job EXCEPT ![j].batch = @ \ {x}]

StartJob(j, kind) ==
    /\ Running(j, "idle")
    /\ LET S == IF kind = "prepare" THEN {t \in Existing : task[t].state = "unprepared"}
                ELSE NotCompleted
       IN  S # {} /\ job' = [job EXCEPT ![j] = [kind |-> kind, batch |-> Load(S)]]
    /\ UNCHANGED <<task, old, outside, request, faults>>

\* prepare_with_decision! of one of the rows. StaleObjectError ends the run.
PrepareTask(j, x) ==
    /\ Running(j, "prepare") /\ x \in job[j].batch
    /\ IF Fresh(x)
       THEN /\ Save(x, IF x[2].appeal \in active THEN Completed(x[2], "invalidated")
                       ELSE [x[2] EXCEPT !.state = "unassigned"])
            /\ Done(j, x)
       ELSE Stop(j) /\ UNCHANGED task
    /\ UNCHANGED <<old, outside, request, faults>>

\* No decision is found, or VBMS fails: the next run tries again.
SkipTask(j, x) ==
    /\ Running(j, "prepare") /\ x \in job[j].batch
    /\ x[2].appeal \notin active
    /\ Done(j, x)
    /\ UNCHANGED <<task, old, outside, request, faults>>

\* complete! raises for a task that is assigned and not started, a save for a
\* row that has changed, and recreate! if the appeal has another task to
\* complete.
Unexpirable(x) ==
    \/ x[2].state = "assigned"
    \/ ~ Fresh(x)
    \/ (ToComplete \intersect Of(x[2].appeal)) \ {x[1]} # {}

\* Fault: the task is completed before the new one is asked for.
ExpireOnly(j, x) ==
    /\ Running(j, "reassign") /\ x \in job[j].batch
    /\ Unlocked(x[1]) /\ Fresh(x)
    /\ Save(x, Completed(x[2], "expired"))
    /\ Done(j, x)
    /\ UNCHANGED <<old, outside, request, faults>>

\* expire!: completed and created again, in one transaction.
Expire(j, x) ==
    /\ Running(j, "reassign") /\ x \in job[j].batch
    /\ Unlocked(x[1]) /\ ~ Unexpirable(x)
    /\ \E t \in Tasks :
          /\ NextId(t)
          /\ task' = [task EXCEPT ![x[1]] = Completed(x[2], "expired"), ![t] = NewRow(x[2].appeal)]
    /\ Done(j, x)
    /\ UNCHANGED <<old, outside, request, faults>>

\* An error ends the run, with the tasks it has not come to.
BreakOff(j, x) ==
    /\ Running(j, "reassign") /\ x \in job[j].batch
    /\ Unlocked(x[1]) /\ Unexpirable(x)
    /\ Stop(j)
    /\ UNCHANGED <<task, old, outside, request, faults>>

KillJob(j) ==
    /\ ~ Running(j, "idle") /\ faults < MaxFaults
    /\ faults' = faults + 1
    /\ Stop(j)
    /\ UNCHANGED <<task, old, outside, request>>

-----------------------------------------------------------------------------
Serve(r) ==
    \/ \E x \in request[r].batch : Consider(r, x)
    \/ FindAssignable(r) \/ CheckUser(r) \/ Assign(r)
    \/ Start(r) \/ Perform(r) \/ Review(r) \/ Complete(r)
    \/ LockTask(r) \/ UpdateVacols(r) \/ Commit(r)

Next ==
    \/ \E a \in Appeals : CreateTask(a) \/ Reactivate(a)
    \/ NewDay
    \/ \E r \in Requests :
          \/ \E u \in Users : AskForTask(r, u)
          \/ \E t \in Tasks, kind \in Completions \union {"show", "perform"} : LoadTask(r, t, kind)
          \/ Serve(r) \/ FailRequest(r)
    \/ \E j \in Jobs :
          \/ \E kind \in {"prepare", "reassign"} : StartJob(j, kind)
          \/ \E x \in job[j].batch :
                PrepareTask(j, x) \/ SkipTask(j, x) \/ Expire(j, x) \/ BreakOff(j, x)
          \/ KillJob(j)

Spec == Init /\ [][Next]_vars

-----------------------------------------------------------------------------
Rows ==
    [appeal : Appeals \union {None},
     state : {"none", "unprepared", "unassigned", "assigned", "started", "reviewed", "completed"},
     user : Users \union {None},
     status : Completions \union {"none", "routed", "vacols_routed", "expired", "invalidated"},
     ref : BOOLEAN]
LoadedRows == Tasks \X Rows

\* Every row and everything that was loaded has its type.
TypeOK ==
    /\ task \in [Tasks -> Rows] /\ old \subseteq Tasks
    /\ active \subseteq Appeals /\ claims \subseteq Appeals /\ moved \in [Appeals -> Nat]
    /\ request \in [Requests ->
          [pc : Completions \union {"idle", "find", "next", "check", "assign", "show", "perform",
                                    "review", "vacols", "commit"},
           kind : Completions \union {"none", "show", "perform"},
           user : Users \union {None}, batch : SUBSET LoadedRows,
           row : LoadedRows \union {<<>>}, tries : 0..Retries]]
    /\ job \in [Jobs -> [kind : {"idle", "prepare", "reassign"}, batch : SUBSET LoadedRows]]
    /\ faults \in 0..MaxFaults

\* The events of a task (the aasm block): what a row may become.
Event(row, next) ==
    \/ row = NoTask /\ \E a \in Appeals : next = NewRow(a)
    \/ row.state = "unprepared" /\ next = [row EXCEPT !.state = "unassigned"]
    \/ row.state = "unassigned" /\ row.user = None
       /\ \E u \in Users : next = [row EXCEPT !.state = "assigned", !.user = u]
    \/ row.state = "assigned" /\ next = [row EXCEPT !.state = "started"]
    \/ row.state = "started" /\ next = [row EXCEPT !.state = "reviewed", !.ref = TRUE]
    \/ row.state \in {"started", "reviewed"}
       /\ next = [Completed(row, next.status) EXCEPT !.ref = next.ref]
    \/ row.state \in {"unprepared", "unassigned"} /\ next = Completed(row, "invalidated")

\* Whatever was loaded before, a task goes through the events of the state
\* machine, one at a time: it is assigned to one user and stays theirs, it is
\* completed once and then stays as it is (the aasm block of Dispatch::Task).
FollowsLifecycle ==
    [][\A t \in Tasks : task'[t] = task[t] \/ Event(task[t], task'[t])]_vars

\* An appeal has at most one task that is not completed, although nothing in the
\* database says so, and a task that expired was created again (expire!).
OneOpenTask ==
    \A a \in Appeals :
        /\ \A s, t \in Of(a) : task[s].state # "completed" /\ task[t].state # "completed" => s = t
        /\ \A t \in Of(a) : task[t].status = "expired" => \E s \in Of(a) : s > t

MovedStatuses == {"routed", "vacols_routed", "assign_existing"}

\* A task whose status says that VACOLS was updated has moved its appeal, and
\* one that says an end product was established has it in VBMS, whichever
\* request broke off between the databases (complete_with_review!).
RoutedInVacols ==
    \A t \in Existing :
        /\ task[t].status \in MovedStatuses => moved[task[t].appeal] > 0
        /\ task[t].status = "routed" => task[t].appeal \in claims

\* VACOLS is updated once for a completed task: again only when a request broke
\* off after its update and the user tries again, never by two requests
\* (complete_with_review!, assign_existing_end_product!).
MovesBounded ==
    \A a \in Appeals :
        moved[a] <= Cardinality({t \in Of(a) : task[t].status \in MovedStatuses})
                    + Cardinality({r \in Requests : At(r, "commit") /\ request[r].row[2].appeal = a})
                    + faults

\* An end product that no task refers to was established by a request that
\* broke off or goes on, or its task was completed meanwhile (perform!).
ClaimsAccounted ==
    \A a \in claims :
        \/ \E t \in Of(a) : task[t].ref \/ task[t].state = "completed"
        \/ \E r \in Requests : At(r, "review") /\ request[r].row[2].appeal = a
        \/ faults > 0
=============================================================================
