----------------------------- MODULE TaskTimers -----------------------------
(***************************************************************************)
(* A timed task and its timer: a hold (TimedHoldTask) or an evidence       *)
(* window (EvidenceSubmissionWindowTask), the TaskTimerJob that ends it,   *)
(* several executions at a time, and the users who close it meanwhile      *)
(* (app/models/concerns/asyncable.rb, timeable_task.rb, task_timer.rb,     *)
(* jobs/task_timer_job.rb, Task#cancel_task_timers).                       *)
(*                                                                         *)
(* One action is one statement that reads or writes rows. A transaction's  *)
(* writes are seen by others when it commits (READ COMMITTED); it keeps    *)
(* the rows it has updated or locked until then.                           *)
(***************************************************************************)
EXTENDS Naturals

CONSTANTS
    Jobs,           \* concurrent executions of TaskTimerJob
    Users,          \* requests of users, one each
    RetryInterval,  \* DEFAULT_REQUIRES_PROCESSING_RETRY_WINDOW_HOURS
    WindowLength,   \* REQUIRES_PROCESSING_WINDOW_DAYS
    Buffer,         \* EXPIRATION_WINDOW_BUFFER_HOURS
    JobPeriod,      \* TaskTimerJob starts at least that often
    Created,        \* the time at which the task is created
    Ends,           \* when its timer may end, as computed then (timer_ends_at)
    MaxTime,        \* bound on the clock
    MaxKills,       \* bound on the workers killed
    MaxRestarts,    \* bound on the restarts by administrators
    None

ASSUME TimeAssumption ==
    /\ {RetryInterval, WindowLength, Buffer, JobPeriod, Created, MaxTime} \subseteq Nat
    /\ Ends \subseteq Nat
    /\ \A e \in Ends : RetryInterval <= e /\ e + WindowLength <= MaxTime
ASSUME OrderAssumption == Created <= MaxTime /\ RetryInterval > 0
\* The job runs at least once within the buffer, and once more within the window.
ASSUME ScheduleAssumption == JobPeriod < Buffer /\ RetryInterval + JobPeriod <= WindowLength
ASSUME NamesAssumption == Jobs \intersect Users = {} /\ None \notin {"completed", "cancelled"}
ASSUME BoundsAssumption == MaxKills \in Nat /\ MaxRestarts \in Nat

Workers == Jobs \union Users
ClosedStatuses == {"completed", "cancelled"}

VARIABLES
    kind,       \* "hold" or "window"
    now,        \* the clock, in units of the constants
    sinceJob,   \* time since an execution of the job started
    task,       \* status of the timed task
    ihp,        \* number of IHP tasks of the representative
    timer,      \* the TaskTimer row
    pc,         \* what each worker does next
    wants,      \* the status each user asked for
    seen,       \* the status of the task as loaded by each worker
    tx,         \* uncommitted writes of each worker
    kills, restarts

vars == <<kind, now, sinceJob, task, ihp, timer, pc, wants, seen, tx, kills, restarts>>
clock == <<now, sinceJob>>
counters == <<kills, restarts>>

NoWrites == [task |-> None, ihp |-> FALSE, cancels |-> FALSE]

-----------------------------------------------------------------------------
(* Asyncable *)

IsOpen == task \notin ClosedStatuses

\* Asyncable.processable.
Processable ==
    /\ timer.last_submitted <= now
    /\ ~ timer.processed
    /\ ~ timer.canceled

\* Asyncable.attemptable: attempted long enough ago, or never.
Attemptable ==
    IF timer.attempted = None
    THEN timer.last_submitted + RetryInterval <= now
    ELSE timer.attempted + RetryInterval < now

\* Asyncable.unexpired.
Expired == timer.last_submitted + WindowLength <= now

\* TaskTimer.requires_processing and requires_cancelling.
RequiresProcessing == IsOpen /\ Processable /\ Attemptable /\ ~ Expired
RequiresCancelling == ~ IsOpen /\ Processable

\* Fault: a timer whose end is long past is not restarted.
SubmittedOnly(end) == end - RetryInterval

\* TimeableTask.create_timer: submit_for_processing! puts the submission one
\* retry interval before the end, and a timer that would be expired, or soon,
\* is restarted.
FirstSubmitted(end) ==
    LET last == end - RetryInterval
    IN  IF last + WindowLength < Created + Buffer THEN Created ELSE last

-----------------------------------------------------------------------------
(* Row locks *)

\* with_lock holds the timer's row; whoever has updated the task holds its row.
HoldsTimer(w) == w \in Jobs /\ pc[w] \in {"load", "find", "create", "close", "timers", "finish"}
HoldsTask(w)  == tx[w].task # None

TimerFree == ~ \E w \in Workers : HoldsTimer(w)
TaskFree  == ~ \E w \in Workers : HoldsTask(w)

Goto(w, p) == pc' = [pc EXCEPT ![w] = p]

\* The transaction of w is over, and what w has loaded is forgotten.
Leave(w, p) ==
    /\ Goto(w, p)
    /\ tx' = [tx EXCEPT ![w] = NoWrites]
    /\ seen' = [seen EXCEPT ![w] = None]

-----------------------------------------------------------------------------
Init ==
    /\ kind \in {"hold", "window"}
    /\ now = Created
    /\ sinceJob \in 0..JobPeriod
    /\ task = "assigned"
    /\ ihp = 0
    /\ \E end \in Ends :
          timer = [last_submitted |-> FirstSubmitted(end), attempted |-> None,
                   processed |-> FALSE, canceled |-> FALSE, error |-> FALSE]
    /\ pc = [w \in Workers |-> "idle"]
    /\ wants = [u \in Users |-> None]
    /\ seen = [w \in Workers |-> None]
    /\ tx = [w \in Workers |-> NoWrites]
    /\ kills = 0 /\ restarts = 0

\* The clock does not run away from the scheduler, and the transaction of a
\* request is over within a unit of it (the retry interval is three hours).
Tick ==
    /\ now < MaxTime
    /\ \A u \in Users : ~ HoldsTask(u)
    /\ sinceJob < JobPeriod
    /\ now' = now + 1
    /\ sinceJob' = sinceJob + 1
    /\ UNCHANGED <<kind, task, ihp, timer, pc, wants, seen, tx, counters>>

(* TaskTimerJob *)

\* The list of timers to process is read once, at the start.
StartJob(j) ==
    /\ pc[j] = "idle"
    /\ Goto(j, IF RequiresProcessing THEN "lock" ELSE "list")
    /\ sinceJob' = 0
    /\ UNCHANGED <<kind, now, task, ihp, timer, wants, seen, tx, counters>>

\* with_lock reloads the timer; whether it still requires processing is not
\* tested again. attempted! is the first write of the transaction.
Lock(j) ==
    /\ pc[j] = "lock"
    /\ TimerFree
    /\ Goto(j, "load")
    /\ UNCHANGED <<kind, clock, task, ihp, timer, wants, seen, tx, counters>>

\* Fault: TimedHoldTask#when_timer_ends looks at the task listed with the timer.
LoadNothing(j) ==
    /\ pc[j] = "load"
    /\ seen' = [seen EXCEPT ![j] = "assigned"]
    /\ Goto(j, IF kind = "window" THEN "find" ELSE "close")
    /\ UNCHANGED <<kind, clock, task, ihp, timer, wants, tx, counters>>

\* The task is loaded for when_timer_ends: a hold that is closed is left alone,
\* a window ends whatever its status.
Load(j) ==
    /\ pc[j] = "load"
    /\ seen' = [seen EXCEPT ![j] = task]
    /\ Goto(j, IF kind = "window" THEN "find" ELSE IF IsOpen THEN "close" ELSE "finish")
    /\ UNCHANGED <<kind, clock, task, ihp, timer, wants, tx, counters>>

\* processed!, unless it was, and the commit of the whole transaction.
FinishJob(j) ==
    /\ pc[j] = "finish"
    /\ task' = IF HoldsTask(j) THEN tx[j].task ELSE task
    /\ ihp' = IF tx[j].ihp THEN ihp + 1 ELSE ihp
    /\ timer' = [timer EXCEPT !.attempted = now, !.processed = TRUE, !.error = FALSE,
                              !.canceled = @ \/ tx[j].cancels]
    /\ Leave(j, "list")
    /\ UNCHANGED <<kind, clock, wants, counters>>

\* Fault: when_timer_ends rescues its errors.
FailSwallowed(j) ==
    /\ HoldsTimer(j)
    /\ Goto(j, "finish")
    /\ UNCHANGED <<kind, clock, task, ihp, timer, wants, seen, tx, counters>>

\* Any StandardError rolls the transaction back, the attempt included.
Fail(j) ==
    /\ HoldsTimer(j)
    /\ Leave(j, "rescue")
    /\ UNCHANGED <<kind, clock, task, ihp, timer, wants, counters>>

\* update_error!
Rescue(j) ==
    /\ pc[j] = "rescue"
    /\ TimerFree
    /\ timer' = [timer EXCEPT !.error = TRUE]
    /\ Goto(j, "list")
    /\ UNCHANGED <<kind, clock, task, ihp, wants, seen, tx, counters>>

\* Fault: the job does not look at closed tasks.
ListActiveOnly(j) ==
    /\ pc[j] = "list"
    /\ Goto(j, "idle")
    /\ UNCHANGED <<kind, clock, task, ihp, timer, wants, seen, tx, counters>>

\* The second list of the job: timers of closed tasks.
ListClosed(j) ==
    /\ pc[j] = "list"
    /\ Goto(j, IF RequiresCancelling THEN "cancel" ELSE "idle")
    /\ UNCHANGED <<kind, clock, task, ihp, timer, wants, seen, tx, counters>>

\* canceled! does nothing to a processed timer.
Cancel(j) ==
    /\ pc[j] = "cancel"
    /\ TimerFree
    /\ timer' = [timer EXCEPT !.canceled = @ \/ ~ timer.processed]
    /\ Goto(j, "idle")
    /\ UNCHANGED <<kind, clock, task, ihp, wants, seen, tx, counters>>

\* The worker is killed; the database rolls its transaction back.
Kill(j) ==
    /\ pc[j] # "idle"
    /\ kills < MaxKills
    /\ kills' = kills + 1
    /\ Leave(j, "idle")
    /\ UNCHANGED <<kind, clock, task, ihp, timer, wants, restarts>>

(* Closing the task: when_timer_ends in the job, an update in a request *)

\* IhpTasksFactory looks for an IHP task of the representative, open or not ...
FindIhp(w) ==
    /\ pc[w] = "find"
    /\ Goto(w, IF ihp > 0 THEN "close" ELSE "create")
    /\ UNCHANGED <<kind, clock, task, ihp, timer, wants, seen, tx, counters>>

\* Fault: the IHP task is left to a job of its own.
CreateIhpLater(w) ==
    /\ pc[w] = "create"
    /\ Goto(w, "close")
    /\ UNCHANGED <<kind, clock, task, ihp, timer, wants, seen, tx, counters>>

\* ... and creates one. A request has no transaction around this.
CreateIhp(w) ==
    /\ pc[w] = "create"
    /\ IF w \in Jobs
       THEN tx' = [tx EXCEPT ![w].ihp = TRUE] /\ UNCHANGED ihp
       ELSE ihp' = ihp + 1 /\ UNCHANGED tx
    /\ Goto(w, "close")
    /\ UNCHANGED <<kind, clock, task, timer, wants, seen, counters>>

\* Fault: a status that is not one of the enum.
MisspelledStatus(w) == IF w \in Jobs THEN "complete" ELSE wants[w]

\* What a worker closes the task with.
NewStatus(w) == IF w \in Jobs THEN "completed" ELSE wants[w]

\* update!(status:) writes when the status differs from the one loaded, over
\* whatever the row holds by then.
CloseTask(w) ==
    /\ pc[w] = "close"
    /\ IF seen[w] = NewStatus(w)
       THEN Goto(w, "finish") /\ UNCHANGED tx
       ELSE /\ TaskFree
            /\ tx' = [tx EXCEPT ![w].task = NewStatus(w)]
            /\ Goto(w, "timers")
    /\ UNCHANGED <<kind, clock, task, ihp, timer, wants, seen, counters>>

\* cancel_task_timers: the timers that could be processed are to be cancelled.
ListTimers(w) ==
    /\ pc[w] = "timers"
    /\ tx' = [tx EXCEPT ![w].cancels = Processable]
    /\ Goto(w, "finish")
    /\ UNCHANGED <<kind, clock, task, ihp, timer, wants, seen, counters>>

(* Requests *)

\* A request loads the task. Whether its user may update it is tested, except
\* that EvidenceSubmissionWindowTask#update_from_params completes a window
\* without the test.
Request(u, s) ==
    /\ pc[u] = "idle"
    /\ wants' = [wants EXCEPT ![u] = s]
    /\ seen' = [seen EXCEPT ![u] = task]
    /\ \/ s = "cancelled" /\ IsOpen /\ Goto(u, "close")
       \/ s = "completed" /\ kind = "window" /\ Goto(u, "find")
    /\ UNCHANGED <<kind, clock, task, ihp, timer, tx, counters>>

\* The timer is cancelled, which waits for a job that holds it, and the
\* update commits.
FinishRequest(u) ==
    /\ u \in Users /\ pc[u] = "finish"
    /\ tx[u].cancels => TimerFree
    /\ task' = IF HoldsTask(u) THEN tx[u].task ELSE task
    /\ timer' = [timer EXCEPT !.canceled = @ \/ tx[u].cancels]
    /\ Leave(u, "done")
    /\ UNCHANGED <<kind, clock, ihp, wants, counters>>

\* The request fails, whatever its transaction has done is undone.
Abort(u) ==
    /\ pc[u] \notin {"idle", "done"}
    /\ Leave(u, "done")
    /\ UNCHANGED <<kind, clock, task, ihp, timer, wants, counters>>

\* AsyncableJobsController#update: an administrator restarts the timer.
Restart ==
    /\ restarts < MaxRestarts
    /\ now + WindowLength <= MaxTime
    /\ TimerFree
    /\ restarts' = restarts + 1
    /\ timer' = [last_submitted |-> now, attempted |-> None,
                 processed |-> FALSE, canceled |-> FALSE, error |-> FALSE]
    /\ UNCHANGED <<kind, clock, task, ihp, pc, wants, seen, tx, kills>>

JobStep(j) ==
    \/ StartJob(j) \/ Lock(j) \/ Load(j) \/ FinishJob(j) \/ Rescue(j)
    \/ ListClosed(j) \/ Cancel(j)
    \/ FindIhp(j) \/ CreateIhp(j) \/ CloseTask(j) \/ ListTimers(j)

RequestStep(u) ==
    FindIhp(u) \/ CreateIhp(u) \/ CloseTask(u) \/ ListTimers(u) \/ FinishRequest(u)

Next ==
    \/ Tick
    \/ \E j \in Jobs : JobStep(j) \/ Fail(j) \/ Kill(j)
    \/ \E u \in Users : \/ \E s \in ClosedStatuses : Request(u, s)
                        \/ RequestStep(u)
                        \/ Abort(u)
    \/ Restart

Spec == Init /\ [][Next]_vars

\* A job that holds the timer waits for the task of a request that waits for
\* the timer: the database aborts one of them.
BreakDeadlock ==
    \E j \in Jobs, u \in Users :
        /\ HoldsTimer(j) /\ pc[j] = "close"
        /\ HoldsTask(u) /\ pc[u] = "finish" /\ tx[u].cancels
        /\ Fail(j) \/ Abort(u)

\* Workers and requests go on, the clock too, and the job is run again and again.
Fairness ==
    /\ WF_vars(Tick) /\ WF_vars(BreakDeadlock)
    /\ \A j \in Jobs : WF_vars(JobStep(j))
    /\ \A u \in Users : WF_vars(RequestStep(u))

FairSpec == Spec /\ Fairness

-----------------------------------------------------------------------------
(* What must hold *)

TypeOK ==
    /\ kind \in {"hold", "window"}
    /\ now \in Created..MaxTime
    /\ sinceJob \in 0..JobPeriod
    /\ task \in {"assigned"} \union ClosedStatuses
    /\ ihp \in Nat
    /\ timer \in [last_submitted: 0..MaxTime, attempted: (0..MaxTime) \union {None},
                  processed: BOOLEAN, canceled: BOOLEAN, error: BOOLEAN]
    /\ pc \in [Workers -> {"idle", "lock", "load", "find", "create", "close", "timers",
                           "finish", "rescue", "list", "cancel", "done"}]
    /\ wants \in [Users -> ClosedStatuses \union {None}]
    /\ seen \in [Workers -> {"assigned", None} \union ClosedStatuses]
    /\ tx \in [Workers -> [task: ClosedStatuses \union {None}, ihp: BOOLEAN, cancels: BOOLEAN]]
    /\ kills \in 0..MaxKills
    /\ restarts \in 0..MaxRestarts

\* The timer of an open task is neither processed nor cancelled: the task would
\* wait for ever (TaskTimerJob#process, Task#cancel_task_timers).
OpenTaskHasLiveTimer == IsOpen => ~ timer.processed /\ ~ timer.canceled

\* An evidence window is completed only when the representative has an IHP
\* task: the appeal would be ready for distribution without its argument
\* (EvidenceSubmissionWindowTask#when_timer_ends).
WindowClosesWithIhp == kind = "window" /\ task = "completed" => ihp > 0

\* A timer whose processing never failed does not expire: the retry interval,
\* the processing window and the restart of old timers leave the job at least
\* one run, whenever the timer ends (Asyncable, TimeableTask.create_timer).
ExpiresOnlyAfterFailure ==
    IsOpen /\ Expired =>
        \/ timer.error \/ kills > 0
        \/ \E j \in Jobs : HoldsTimer(j) \/ pc[j] \in {"lock", "rescue"}

\* A hold that a user ended stays ended: a job that listed its timer before
\* does not complete it (TimedHoldTask#when_timer_ends).
EndedHoldStays == [][kind = "hold" /\ task = "cancelled" => task' = "cancelled"]_vars

\* The timer of a closed task is settled in the end, though cancel_task_timers
\* does not cancel one that is not due yet (CheckTaskTree).
ClosedTaskTimerSettled == ~ IsOpen ~> timer.processed \/ timer.canceled
=============================================================================
