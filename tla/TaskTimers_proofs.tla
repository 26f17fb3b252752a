------------------------- MODULE TaskTimers_proofs -------------------------
(***************************************************************************)
(* What is proved of the timed tasks, for any number of overlapping jobs   *)
(* and requests and any lengths of the retry interval and the window.      *)
(***************************************************************************)
EXTENDS TaskTimers, TLAPS

(* The inductive invariant *)

\* A request that is not under way has loaded nothing it could write; users
\* never are in a state of the job.
Requested ==
    \A u \in Users :
        /\ pc[u] \in {"idle", "find", "create", "close", "timers", "finish", "done"}
        /\ pc[u] \notin {"idle", "done"} => wants[u] \in ClosedStatuses
        /\ ~ tx[u].ihp

\* Who has updated the task goes on to its timers and commits.
Writing ==
    \A w \in Workers :
        /\ HoldsTask(w) => pc[w] \in {"timers", "finish"} /\ tx[w].task = NewStatus(w)
        /\ pc[w] = "timers" => HoldsTask(w)
        /\ tx[w].cancels => HoldsTask(w) /\ pc[w] = "finish"

OneHolder ==
    \A w, v \in Workers : \/ HoldsTask(w) /\ HoldsTask(v)
                          \/ HoldsTimer(w) /\ HoldsTimer(v)
                          => w = v

\* A closed status that a worker has loaded, or a list of closed tasks, stays
\* right: nobody opens a task again.
ClosedIsClosed ==
    /\ \A w \in Workers : seen[w] \in ClosedStatuses => ~ IsOpen
    /\ \A j \in Jobs : pc[j] = "cancel" => ~ IsOpen
    /\ \A j \in Jobs : pc[j] = "finish" => HoldsTask(j) \/ ~ IsOpen

LiveTimer == IsOpen => ~ timer.processed /\ ~ timer.canceled /\ timer.attempted = None

\* Whoever is about to complete a window has seen to its IHP task.
IhpFirst ==
    /\ WindowClosesWithIhp
    /\ kind = "window" =>
          \A w \in Workers :
              pc[w] \in {"close", "timers", "finish"} /\ NewStatus(w) = "completed"
              => ihp > 0 \/ tx[w].ihp

\* Holds have no IHP tasks, and requests only cancel them.
HoldRequests ==
    kind = "hold" => /\ \A u \in Users : wants[u] # "completed"
                     /\ \A w \in Workers : pc[w] \notin {"find", "create"}

Processing(j) == pc[j] \in {"lock", "load", "find", "create", "close", "timers", "finish"}

\* A job works on a timer that could be processed. A request that does not
\* cancel the timer has closed the task before, by at least a retry interval.
RetryIntervalSeparates ==
    /\ \A j \in Jobs : Processing(j) /\ IsOpen => timer.last_submitted <= now
    /\ \A u \in Users :
          HoldsTask(u) /\ pc[u] = "finish" /\ ~ tx[u].cancels /\ IsOpen
          => /\ timer.last_submitted + RetryInterval > now
             /\ \A j \in Jobs : ~ Processing(j)

\* A job that is about to complete a hold still finds it open when it commits.
HoldEndsOnce ==
    kind = "hold" =>
        \A j \in Jobs : pc[j] \in {"close", "timers"} \/ HoldsTask(j) => IsOpen

IInv == /\ TypeOK /\ Requested /\ Writing /\ OneHolder /\ ClosedIsClosed /\ LiveTimer
        /\ IhpFirst /\ HoldRequests /\ RetryIntervalSeparates /\ HoldEndsOnce

\* What a worker has written and not committed.
Writes == [task: ClosedStatuses \union {None}, ihp: BOOLEAN, cancels: BOOLEAN]

(* One lemma per action *)

\* Time passes only while no request holds the task.
LEMMA TickKeeps ==
    ASSUME IInv, Tick
    PROVE  IInv'
  <1>1. TypeOK'
    BY TimeAssumption DEF IInv, TypeOK, Tick, counters
  <1>2. Requested'
    BY DEF IInv, Requested, Tick, Workers
  <1>3. Writing'
    BY DEF IInv, Writing, Tick, HoldsTask, NewStatus
  <1>4. OneHolder'
    BY DEF IInv, OneHolder, Tick, HoldsTask, HoldsTimer
  <1>5. ClosedIsClosed'
    BY DEF IInv, ClosedIsClosed, Tick, HoldsTask, IsOpen
  <1>6. LiveTimer'
    BY DEF IInv, LiveTimer, Tick, IsOpen
  <1>7. IhpFirst'
    BY DEF IInv, IhpFirst, Tick, NewStatus, WindowClosesWithIhp
  <1>8. HoldRequests'
    BY DEF IInv, HoldRequests, Tick
  <1>9. RetryIntervalSeparates'
    BY DEF IInv, RetryIntervalSeparates, TypeOK, Tick, HoldsTask, IsOpen,
           Processing
  <1>10. HoldEndsOnce'
    BY DEF IInv, HoldEndsOnce, Tick, HoldsTask, IsOpen
  <1>. QED
    BY <1>1, <1>2, <1>3, <1>4, <1>5, <1>6, <1>7, <1>8, <1>9, <1>10 DEF IInv

\* The job lists timers that are due, and works on none that is not
\* (TaskTimer.requires_processing).
LEMMA StartJobKeeps ==
    ASSUME IInv, NEW j \in Jobs, StartJob(j)
    PROVE  IInv'
  <1>1. TypeOK'
    BY TimeAssumption DEF IInv, TypeOK, StartJob, Goto, Workers, counters
  <1>2. Requested'
    BY NamesAssumption DEF IInv, Requested, StartJob, Goto, Workers
  <1>3. Writing'
    BY DEF IInv, Writing, StartJob, Goto, HoldsTask, NewStatus
  <1>4. OneHolder'
    BY DEF IInv, OneHolder, StartJob, Goto, HoldsTask, HoldsTimer
  <1>5. ClosedIsClosed'
    BY DEF IInv, ClosedIsClosed, StartJob, Goto, HoldsTask, IsOpen
  <1>6. LiveTimer'
    BY DEF IInv, LiveTimer, StartJob, IsOpen
  <1>7. IhpFirst'
    BY DEF IInv, IhpFirst, StartJob, Goto, NewStatus, WindowClosesWithIhp
  <1>8. HoldRequests'
    BY DEF IInv, HoldRequests, StartJob, Goto
  <1>9. RetryIntervalSeparates'
    BY TimeAssumption
    DEF IInv, RetryIntervalSeparates, TypeOK, LiveTimer, StartJob, Goto,
        HoldsTask, IsOpen, Attemptable, RequiresProcessing, Processing
  <1>10. HoldEndsOnce'
    BY DEF IInv, HoldEndsOnce, StartJob, Goto, HoldsTask, IsOpen
  <1>. QED
    BY <1>1, <1>2, <1>3, <1>4, <1>5, <1>6, <1>7, <1>8, <1>9, <1>10 DEF IInv

\* with_lock makes the job the only one that holds the timer (TaskTimerJob#process).
LEMMA LockKeeps ==
    ASSUME IInv, NEW j \in Jobs, Lock(j)
    PROVE  IInv'
  <1>1. TypeOK'
    BY DEF IInv, TypeOK, Lock, Goto, clock, counters
  <1>2. Requested'
    BY DEF IInv, Requested, Lock, Goto, Workers
  <1>3. Writing'
    BY DEF IInv, Writing, Lock, Goto, HoldsTask, NewStatus
  <1>4. OneHolder'
    BY DEF IInv, OneHolder, Lock, Goto, HoldsTask, HoldsTimer, TimerFree
  <1>5. ClosedIsClosed'
    BY DEF IInv, ClosedIsClosed, Lock, Goto, HoldsTimer, TimerFree, Workers,
           IsOpen
  <1>6. LiveTimer'
    BY DEF IInv, LiveTimer, Lock, IsOpen
  <1>7. IhpFirst'
    BY DEF IInv, IhpFirst, Lock, Goto, NewStatus, WindowClosesWithIhp
  <1>8. HoldRequests'
    BY DEF IInv, HoldRequests, Lock, Goto
  <1>9. RetryIntervalSeparates'
    BY DEF IInv, RetryIntervalSeparates, Lock, Goto, HoldsTask, IsOpen, clock,
           Processing
  <1>10. HoldEndsOnce'
    BY DEF IInv, HoldEndsOnce, Lock, Goto, HoldsTask, IsOpen
  <1>. QED
    BY <1>1, <1>2, <1>3, <1>4, <1>5, <1>6, <1>7, <1>8, <1>9, <1>10 DEF IInv

\* A hold that is about to be completed is open (TimedHoldTask#when_timer_ends).
LEMMA LoadKeeps ==
    ASSUME IInv, NEW j \in Jobs, Load(j)
    PROVE  IInv'
  <1>1. TypeOK'
    BY DEF IInv, TypeOK, Load, Goto, clock, counters
  <1>2. Requested'
    BY DEF IInv, Requested, Load, Goto
  <1>3. Writing'
    BY DEF IInv, Writing, Load, Goto, HoldsTask, NewStatus
  <1>4. OneHolder'
    BY DEF IInv, OneHolder, Load, Goto, HoldsTask, HoldsTimer
  <1>5. ClosedIsClosed'
    BY DEF IInv, ClosedIsClosed, Load, Goto, HoldsTask, IsOpen
  <1>6. LiveTimer'
    BY DEF IInv, LiveTimer, Load, IsOpen
  <1>7. IhpFirst'
    BY DEF IInv, IhpFirst, Load, Goto, NewStatus, WindowClosesWithIhp
  <1>8. HoldRequests'
    BY DEF IInv, HoldRequests, Load, Goto
  <1>9. RetryIntervalSeparates'
    BY DEF IInv, RetryIntervalSeparates, Load, Goto, HoldsTask, IsOpen, clock,
           Processing
  <1>10. HoldEndsOnce'
    BY DEF IInv, HoldEndsOnce, Load, Goto, HoldsTask, IsOpen
  <1>. QED
    BY <1>1, <1>2, <1>3, <1>4, <1>5, <1>6, <1>7, <1>8, <1>9, <1>10 DEF IInv

\* The commit of the job keeps every row well-formed (TaskTimerJob#process).
LEMMA FinishType ==
    ASSUME TypeOK, NEW j \in Jobs, FinishJob(j)
    PROVE  TypeOK'
  <1>. USE DEF TypeOK, FinishJob, Leave, Goto, Workers
  <1>1. task' \in {"assigned"} \union ClosedStatuses /\ ihp' \in Nat
    <2>1. tx[j].task \in ClosedStatuses \union {None} /\ tx[j].ihp \in BOOLEAN
      OBVIOUS
    <2>. QED  BY <2>1 DEF HoldsTask
  <1>2. timer' \in [last_submitted: 0..MaxTime, attempted: (0..MaxTime) \union {None},
                    processed: BOOLEAN, canceled: BOOLEAN, error: BOOLEAN]
    <2>1. (timer.canceled \/ tx[j].cancels) \in BOOLEAN
      OBVIOUS
    <2>2. now \in 0..MaxTime
      BY TimeAssumption
    <2>. QED  BY <2>1, <2>2
  <1>3. tx' \in [Workers -> [task: ClosedStatuses \union {None}, ihp: BOOLEAN, cancels: BOOLEAN]]
    BY DEF NoWrites
  <1>4. /\ pc' \in [Workers -> {"idle", "lock", "load", "find", "create", "close", "timers",
                                "finish", "rescue", "list", "cancel", "done"}]
        /\ seen' \in [Workers -> {"assigned", None} \union ClosedStatuses]
    OBVIOUS
  <1>. QED  BY <1>1, <1>2, <1>3, <1>4 DEF clock, counters

\* The commit of the job closes the task with its timer (TaskTimerJob#process).
LEMMA FinishJobKeeps ==
    ASSUME IInv, NEW j \in Jobs, FinishJob(j)
    PROVE  IInv'
  <1>1. TypeOK'
    BY FinishType DEF IInv
  <1>2. Requested'
    BY NamesAssumption DEF IInv, Requested, FinishJob, Goto, Leave
  <1>3. Writing'
    BY DEF IInv, Writing, TypeOK, FinishJob, Goto, Leave, NoWrites, HoldsTask,
           NewStatus
  <1>4. OneHolder'
    BY DEF IInv, OneHolder, FinishJob, Goto, Leave, NoWrites, HoldsTask,
           HoldsTimer
  <1>5. ClosedIsClosed'
    BY DEF IInv, ClosedIsClosed, TypeOK, FinishJob, HoldsTask, Workers, IsOpen
  <1>6. LiveTimer'
    BY DEF IInv, LiveTimer, Writing, ClosedIsClosed, FinishJob, NewStatus,
           Workers, IsOpen, ClosedStatuses
  <1>7. IhpFirst'
    BY DEF IInv, IhpFirst, TypeOK, FinishJob, NewStatus, Workers,
           WindowClosesWithIhp
  <1>8. HoldRequests'
    BY DEF IInv, HoldRequests, FinishJob, Goto, Leave
  <1>9. RetryIntervalSeparates'
    BY DEF IInv, RetryIntervalSeparates, TypeOK, FinishJob, Goto, Leave,
           HoldsTask, Workers, IsOpen, clock, Processing
  <1>10. HoldEndsOnce'
    BY DEF IInv, HoldEndsOnce, TypeOK, OneHolder, FinishJob, Goto, Leave,
           NoWrites, HoldsTask, HoldsTimer, Workers, IsOpen
  <1>. QED
    BY <1>1, <1>2, <1>3, <1>4, <1>5, <1>6, <1>7, <1>8, <1>9, <1>10 DEF IInv

\* An error leaves no writes (TaskTimerJob#process).
LEMMA FailKeeps ==
    ASSUME IInv, NEW j \in Jobs, Fail(j)
    PROVE  IInv'
  <1>1. TypeOK'
    BY DEF IInv, TypeOK, Fail, Goto, Leave, NoWrites, clock, counters
  <1>2. Requested'
    BY NamesAssumption DEF IInv, Requested, Fail, Goto, Leave
  <1>3. Writing'
    BY DEF IInv, Writing, TypeOK, Fail, Goto, Leave, NoWrites, HoldsTask,
           NewStatus
  <1>4. OneHolder'
    BY DEF IInv, OneHolder, Fail, Goto, Leave, NoWrites, HoldsTask, HoldsTimer
  <1>5. ClosedIsClosed'
    BY NamesAssumption
    DEF IInv, ClosedIsClosed, TypeOK, Fail, Goto, Leave, HoldsTask, IsOpen,
        ClosedStatuses
  <1>6. LiveTimer'
    BY DEF IInv, LiveTimer, Fail, IsOpen
  <1>7. IhpFirst'
    BY DEF IInv, IhpFirst, TypeOK, Fail, Goto, Leave, NewStatus,
           WindowClosesWithIhp
  <1>8. HoldRequests'
    BY DEF IInv, HoldRequests, Fail, Goto, Leave
  <1>9. RetryIntervalSeparates'
    BY DEF IInv, RetryIntervalSeparates, Fail, Goto, Leave, NoWrites,
           HoldsTask, IsOpen, clock, Processing
  <1>10. HoldEndsOnce'
    BY DEF IInv, HoldEndsOnce, Fail, Goto, Leave, NoWrites, HoldsTask, IsOpen
  <1>. QED
    BY <1>1, <1>2, <1>3, <1>4, <1>5, <1>6, <1>7, <1>8, <1>9, <1>10 DEF IInv

\* Recording an error changes nothing else (Asyncable#update_error!).
LEMMA RescueKeeps ==
    ASSUME IInv, NEW j \in Jobs, Rescue(j)
    PROVE  IInv'
  <1>1. TypeOK'
    BY DEF IInv, TypeOK, Rescue, Goto, clock, counters
  <1>2. Requested'
    BY DEF IInv, Requested, Rescue, Goto, Workers
  <1>3. Writing'
    BY DEF IInv, Writing, Rescue, Goto, HoldsTask, NewStatus
  <1>4. OneHolder'
    BY DEF IInv, OneHolder, Rescue, Goto, HoldsTask, HoldsTimer
  <1>5. ClosedIsClosed'
    BY DEF IInv, ClosedIsClosed, Rescue, Goto, HoldsTimer, TimerFree, Workers,
           IsOpen
  <1>6. LiveTimer'
    BY DEF IInv, LiveTimer, Rescue, IsOpen
  <1>7. IhpFirst'
    BY DEF IInv, IhpFirst, Rescue, Goto, NewStatus, WindowClosesWithIhp
  <1>8. HoldRequests'
    BY DEF IInv, HoldRequests, Rescue, Goto
  <1>9. RetryIntervalSeparates'
    BY DEF IInv, RetryIntervalSeparates, Rescue, Goto, HoldsTask, IsOpen,
           clock, Processing
  <1>10. HoldEndsOnce'
    BY DEF IInv, HoldEndsOnce, Rescue, Goto, HoldsTask, IsOpen
  <1>. QED
    BY <1>1, <1>2, <1>3, <1>4, <1>5, <1>6, <1>7, <1>8, <1>9, <1>10 DEF IInv

\* Only timers of closed tasks are listed for cancelling (TaskTimer.requires_cancelling).
LEMMA ListClosedKeeps ==
    ASSUME IInv, NEW j \in Jobs, ListClosed(j)
    PROVE  IInv'
  <1>1. TypeOK'
    BY DEF IInv, TypeOK, ListClosed, Goto, clock, counters
  <1>2. Requested'
    BY DEF IInv, Requested, ListClosed, Goto, Workers
  <1>3. Writing'
    BY DEF IInv, Writing, ListClosed, Goto, HoldsTask, NewStatus
  <1>4. OneHolder'
    BY DEF IInv, OneHolder, ListClosed, Goto, HoldsTask, HoldsTimer
  <1>5. ClosedIsClosed'
    BY DEF IInv, ClosedIsClosed, ListClosed, Goto, HoldsTask, IsOpen,
           RequiresCancelling
  <1>6. LiveTimer'
    BY DEF IInv, LiveTimer, ListClosed, IsOpen
  <1>7. IhpFirst'
    BY DEF IInv, IhpFirst, ListClosed, Goto, NewStatus, WindowClosesWithIhp
  <1>8. HoldRequests'
    BY DEF IInv, HoldRequests, ListClosed, Goto
  <1>9. RetryIntervalSeparates'
    BY DEF IInv, RetryIntervalSeparates, ListClosed, Goto, HoldsTask, IsOpen,
           clock, Processing
  <1>10. HoldEndsOnce'
    BY DEF IInv, HoldEndsOnce, ListClosed, Goto, HoldsTask, IsOpen
  <1>. QED
    BY <1>1, <1>2, <1>3, <1>4, <1>5, <1>6, <1>7, <1>8, <1>9, <1>10 DEF IInv

\* The timer of a closed task is cancelled (TaskTimerJob#cancel).
LEMMA CancelKeeps ==
    ASSUME IInv, NEW j \in Jobs, Cancel(j)
    PROVE  IInv'
  <1>1. TypeOK'
    BY DEF IInv, TypeOK, Cancel, Goto, clock, counters
  <1>2. Requested'
    BY DEF IInv, Requested, Cancel, Goto, Workers
  <1>3. Writing'
    BY DEF IInv, Writing, Cancel, Goto, HoldsTask, NewStatus
  <1>4. OneHolder'
    BY DEF IInv, OneHolder, Cancel, Goto, HoldsTask, HoldsTimer
  <1>5. ClosedIsClosed'
    BY DEF IInv, ClosedIsClosed, Cancel, IsOpen
  <1>6. LiveTimer'
    BY DEF IInv, LiveTimer, ClosedIsClosed, Cancel, IsOpen
  <1>7. IhpFirst'
    BY DEF IInv, IhpFirst, Cancel, Goto, NewStatus, WindowClosesWithIhp
  <1>8. HoldRequests'
    BY DEF IInv, HoldRequests, Cancel, Goto
  <1>9. RetryIntervalSeparates'
    BY DEF IInv, RetryIntervalSeparates, Cancel, Goto, HoldsTask, IsOpen,
           clock, Processing
  <1>10. HoldEndsOnce'
    BY DEF IInv, HoldEndsOnce, Cancel, Goto, HoldsTask, IsOpen
  <1>. QED
    BY <1>1, <1>2, <1>3, <1>4, <1>5, <1>6, <1>7, <1>8, <1>9, <1>10 DEF IInv

\* A killed worker leaves no writes.
LEMMA KillKeeps ==
    ASSUME IInv, NEW j \in Jobs, Kill(j)
    PROVE  IInv'
  <1>1. TypeOK'
    BY BoundsAssumption
    DEF IInv, TypeOK, Kill, Goto, Leave, NoWrites, Workers, clock
  <1>2. Requested'
    BY DEF IInv, Requested, Kill, Goto, Leave, NoWrites, Workers
  <1>3. Writing'
    BY DEF IInv, Writing, TypeOK, Kill, Goto, Leave, NoWrites, HoldsTask,
           NewStatus
  <1>4. OneHolder'
    BY DEF IInv, OneHolder, Kill, Goto, Leave, NoWrites, HoldsTask, HoldsTimer
  <1>5. ClosedIsClosed'
    BY NamesAssumption
    DEF IInv, ClosedIsClosed, TypeOK, Kill, Goto, Leave, HoldsTask, IsOpen,
        ClosedStatuses
  <1>6. LiveTimer'
    BY DEF IInv, LiveTimer, Kill, IsOpen
  <1>7. IhpFirst'
    BY DEF IInv, IhpFirst, TypeOK, Kill, Goto, Leave, NewStatus,
           WindowClosesWithIhp
  <1>8. HoldRequests'
    BY DEF IInv, HoldRequests, Kill, Goto, Leave
  <1>9. RetryIntervalSeparates'
    BY DEF IInv, RetryIntervalSeparates, Kill, Goto, Leave, NoWrites,
           HoldsTask, IsOpen, clock, Processing
  <1>10. HoldEndsOnce'
    BY DEF IInv, HoldEndsOnce, Kill, Goto, Leave, NoWrites, HoldsTask, IsOpen
  <1>. QED
    BY <1>1, <1>2, <1>3, <1>4, <1>5, <1>6, <1>7, <1>8, <1>9, <1>10 DEF IInv

\* A worker goes on without a new IHP task only if there is one (IhpTasksFactory).
LEMMA FindIhpKeeps ==
    ASSUME IInv, NEW w \in Workers, FindIhp(w)
    PROVE  IInv'
  <1>1. TypeOK'
    BY DEF IInv, TypeOK, FindIhp, Goto, clock, counters
  <1>2. Requested'
    BY DEF IInv, Requested, FindIhp, Goto
  <1>3. Writing'
    BY DEF IInv, Writing, FindIhp, Goto, HoldsTask, NewStatus
  <1>4. OneHolder'
    BY DEF IInv, OneHolder, FindIhp, Goto, HoldsTask, HoldsTimer
  <1>5. ClosedIsClosed'
    BY DEF IInv, ClosedIsClosed, FindIhp, Goto, HoldsTask, IsOpen
  <1>6. LiveTimer'
    BY DEF IInv, LiveTimer, FindIhp, IsOpen
  <1>7. IhpFirst'
    BY DEF IInv, IhpFirst, FindIhp, Goto, NewStatus, WindowClosesWithIhp
  <1>8. HoldRequests'
    BY DEF IInv, HoldRequests, FindIhp
  <1>9. RetryIntervalSeparates'
    BY DEF IInv, RetryIntervalSeparates, FindIhp, Goto, HoldsTask, IsOpen,
           clock, Processing
  <1>10. HoldEndsOnce'
    BY DEF IInv, HoldEndsOnce, HoldRequests, FindIhp
  <1>. QED
    BY <1>1, <1>2, <1>3, <1>4, <1>5, <1>6, <1>7, <1>8, <1>9, <1>10 DEF IInv

\* A new IHP task keeps every row well-formed (IhpTasksFactory#create_ihp_tasks!).
LEMMA CreateType ==
    ASSUME TypeOK, NEW w \in Workers, CreateIhp(w)
    PROVE  TypeOK'
  <1>1. ihp' \in Nat
    BY DEF TypeOK, CreateIhp
  <1>2. tx' \in [Workers -> [task: ClosedStatuses \union {None}, ihp: BOOLEAN, cancels: BOOLEAN]]
    <2>1. tx \in [Workers -> Writes]
      BY DEF TypeOK, Writes
    <2>2. CASE w \in Jobs
      <3>1. [tx[w] EXCEPT !.ihp = TRUE] \in Writes
        BY <2>1 DEF Writes
      <3>2. tx' = [tx EXCEPT ![w] = [tx[w] EXCEPT !.ihp = TRUE]]
        BY <2>1, <2>2 DEF CreateIhp
      <3>. QED  BY <2>1, <3>1, <3>2 DEF Writes
    <2>3. CASE w \notin Jobs
      BY <2>1, <2>3 DEF CreateIhp, Writes
    <2>. QED  BY <2>2, <2>3
  <1>3. pc' \in [Workers -> {"idle", "lock", "load", "find", "create", "close", "timers",
                             "finish", "rescue", "list", "cancel", "done"}]
    BY DEF TypeOK, CreateIhp, Goto
  <1>. QED  BY <1>1, <1>2, <1>3 DEF TypeOK, CreateIhp, clock, counters

\* A worker creates the IHP task before it closes the window (IhpTasksFactory).
LEMMA CreateIhpKeeps ==
    ASSUME IInv, NEW w \in Workers, CreateIhp(w)
    PROVE  IInv'
  <1>1. TypeOK'
    BY CreateType DEF IInv
  <1>2. Requested'
    BY NamesAssumption DEF IInv, Requested, TypeOK, CreateIhp, Goto, Workers
  <1>3. Writing'
    BY DEF IInv, Writing, TypeOK, CreateIhp, Goto, HoldsTask, NewStatus
  <1>4. OneHolder'
    BY DEF IInv, OneHolder, TypeOK, CreateIhp, Goto, HoldsTask, HoldsTimer
  <1>5. ClosedIsClosed'
    BY DEF IInv, ClosedIsClosed, TypeOK, CreateIhp, Goto, HoldsTask, Workers,
           IsOpen
  <1>6. LiveTimer'
    BY DEF IInv, LiveTimer, CreateIhp, IsOpen
  <1>7. IhpFirst'
    BY DEF IInv, IhpFirst, TypeOK, CreateIhp, Goto, NewStatus,
           WindowClosesWithIhp
  <1>8. HoldRequests'
    BY DEF IInv, HoldRequests, CreateIhp
  <1>9. RetryIntervalSeparates'
    BY DEF IInv, RetryIntervalSeparates, TypeOK, CreateIhp, Goto, HoldsTask,
           Workers, IsOpen, clock, Processing
  <1>10. HoldEndsOnce'
    BY DEF IInv, HoldEndsOnce, HoldRequests, CreateIhp
  <1>. QED
    BY <1>1, <1>2, <1>3, <1>4, <1>5, <1>6, <1>7, <1>8, <1>9, <1>10 DEF IInv

\* A worker closes the task when nobody else holds it (Task#update_with_instructions).
LEMMA CloseTaskKeeps ==
    ASSUME IInv, NEW w \in Workers, CloseTask(w)
    PROVE  IInv'
  <1>1. TypeOK'
    <2>1. tx \in [Workers -> Writes] /\ NewStatus(w) \in ClosedStatuses \union {None}
      BY DEF IInv, TypeOK, Writes, NewStatus, Workers, ClosedStatuses
    <2>2. tx' \in [Workers -> Writes]
      <3>1. CASE UNCHANGED tx
        BY <2>1, <3>1
      <3>2. CASE tx' = [tx EXCEPT ![w].task = NewStatus(w)]
        <4>1. [tx[w] EXCEPT !.task = NewStatus(w)] \in Writes
          BY <2>1 DEF Writes
        <4>2. tx' = [tx EXCEPT ![w] = [tx[w] EXCEPT !.task = NewStatus(w)]]
          BY <2>1, <3>2
        <4>. QED  BY <2>1, <4>1, <4>2
      <3>. QED  BY <3>1, <3>2 DEF CloseTask
    <2>3. pc' \in [Workers -> {"idle", "lock", "load", "find", "create", "close", "timers",
                               "finish", "rescue", "list", "cancel", "done"}]
      BY DEF IInv, TypeOK, CloseTask, Goto
    <2>. QED
      BY <2>2, <2>3 DEF IInv, TypeOK, CloseTask, Writes, clock, counters
  <1>2. Requested'
    BY DEF IInv, Requested, TypeOK, CloseTask, Goto, Workers
  <1>3. Writing'
    BY NamesAssumption
    DEF IInv, Writing, TypeOK, Requested, CloseTask, Goto, HoldsTask, NewStatus,
        Workers, ClosedStatuses
  <1>4. OneHolder'
    BY DEF IInv, OneHolder, TypeOK, CloseTask, Goto, HoldsTask, HoldsTimer,
           TaskFree
  <1>5. ClosedIsClosed'
    BY DEF IInv, ClosedIsClosed, TypeOK, CloseTask, Goto, HoldsTask, NewStatus,
           Workers, IsOpen, ClosedStatuses
  <1>6. LiveTimer'
    BY DEF IInv, LiveTimer, CloseTask, IsOpen
  <1>7. IhpFirst'
    BY DEF IInv, IhpFirst, TypeOK, CloseTask, Goto, NewStatus,
           WindowClosesWithIhp
  <1>8. HoldRequests'
    BY DEF IInv, HoldRequests, TypeOK, CloseTask, Goto
  <1>9. RetryIntervalSeparates'
    BY DEF IInv, RetryIntervalSeparates, TypeOK, Writing, CloseTask, Goto,
           HoldsTask, Workers, IsOpen, clock, Processing
  <1>10. HoldEndsOnce'
    BY DEF IInv, HoldEndsOnce, TypeOK, CloseTask, Goto, HoldsTask, Workers,
           IsOpen
  <1>. QED
    BY <1>1, <1>2, <1>3, <1>4, <1>5, <1>6, <1>7, <1>8, <1>9, <1>10 DEF IInv

\* A timer that is not cancelled with its task is not due for another retry
\* interval (Task#cancel_task_timers).
LEMMA ListTimersKeeps ==
    ASSUME IInv, NEW w \in Workers, ListTimers(w)
    PROVE  IInv'
  <1>1. TypeOK'
    <2>1. tx \in [Workers -> Writes] /\ Processable \in BOOLEAN
      BY DEF IInv, TypeOK, Writes, Processable
    <2>2. tx' \in [Workers -> Writes]
      <3>1. [tx[w] EXCEPT !.cancels = Processable] \in Writes
        BY <2>1 DEF Writes
      <3>2. tx' = [tx EXCEPT ![w] = [tx[w] EXCEPT !.cancels = Processable]]
        BY <2>1 DEF ListTimers
      <3>. QED  BY <2>1, <3>1, <3>2
    <2>3. pc' \in [Workers -> {"idle", "lock", "load", "find", "create", "close", "timers",
                               "finish", "rescue", "list", "cancel", "done"}]
      BY DEF IInv, TypeOK, ListTimers, Goto
    <2>. QED
      BY <2>2, <2>3 DEF IInv, TypeOK, ListTimers, Writes, clock, counters
  <1>2. Requested'
    BY DEF IInv, Requested, ListTimers, Goto
  <1>3. Writing'
    BY DEF IInv, Writing, TypeOK, ListTimers, Goto, HoldsTask, NewStatus
  <1>4. OneHolder'
    BY DEF IInv, OneHolder, ListTimers, Goto, HoldsTask, HoldsTimer
  <1>5. ClosedIsClosed'
    BY DEF IInv, ClosedIsClosed, Writing, ListTimers, Goto, HoldsTask, IsOpen
  <1>6. LiveTimer'
    BY DEF IInv, LiveTimer, ListTimers, IsOpen
  <1>7. IhpFirst'
    BY DEF IInv, IhpFirst, ListTimers, Goto, NewStatus, WindowClosesWithIhp
  <1>8. HoldRequests'
    BY DEF IInv, HoldRequests, ListTimers, Goto
  <1>9. RetryIntervalSeparates'
    BY TimeAssumption
    DEF IInv, RetryIntervalSeparates, TypeOK, LiveTimer, ListTimers, Goto,
        HoldsTask, IsOpen, clock, Processable, Processing
  <1>10. HoldEndsOnce'
    BY DEF IInv, HoldEndsOnce, ListTimers, Goto, HoldsTask, IsOpen
  <1>. QED
    BY <1>1, <1>2, <1>3, <1>4, <1>5, <1>6, <1>7, <1>8, <1>9, <1>10 DEF IInv

\* A request that begins holds nothing (TasksController#update).
LEMMA RequestKeeps ==
    ASSUME IInv, NEW u \in Users, NEW s \in ClosedStatuses, Request(u, s)
    PROVE  IInv'
  <1>1. TypeOK'
    BY DEF IInv, TypeOK, Request, Goto, clock, counters
  <1>2. Requested'
    BY DEF IInv, Requested, TypeOK, Request, Goto, Workers
  <1>3. Writing'
    BY DEF IInv, Writing, TypeOK, Request, Goto, HoldsTask, NewStatus
  <1>4. OneHolder'
    BY NamesAssumption
    DEF IInv, OneHolder, TypeOK, Request, Goto, HoldsTask, HoldsTimer
  <1>5. ClosedIsClosed'
    BY DEF IInv, ClosedIsClosed, TypeOK, Request, Goto, HoldsTask, Workers,
           IsOpen
  <1>6. LiveTimer'
    BY DEF IInv, LiveTimer, Request, IsOpen
  <1>7. IhpFirst'
    BY NamesAssumption
    DEF IInv, IhpFirst, TypeOK, Request, Goto, NewStatus, WindowClosesWithIhp
  <1>8. HoldRequests'
    BY DEF IInv, HoldRequests, TypeOK, Request, Goto
  <1>9. RetryIntervalSeparates'
    BY NamesAssumption
    DEF IInv, RetryIntervalSeparates, TypeOK, Request, Goto, HoldsTask, Workers,
        IsOpen, clock, Processing
  <1>10. HoldEndsOnce'
    BY DEF IInv, HoldEndsOnce, Request, IsOpen
  <1>. QED
    BY <1>1, <1>2, <1>3, <1>4, <1>5, <1>6, <1>7, <1>8, <1>9, <1>10 DEF IInv

\* The commit of a request closes the task, and no job that is about to write
\* finds it so (Task#cancel_task_timers).
LEMMA FinishRequestKeeps ==
    ASSUME IInv, NEW u \in Users, FinishRequest(u)
    PROVE  IInv'
  <1>1. TypeOK'
    BY DEF IInv, TypeOK, FinishRequest, Goto, Leave, NoWrites, HoldsTask,
           Workers, clock, counters
  <1>2. Requested'
    BY DEF IInv, Requested, FinishRequest, Goto, Leave, NoWrites, Workers
  <1>3. Writing'
    BY DEF IInv, Writing, TypeOK, FinishRequest, Goto, Leave, NoWrites,
           HoldsTask, NewStatus
  <1>4. OneHolder'
    BY DEF IInv, OneHolder, FinishRequest, Goto, Leave, NoWrites, HoldsTask,
           HoldsTimer
  <1>5. ClosedIsClosed'
    BY NamesAssumption
    DEF IInv, ClosedIsClosed, TypeOK, FinishRequest, Goto, Leave, HoldsTask,
        Workers, IsOpen, ClosedStatuses
  <1>6. LiveTimer'
    BY DEF IInv, LiveTimer, TypeOK, Writing, FinishRequest, HoldsTask, Workers,
           IsOpen
  <1>7. IhpFirst'
    BY DEF IInv, IhpFirst, Requested, Writing, FinishRequest, Goto, Leave,
           NewStatus, Workers, WindowClosesWithIhp
  <1>8. HoldRequests'
    BY DEF IInv, HoldRequests, FinishRequest, Goto, Leave
  <1>9. RetryIntervalSeparates'
    BY DEF IInv, RetryIntervalSeparates, TypeOK, FinishRequest, Goto, Leave,
           HoldsTask, Workers, IsOpen, clock, Processing
  <1>10. HoldEndsOnce'
    BY DEF IInv, HoldEndsOnce, Writing, RetryIntervalSeparates, FinishRequest,
           Goto, Leave, NoWrites, HoldsTask, HoldsTimer, TimerFree, Workers,
           IsOpen, Processing
  <1>. QED
    BY <1>1, <1>2, <1>3, <1>4, <1>5, <1>6, <1>7, <1>8, <1>9, <1>10 DEF IInv

\* A request that fails leaves no writes (TasksController#update).
LEMMA AbortKeeps ==
    ASSUME IInv, NEW u \in Users, Abort(u)
    PROVE  IInv'
  <1>1. TypeOK'
    BY DEF IInv, TypeOK, Abort, Goto, Leave, NoWrites, clock, counters
  <1>2. Requested'
    BY DEF IInv, Requested, Abort, Goto, Leave, NoWrites, Workers
  <1>3. Writing'
    BY DEF IInv, Writing, TypeOK, Abort, Goto, Leave, NoWrites, HoldsTask,
           NewStatus
  <1>4. OneHolder'
    BY DEF IInv, OneHolder, Abort, Goto, Leave, NoWrites, HoldsTask, HoldsTimer
  <1>5. ClosedIsClosed'
    BY NamesAssumption
    DEF IInv, ClosedIsClosed, Abort, Goto, Leave, HoldsTask, IsOpen,
        ClosedStatuses
  <1>6. LiveTimer'
    BY DEF IInv, LiveTimer, Abort, IsOpen
  <1>7. IhpFirst'
    BY DEF IInv, IhpFirst, TypeOK, Abort, Goto, Leave, NewStatus,
           WindowClosesWithIhp
  <1>8. HoldRequests'
    BY DEF IInv, HoldRequests, Abort, Goto, Leave
  <1>9. RetryIntervalSeparates'
    BY DEF IInv, RetryIntervalSeparates, Abort, Goto, Leave, NoWrites,
           HoldsTask, IsOpen, clock, Processing
  <1>10. HoldEndsOnce'
    BY DEF IInv, HoldEndsOnce, Abort, Goto, Leave, NoWrites, HoldsTask, IsOpen
  <1>. QED
    BY <1>1, <1>2, <1>3, <1>4, <1>5, <1>6, <1>7, <1>8, <1>9, <1>10 DEF IInv

\* An open task whose timer is restarted has a live timer, with no request about
\* to end it that takes the timer for not due (Asyncable#restart!).
LEMMA RestartKeeps ==
    ASSUME IInv, Restart
    PROVE  IInv'
  <1>1. TypeOK'
    BY TimeAssumption, BoundsAssumption DEF IInv, TypeOK, Restart, clock
  <1>2. Requested'
    BY DEF IInv, Requested, Restart, Workers
  <1>3. Writing'
    BY DEF IInv, Writing, Restart, HoldsTask, NewStatus
  <1>4. OneHolder'
    BY DEF IInv, OneHolder, Restart, HoldsTask, HoldsTimer
  <1>5. ClosedIsClosed'
    BY DEF IInv, ClosedIsClosed, Restart, HoldsTimer, TimerFree, Workers,
           IsOpen
  <1>6. LiveTimer'
    BY DEF IInv, LiveTimer, Restart, Workers
  <1>7. IhpFirst'
    BY DEF IInv, IhpFirst, Restart, NewStatus, WindowClosesWithIhp
  <1>8. HoldRequests'
    BY DEF IInv, HoldRequests, Restart
  <1>9. RetryIntervalSeparates'
    BY TimeAssumption, OrderAssumption
    DEF IInv, RetryIntervalSeparates, TypeOK, Restart, HoldsTask, IsOpen, clock,
        Processing
  <1>10. HoldEndsOnce'
    BY DEF IInv, HoldEndsOnce, Restart, HoldsTask, IsOpen
  <1>. QED
    BY <1>1, <1>2, <1>3, <1>4, <1>5, <1>6, <1>7, <1>8, <1>9, <1>10 DEF IInv

(* The theorems *)

\* A new task has a live timer and nobody works on it yet (TimeableTask.create_timer).
LEMMA InitKeeps ==
    ASSUME Init
    PROVE  IInv
  <1>. USE DEF Init, Workers, NoWrites, HoldsTask, HoldsTimer
  <1>1. TypeOK
    <2>1. now \in Created..MaxTime
      BY TimeAssumption, OrderAssumption
    <2>2. ASSUME NEW end \in Ends
          PROVE  FirstSubmitted(end) \in 0..MaxTime
      <3>1. end - RetryInterval \in 0..MaxTime
        BY TimeAssumption
      <3>2. Created \in 0..MaxTime
        BY TimeAssumption, OrderAssumption
      <3>. QED  BY <3>1, <3>2 DEF FirstSubmitted
    <2>3. timer \in [last_submitted: 0..MaxTime, attempted: (0..MaxTime) \union {None},
                     processed: BOOLEAN, canceled: BOOLEAN, error: BOOLEAN]
      BY <2>2
    <2>. QED  BY <2>1, <2>3, BoundsAssumption DEF TypeOK
  <1>2. Requested /\ Writing /\ OneHolder
    BY NamesAssumption DEF Requested, Writing, OneHolder
  <1>3. ClosedIsClosed /\ LiveTimer
    BY NamesAssumption DEF ClosedIsClosed, LiveTimer, IsOpen, ClosedStatuses
  <1>4. IhpFirst /\ HoldRequests
    BY NamesAssumption DEF IhpFirst, WindowClosesWithIhp, HoldRequests
  <1>5. RetryIntervalSeparates /\ HoldEndsOnce
    BY DEF RetryIntervalSeparates, HoldEndsOnce, Processing
  <1>. QED  BY <1>1, <1>2, <1>3, <1>4, <1>5 DEF IInv

\* Every step of a job, a request, the clock or an administrator keeps the
\* invariant, and so does a step that changes nothing.
LEMMA StepKeeps ==
    ASSUME IInv, [Next]_vars
    PROVE  IInv'
  <1>1. CASE Tick
    BY <1>1, TickKeeps
  <1>2. ASSUME NEW j \in Jobs, JobStep(j) \/ Fail(j) \/ Kill(j)
        PROVE  IInv'
    <2>1. j \in Workers
      BY DEF Workers
    <2>2. CASE StartJob(j) \/ Lock(j) \/ Load(j) \/ FinishJob(j) \/ Fail(j) \/ Rescue(j)
      BY <2>2, StartJobKeeps, LockKeeps, LoadKeeps, FinishJobKeeps, FailKeeps, RescueKeeps
    <2>3. CASE ListClosed(j) \/ Cancel(j) \/ Kill(j)
      BY <2>3, ListClosedKeeps, CancelKeeps, KillKeeps
    <2>4. CASE FindIhp(j) \/ CreateIhp(j) \/ CloseTask(j) \/ ListTimers(j)
      BY <2>1, <2>4, FindIhpKeeps, CreateIhpKeeps, CloseTaskKeeps, ListTimersKeeps
    <2>. QED  BY <1>2, <2>2, <2>3, <2>4 DEF JobStep
  <1>3. ASSUME NEW u \in Users,
               (\E s \in ClosedStatuses : Request(u, s)) \/ RequestStep(u) \/ Abort(u)
        PROVE  IInv'
    <2>1. u \in Workers
      BY DEF Workers
    <2>2. CASE (\E s \in ClosedStatuses : Request(u, s)) \/ FinishRequest(u) \/ Abort(u)
      BY <2>2, RequestKeeps, FinishRequestKeeps, AbortKeeps
    <2>3. CASE FindIhp(u) \/ CreateIhp(u) \/ CloseTask(u) \/ ListTimers(u)
      BY <2>1, <2>3, FindIhpKeeps, CreateIhpKeeps, CloseTaskKeeps, ListTimersKeeps
    <2>. QED  BY <1>3, <2>2, <2>3 DEF RequestStep
  <1>4. CASE Restart
    BY <1>4, RestartKeeps
  <1>5. CASE UNCHANGED vars
    <2>. USE <1>5 DEF vars, Workers, IsOpen, HoldsTask, HoldsTimer
    <2>1. TypeOK' /\ Requested' /\ Writing'
      BY DEF IInv, TypeOK, Requested, Writing, NewStatus
    <2>2. OneHolder' /\ ClosedIsClosed' /\ LiveTimer'
      BY DEF IInv, OneHolder, ClosedIsClosed, LiveTimer
    <2>3. IhpFirst' /\ HoldRequests'
      BY DEF IInv, IhpFirst, WindowClosesWithIhp, HoldRequests, NewStatus
    <2>4. RetryIntervalSeparates' /\ HoldEndsOnce'
      BY DEF IInv, RetryIntervalSeparates, HoldEndsOnce, Processing
    <2>. QED  BY <2>1, <2>2, <2>3, <2>4 DEF IInv
  <1>. QED  BY <1>1, <1>2, <1>3, <1>4, <1>5 DEF Next

\* Who holds the task and the timer, what they have loaded and what is due fit
\* together in every state, for every number of jobs and requests.
THEOREM InductiveInvariant == Spec => []IInv
  <1>1. Init => IInv
    BY InitKeeps
  <1>2. IInv /\ [Next]_vars => IInv'
    BY StepKeeps
  <1>. QED  BY <1>1, <1>2, PTL DEF Spec

\* The rows, and what the workers hold of them, are always well-formed.
THEOREM TypeCorrect == Spec => []TypeOK
  <1>1. IInv => TypeOK
    BY DEF IInv
  <1>. QED  BY <1>1, InductiveInvariant, PTL

\* No error, kill or overlap of jobs and requests leaves a task open whose timer
\* is processed or cancelled (TaskTimerJob#process, Task#cancel_task_timers).
THEOREM OpenTaskKeepsTimer == Spec => []OpenTaskHasLiveTimer
  <1>1. IInv => OpenTaskHasLiveTimer
    BY DEF IInv, LiveTimer, OpenTaskHasLiveTimer
  <1>. QED  BY <1>1, InductiveInvariant, PTL

\* A completed evidence window has its IHP task, whoever completed it and
\* whatever failed meanwhile (EvidenceSubmissionWindowTask#when_timer_ends).
THEOREM WindowHasIhp == Spec => []WindowClosesWithIhp
  <1>1. IInv => WindowClosesWithIhp
    BY DEF IInv, IhpFirst
  <1>. QED  BY <1>1, InductiveInvariant, PTL

\* No job or request completes a hold that was cancelled (TimedHoldTask#when_timer_ends).
THEOREM EndedHoldsStayEnded == Spec => EndedHoldStays
  <1>1. ASSUME IInv, [Next]_vars, kind = "hold", task = "cancelled"
        PROVE  task' = "cancelled"
    <2>1. ASSUME NEW j \in Jobs, FinishJob(j)
          PROVE  task' = "cancelled"
      <3>1. ~ HoldsTask(j)
        BY <1>1 DEF IInv, HoldEndsOnce, IsOpen, ClosedStatuses
      <3>. QED  BY <1>1, <2>1, <3>1 DEF FinishJob
    <2>2. ASSUME NEW u \in Users, FinishRequest(u)
          PROVE  task' = "cancelled"
      <3>1. u \in Workers /\ u \notin Jobs
        BY NamesAssumption DEF Workers
      <3>2. HoldsTask(u) => tx[u].task = wants[u]
        BY <1>1, <3>1 DEF IInv, Writing, NewStatus
      <3>3. wants[u] # "completed"
        BY <1>1 DEF IInv, HoldRequests
      <3>4. wants[u] \in ClosedStatuses
        BY <1>1, <2>2 DEF IInv, Requested, FinishRequest
      <3>. QED
        BY <1>1, <2>2, <3>2, <3>3, <3>4 DEF FinishRequest, ClosedStatuses
    <2>3. ASSUME ~ \E j \in Jobs : FinishJob(j), ~ \E u \in Users : FinishRequest(u)
          PROVE  UNCHANGED task
      BY <1>1, <2>3 DEF Next, vars, JobStep, RequestStep, Tick, StartJob, Lock, Load,
         Fail, Rescue, ListClosed, Cancel, Kill, FindIhp, CreateIhp, CloseTask,
         ListTimers, Request, Abort, Restart
    <2>. QED  BY <1>1, <2>1, <2>2, <2>3
  <1>2. IInv /\ [Next]_vars => [kind = "hold" /\ task = "cancelled" => task' = "cancelled"]_vars
    BY <1>1
  <1>. QED  BY <1>2, InductiveInvariant, PTL DEF Spec, EndedHoldStays

(* Timers that do not expire *)

\* Processing the timer, or about to record that it failed.
AtWork(j) == HoldsTimer(j) \/ pc[j] \in {"lock", "rescue"}

\* When an open task's timer has not failed and nobody is at work on it, no
\* execution of the job has started since it was due, or none since the task was
\* created, and it does not expire before the next.
NotMissed ==
    IsOpen /\ ~ timer.error /\ kills = 0 /\ (\A j \in Jobs : ~ AtWork(j)) =>
        \/ now < timer.last_submitted + RetryInterval + sinceJob
        \/ /\ now <= Created + sinceJob
           /\ Created + JobPeriod < timer.last_submitted + WindowLength

\* The numbers that occur in it.
LEMMA Times ==
    ASSUME IInv
    PROVE  /\ now \in Nat /\ sinceJob \in Nat /\ sinceJob <= JobPeriod /\ kills \in Nat
           /\ timer.last_submitted \in Nat
           /\ {RetryInterval, WindowLength, JobPeriod, Created, Buffer} \subseteq Nat
           /\ RetryInterval > 0 /\ RetryInterval + JobPeriod <= WindowLength
           /\ JobPeriod < Buffer
  <1>1. /\ now \in Created..MaxTime /\ sinceJob \in 0..JobPeriod /\ kills \in 0..MaxKills
        /\ timer.last_submitted \in 0..MaxTime
    BY DEF IInv, TypeOK
  <1>. QED  BY <1>1, TimeAssumption, OrderAssumption, BoundsAssumption, ScheduleAssumption

\* In such a state the timer is not expired.
LEMMA NotMissedNotExpired ==
    ASSUME IInv, NotMissed, IsOpen, ~ timer.error, kills = 0, \A j \in Jobs : ~ AtWork(j)
    PROVE  ~ Expired
  <1>1. \/ now < timer.last_submitted + RetryInterval + sinceJob
        \/ /\ now <= Created + sinceJob
           /\ Created + JobPeriod < timer.last_submitted + WindowLength
    BY DEF NotMissed
  <1>. QED  BY <1>1, Times DEF Expired

\* A step of others than the clock: what they leave undone was undone before.
LEMMA NotMissedStays ==
    ASSUME NotMissed, UNCHANGED clock, kills' = 0 => kills = 0, IsOpen' => IsOpen,
           timer'.last_submitted = timer.last_submitted, timer.error => timer'.error,
           (\A j \in Jobs : ~ AtWork(j)') => \A j \in Jobs : ~ AtWork(j)
    PROVE  NotMissed'
  BY DEF NotMissed, clock

LEMMA NotMissedInit ==
    ASSUME Init
    PROVE  NotMissed
  <1>1. PICK end \in Ends : timer.last_submitted = FirstSubmitted(end)
    BY DEF Init
  <1>2. now = Created /\ sinceJob \in 0..JobPeriod
    BY DEF Init
  <1>3. end \in Nat /\ RetryInterval <= end
    BY TimeAssumption
  <1>4. /\ {RetryInterval, WindowLength, JobPeriod, Created, Buffer} \subseteq Nat
        /\ RetryInterval > 0 /\ RetryInterval + JobPeriod <= WindowLength /\ JobPeriod < Buffer
    BY TimeAssumption, OrderAssumption, ScheduleAssumption
  <1>5. Created + JobPeriod < FirstSubmitted(end) + WindowLength
    BY <1>3, <1>4 DEF FirstSubmitted
  <1>6. now <= Created + sinceJob
    BY <1>2, <1>4
  <1>. QED  BY <1>1, <1>5, <1>6 DEF NotMissed

\* A job that starts when the timer is due, and not expired, works on it.
LEMMA NotMissedStart ==
    ASSUME IInv, NotMissed, NEW j \in Jobs, StartJob(j)
    PROVE  NotMissed'
  <1>. SUFFICES ASSUME IsOpen', ~ timer'.error, kills' = 0, \A i \in Jobs : ~ AtWork(i)'
       PROVE  now' < timer'.last_submitted + RetryInterval + sinceJob'
    BY DEF NotMissed
  <1>1. /\ IsOpen /\ ~ timer.error /\ kills = 0 /\ timer' = timer /\ now' = now /\ sinceJob' = 0
    BY DEF StartJob, IsOpen, counters
  <1>2. pc[j] = "idle" /\ pc' = [pc EXCEPT ![j] = IF RequiresProcessing THEN "lock" ELSE "list"]
    BY DEF StartJob, Goto
  <1>3. pc \in [Workers -> {"idle", "lock", "load", "find", "create", "close", "timers",
                            "finish", "rescue", "list", "cancel", "done"}] /\ j \in Workers
    BY DEF IInv, TypeOK, Workers
  <1>4. ~ RequiresProcessing
    BY <1>2, <1>3 DEF AtWork
  <1>5. \A i \in Jobs : ~ AtWork(i)
    BY <1>2, <1>3 DEF AtWork, HoldsTimer, Workers
  <1>6. ~ Expired
    BY <1>1, <1>5, NotMissedNotExpired
  <1>7. ~ timer.processed /\ ~ timer.canceled /\ timer.attempted = None
    BY <1>1 DEF IInv, LiveTimer
  <1>8. ~ (timer.last_submitted <= now) \/ ~ (timer.last_submitted + RetryInterval <= now)
    BY <1>1, <1>4, <1>6, <1>7 DEF RequiresProcessing, Processable, Attemptable
  <1>. QED  BY <1>1, <1>8, Times

\* What else a job does: it stays at work until the task is closed, the timer has
\* failed or the worker is killed.
LEMMA NotMissedJob ==
    ASSUME IInv, NotMissed, NEW j \in Jobs, JobStep(j) \/ Fail(j) \/ Kill(j)
    PROVE  NotMissed'
  <1>1. pc \in [Workers -> {"idle", "lock", "load", "find", "create", "close", "timers",
                            "finish", "rescue", "list", "cancel", "done"}] /\ j \in Workers
    BY DEF IInv, TypeOK, Workers
  <1>2. CASE StartJob(j)
    BY <1>2, NotMissedStart
  <1>3. ASSUME NEW p \in {"load", "find", "create", "close", "timers", "finish", "rescue"},
               pc' = [pc EXCEPT ![j] = p]
        PROVE  NotMissed'
    <2>1. AtWork(j)'
      BY <1>1, <1>3 DEF AtWork, HoldsTimer
    <2>. QED  BY <2>1 DEF NotMissed
  <1>4. CASE Lock(j)
    BY <1>3, <1>4 DEF Lock, Goto
  <1>5. CASE Load(j)
    BY <1>3, <1>5 DEF Load, Goto
  <1>6. CASE FindIhp(j) \/ CreateIhp(j)
    BY <1>3, <1>6 DEF FindIhp, CreateIhp, Goto
  <1>7. CASE CloseTask(j) \/ ListTimers(j)
    BY <1>3, <1>7 DEF CloseTask, ListTimers, Goto
  <1>8. CASE Fail(j)
    BY <1>3, <1>8 DEF Fail, Leave, Goto
  <1>9. CASE FinishJob(j)
    <2>1. HoldsTask(j) \/ ~ IsOpen
      BY <1>9 DEF IInv, ClosedIsClosed, FinishJob
    <2>2. HoldsTask(j) => tx[j].task = "completed"
      BY <1>1 DEF IInv, Writing, NewStatus
    <2>3. ~ IsOpen'
      BY <1>9, <2>1, <2>2 DEF FinishJob, IsOpen, ClosedStatuses
    <2>. QED  BY <2>3 DEF NotMissed
  <1>10. CASE Rescue(j)
    <2>1. timer'.error
      BY <1>10 DEF Rescue, IInv, TypeOK
    <2>. QED  BY <2>1 DEF NotMissed
  <1>11. CASE ListClosed(j) \/ Cancel(j)
    <2>1. /\ UNCHANGED clock /\ kills' = kills /\ task' = task
          /\ timer'.last_submitted = timer.last_submitted /\ timer'.error = timer.error
      BY <1>11 DEF ListClosed, Cancel, counters, IInv, TypeOK
    <2>2. \A i \in Jobs : AtWork(i) => AtWork(i)'
      BY <1>1, <1>11 DEF ListClosed, Cancel, Goto, AtWork, HoldsTimer, Workers
    <2>. QED  BY <2>1, <2>2, NotMissedStays DEF IsOpen
  <1>12. CASE Kill(j)
    <2>1. kills' # 0
      BY <1>12, Times DEF Kill
    <2>. QED  BY <2>1 DEF NotMissed
  <1>. QED
    BY <1>2, <1>4, <1>5, <1>6, <1>7, <1>8, <1>9, <1>10, <1>11, <1>12 DEF JobStep

\* Users only close the task; a job at work goes on.
LEMMA NotMissedRequest ==
    ASSUME IInv, NotMissed, NEW u \in Users,
           (\E s \in ClosedStatuses : Request(u, s)) \/ RequestStep(u) \/ Abort(u)
    PROVE  NotMissed'
  <1>1. \A j \in Jobs : j # u
    BY NamesAssumption
  <1>2. \A j \in Jobs : pc'[j] = pc[j]
    BY <1>1 DEF Request, RequestStep, Abort, FindIhp, CreateIhp, CloseTask, ListTimers,
                FinishRequest, Leave, Goto, IInv, TypeOK, Workers
  <1>3. UNCHANGED clock /\ kills' = kills
    BY DEF Request, RequestStep, Abort, FindIhp, CreateIhp, CloseTask, ListTimers,
           FinishRequest, counters
  <1>4. timer'.last_submitted = timer.last_submitted /\ timer'.error = timer.error
    BY DEF Request, RequestStep, Abort, FindIhp, CreateIhp, CloseTask, ListTimers,
           FinishRequest, IInv, TypeOK
  <1>5. IsOpen' => IsOpen
    <2>1. CASE FinishRequest(u)
      <3>1. HoldsTask(u) => tx[u].task \in ClosedStatuses
        <4>1. u \in Workers /\ u \notin Jobs
          BY NamesAssumption DEF Workers
        <4>. QED  BY <2>1, <4>1 DEF IInv, Writing, Requested, NewStatus, FinishRequest
      <3>. QED  BY <2>1, <3>1 DEF FinishRequest, IsOpen
    <2>2. CASE ~ FinishRequest(u)
      BY <2>2 DEF Request, RequestStep, Abort, FindIhp, CreateIhp, CloseTask, ListTimers, IsOpen
    <2>. QED  BY <2>1, <2>2
  <1>. QED  BY <1>2, <1>3, <1>4, <1>5, NotMissedStays DEF AtWork, HoldsTimer

LEMMA NotMissedKept ==
    ASSUME IInv, NotMissed, [Next]_vars
    PROVE  NotMissed'
  <1>1. CASE Tick
    <2>1. /\ now' = now + 1 /\ sinceJob' = sinceJob + 1
          /\ timer' = timer /\ kills' = kills /\ task' = task /\ pc' = pc
      BY <1>1 DEF Tick, counters
    <2>2. (\A j \in Jobs : ~ AtWork(j)') => \A j \in Jobs : ~ AtWork(j)
      BY <2>1 DEF AtWork, HoldsTimer
    <2>. QED  BY <2>1, <2>2, Times DEF NotMissed, IsOpen
  <1>2. CASE Restart
    <2>1. now' = now /\ sinceJob' = sinceJob /\ timer'.last_submitted = now
      BY <1>2 DEF Restart, clock
    <2>2. now' < timer'.last_submitted + RetryInterval + sinceJob'
      BY <2>1, Times
    <2>. QED  BY <2>2 DEF NotMissed
  <1>3. CASE UNCHANGED vars
    BY <1>3 DEF vars, clock, counters, NotMissed, IsOpen, AtWork, HoldsTimer
  <1>. QED  BY <1>1, <1>2, <1>3, NotMissedJob, NotMissedRequest DEF Next

\* The timer of an open task expires only when its processing has failed, or
\* while it is processed: whenever it ends, the retry interval, the processing
\* window and the restart of old timers leave the job a run that finds it due
\* (Asyncable, TimeableTask.create_timer).
THEOREM ExpiresAfterFailure == Spec => []ExpiresOnlyAfterFailure
  <1>1. IInv /\ NotMissed => ExpiresOnlyAfterFailure
    <2>. SUFFICES ASSUME IInv, NotMissed, IsOpen, Expired, ~ timer.error, ~ (kills > 0),
                         ~ \E j \in Jobs : HoldsTimer(j) \/ pc[j] \in {"lock", "rescue"}
         PROVE  FALSE
      BY DEF ExpiresOnlyAfterFailure
    <2>1. kills = 0
      BY Times
    <2>. QED  BY <2>1, NotMissedNotExpired DEF AtWork
  <1>2. IInv /\ NotMissed /\ [Next]_vars => NotMissed'
    BY NotMissedKept
  <1>. QED  BY <1>1, <1>2, NotMissedInit, InductiveInvariant, PTL DEF Spec
=============================================================================
