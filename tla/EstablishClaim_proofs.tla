------------------------ MODULE EstablishClaim_proofs ------------------------
(***************************************************************************)
(* Proofs about EstablishClaim, for any number of appeals, users, requests *)
(* and executions of the jobs: stale rows are never saved, so tasks follow *)
(* the events of their state machine, an appeal has one open task, and     *)
(* what tasks say of VBMS and VACOLS is so.                                *)
(***************************************************************************)
EXTENDS EstablishClaim, FiniteSetTheorems, TLAPS

-----------------------------------------------------------------------------
(* The inductive invariant *)

Held(r) == request[r].pc \in {"vacols", "commit"}

\* What holds of rows by themselves.
RowsOk ==
    \A t \in Tasks :
        /\ task[t].state = "none" => task[t] = NoTask
        /\ task[t].state # "none" => task[t].appeal \in Appeals
        /\ task[t].state \in {"unprepared", "unassigned"} => task[t].user = None
        /\ task[t].state = "reviewed" => task[t].ref
        /\ task[t].state # "completed" => task[t].status = "none"

\* Rows get their ids in order.
Dense == \A t \in Existing : 1..t \subseteq Existing

\* An open task that has a reference has it of an end product.
RefsOk == \A t \in Tasks : task[t].ref /\ task[t].state # "completed" => task[t].appeal \in claims

\* A loaded row is of a task of its appeal, and a started task can only have
\* been reviewed or completed since.
LoadedOk(x) ==
    /\ x \in LoadedRows
    /\ x[2].appeal \in Appeals /\ x[1] \in Of(x[2].appeal)
    /\ x[2].state = "started" /\ ~ Fresh(x) => task[x[1]].state \in {"reviewed", "completed"}

\* The states of the row a request has loaded, by what it does next.
RowStates(pc) ==
    IF pc \in {"check", "assign"} THEN {"unassigned"}
    ELSE IF pc = "show" THEN {"assigned"}
    ELSE IF pc \in {"perform", "review"} THEN {"started"}
    ELSE {"started", "reviewed"}

RequestOk(r) ==
    LET q == request[r]
    IN  /\ q.pc # "idle" => q.user \in Users
        /\ \A x \in q.batch : LoadedOk(x) /\ x[2].state = "unassigned" /\ x[2].user = None
        /\ q.pc \notin {"idle", "find", "next"} =>
              LoadedOk(q.row) /\ q.row[2].state \in RowStates(q.pc)
        /\ q.pc \in {"check", "assign"} => q.row[2].user = None
        /\ q.pc \in Completions => q.kind = q.pc
        /\ q.pc \in {"vacols", "commit"} => q.kind \in Moving /\ Fresh(q.row)
        /\ q.pc = "commit" => moved[q.row[2].appeal] > 0
        /\ q.pc = "review" => q.row[2].appeal \in claims

\* No two requests hold a row.
OneHolder ==
    \A q, r \in Requests : Held(q) /\ Held(r) /\ q # r => request[q].row[1] # request[r].row[1]

JobOk(j) ==
    \A x \in job[j].batch :
        /\ LoadedOk(x)
        /\ job[j].kind = "prepare" => x[2].state = "unprepared"
        /\ job[j].kind = "reassign" => x[2].user # None /\ x[2].state # "completed"

Rest ==
    /\ RowsOk /\ Dense /\ RefsOk
    /\ \A r \in Requests : RequestOk(r)
    /\ OneHolder
    /\ \A j \in Jobs : JobOk(j)

IInv == TypeOK /\ Rest /\ OneOpenTask /\ RoutedInVacols /\ ClaimsAccounted

-----------------------------------------------------------------------------
(* Events *)

\* What an event keeps of a row that exists.
LEMMA EventKeeps ==
    ASSUME NEW row \in Rows, NEW next \in Rows, Event(row, next), row.state # "none"
    PROVE  /\ next.state # "none" /\ next.appeal = row.appeal /\ row.state # "completed"
           /\ row.ref => next.ref \/ next.state = "completed"
           /\ row.state = "started" => next.state \in {"reviewed", "completed"}
           /\ row.state = "reviewed" => next.state = "completed"
           /\ next.state = "reviewed" => next.ref
           /\ next.state # "completed" => next.status = row.status
           /\ next.state \in {"unprepared", "unassigned"} =>
                 row.state = "unprepared" /\ next.user = row.user
<1>1. CASE row.state = "unprepared" /\ next = [row EXCEPT !.state = "unassigned"]
  BY <1>1 DEF Rows
<1>2. CASE row.state = "unassigned"
           /\ \E u \in Users : next = [row EXCEPT !.state = "assigned", !.user = u]
  BY <1>2 DEF Rows
<1>3. CASE row.state = "assigned" /\ next = [row EXCEPT !.state = "started"]
  BY <1>3 DEF Rows
<1>4. CASE row.state = "started" /\ next = [row EXCEPT !.state = "reviewed", !.ref = TRUE]
  BY <1>4 DEF Rows
<1>5. CASE /\ row.state \in {"started", "reviewed"}
           /\ next = [Completed(row, next.status) EXCEPT !.ref = next.ref]
  BY <1>5 DEF Rows, Completed
<1>6. CASE row.state \in {"unprepared", "unassigned"} /\ next = Completed(row, "invalidated")
  BY <1>6 DEF Rows, Completed
<1>7. row # NoTask
  BY DEF NoTask
<1> QED
  BY <1>1, <1>2, <1>3, <1>4, <1>5, <1>6, <1>7 DEF Event

\* Every change of a row is an event, and what was done outside stays done.
Steady ==
    /\ task' \in [Tasks -> Rows]
    /\ \A t \in Tasks : task'[t] = task[t] \/ Event(task[t], task'[t])
    /\ claims \subseteq claims'
    /\ moved' \in [Appeals -> Nat] /\ \A a \in Appeals : moved[a] <= moved'[a]

\* No row is created, none expires, and one that is moved has been moved.
Quiet ==
    \A t \in Tasks :
        \/ task'[t] = task[t]
        \/ /\ task[t].state # "none" /\ task'[t].status # "expired"
           /\ task'[t].status \in MovedStatuses => moved'[task[t].appeal] > 0
           /\ task'[t].status = "routed" => task[t].appeal \in claims

LEMMA ExistingStays ==
    ASSUME TypeOK, Steady
    PROVE  /\ \A t \in Existing : t \in Existing' /\ task'[t].appeal = task[t].appeal
           /\ \A a \in Appeals : Of(a) \subseteq Of(a)'
<1>1. ASSUME NEW t \in Existing PROVE t \in Existing' /\ task'[t].appeal = task[t].appeal
  BY <1>1, EventKeeps DEF TypeOK, Steady, Existing
<1> QED
  BY <1>1 DEF Of

LEMMA LoadedStays ==
    ASSUME TypeOK, Steady, NEW x, LoadedOk(x)
    PROVE  LoadedOk(x)'
<1>1. x[1] \in Tasks /\ x[2] \in Rows /\ x[1] \in Existing /\ task[x[1]].state # "none"
  BY DEF LoadedOk, LoadedRows, Of, Existing
<1>2. x[1] \in Of(x[2].appeal)'
  BY ExistingStays DEF LoadedOk
<1>3. ASSUME x[2].state = "started", ~ Fresh(x)'
      PROVE  task'[x[1]].state \in {"reviewed", "completed"}
  <2>1. CASE task'[x[1]] = task[x[1]]
    BY <1>3, <2>1 DEF LoadedOk, Fresh
  <2>2. CASE task'[x[1]] # task[x[1]]
    <3>1. Event(task[x[1]], task'[x[1]]) /\ task[x[1]] \in Rows /\ task'[x[1]] \in Rows
      BY <1>1, <2>2 DEF Steady, TypeOK
    <3>2. CASE Fresh(x)
      BY <1>1, <1>3, <3>1, <3>2, EventKeeps DEF Fresh
    <3>3. CASE ~ Fresh(x)
      BY <1>1, <1>3, <3>1, <3>3, EventKeeps DEF LoadedOk
    <3> QED BY <3>2, <3>3
  <2> QED BY <2>1, <2>2
<1> QED
  BY <1>2, <1>3 DEF LoadedOk

LEMMA RequestStays ==
    ASSUME IInv, Steady, NEW r \in Requests, request'[r] = request[r],
           Held(r) => task'[request[r].row[1]] = task[request[r].row[1]]
    PROVE  RequestOk(r)'
<1> DEFINE q == request[r]
<1>1. RequestOk(r) /\ TypeOK
  BY DEF IInv, Rest
<1>2. \A x \in q.batch : LoadedOk(x)'
  BY <1>1, LoadedStays DEF RequestOk
<1>3. q.pc \notin {"idle", "find", "next"} => LoadedOk(q.row)' /\ q.row[2].appeal \in Appeals
  BY <1>1, LoadedStays DEF RequestOk, LoadedOk
<1>4. q.pc \in {"vacols", "commit"} => Fresh(q.row)'
  BY <1>1 DEF RequestOk, Held, Fresh
<1>5. q.pc = "commit" => moved'[q.row[2].appeal] > 0
  BY <1>1, <1>3 DEF RequestOk, Steady, TypeOK
<1>6. q.pc = "review" => q.row[2].appeal \in claims'
  BY <1>1 DEF RequestOk, Steady
<1> QED
  BY <1>1, <1>2, <1>3, <1>4, <1>5, <1>6 DEF RequestOk

LEMMA JobStays ==
    ASSUME IInv, Steady, NEW j \in Jobs, job'[j] = job[j]
    PROVE  JobOk(j)'
BY LoadedStays DEF IInv, Rest, JobOk

LEMMA QuietStep ==
    ASSUME IInv, Steady, Quiet
    PROVE  RowsOk' /\ Dense' /\ OneOpenTask' /\ RoutedInVacols'
<1>1. TypeOK /\ RowsOk /\ Dense /\ OneOpenTask /\ RoutedInVacols
  BY DEF IInv, Rest
<1>2. ASSUME NEW t \in Tasks, task'[t] # task[t]
      PROVE  /\ Event(task[t], task'[t]) /\ task[t] \in Rows /\ task'[t] \in Rows
             /\ task[t].state # "none" /\ task'[t].status # "expired"
             /\ task'[t].status \in MovedStatuses => moved'[task[t].appeal] > 0
             /\ task'[t].status = "routed" => task[t].appeal \in claims
  BY <1>1, <1>2 DEF Steady, Quiet, TypeOK
<1>3. Existing' = Existing /\ \A a \in Appeals : Of(a)' = Of(a)
  BY <1>1, <1>2, ExistingStays DEF Existing, Of
<1>4. RowsOk'
  <2> SUFFICES ASSUME NEW t \in Tasks, task'[t] # task[t]
      PROVE  /\ task'[t].state = "none" => task'[t] = NoTask
             /\ task'[t].state # "none" => task'[t].appeal \in Appeals
             /\ task'[t].state \in {"unprepared", "unassigned"} => task'[t].user = None
             /\ task'[t].state = "reviewed" => task'[t].ref
             /\ task'[t].state # "completed" => task'[t].status = "none"
    BY <1>1 DEF RowsOk
  <2> QED
    BY <1>1, <1>2, EventKeeps DEF RowsOk
<1>5. Dense'
  BY <1>1, <1>3 DEF Dense
<1>6. OneOpenTask'
  <2>1. ASSUME NEW a \in Appeals, NEW s \in Of(a), NEW t \in Of(a),
               task'[s].state # "completed", task'[t].state # "completed"
        PROVE  s = t
    BY <1>1, <1>2, <2>1, EventKeeps DEF OneOpenTask, Of, Existing
  <2>2. ASSUME NEW a \in Appeals, NEW t \in Of(a), task'[t].status = "expired"
        PROVE  \E s \in Of(a) : s > t
    BY <1>1, <1>2, <2>2 DEF OneOpenTask, Of, Existing
  <2> QED
    BY <1>3, <2>1, <2>2 DEF OneOpenTask
<1>7. RoutedInVacols'
  <2> SUFFICES ASSUME NEW t \in Existing
      PROVE  /\ task'[t].status \in MovedStatuses => moved'[task'[t].appeal] > 0
             /\ task'[t].status = "routed" => task'[t].appeal \in claims'
    BY <1>3 DEF RoutedInVacols
  <2>1. CASE task'[t] # task[t]
    BY <1>2, <2>1, ExistingStays, <1>1 DEF Existing, Steady
  <2>2. CASE task'[t] = task[t]
    <3>1. task[t].appeal \in Appeals /\ t \in Tasks
      BY <1>1 DEF RowsOk, Existing
    <3> QED
      BY <1>1, <2>2, <3>1 DEF RoutedInVacols, Steady, TypeOK
  <2> QED
    BY <2>1, <2>2
<1> QED
  BY <1>4, <1>5, <1>6, <1>7

\* The end product of a request that was about to save its reference.
Accounted(r) ==
    \/ request'[r] = request[r] \/ faults' > 0
    \/ \E t \in Of(request[r].row[2].appeal) : task'[t].ref \/ task'[t].state = "completed"

LEMMA ClaimsKept ==
    ASSUME IInv, Steady, claims' = claims, faults > 0 => faults' > 0,
           \A r \in Requests : At(r, "review") => Accounted(r)
    PROVE  ClaimsAccounted'
<1> SUFFICES ASSUME NEW a \in claims
    PROVE  \/ \E t \in Of(a)' : task'[t].ref \/ task'[t].state = "completed"
           \/ \E r \in Requests : At(r, "review")' /\ request'[r].row[2].appeal = a
           \/ faults' > 0
  BY DEF ClaimsAccounted
<1>1. TypeOK /\ a \in Appeals
  BY DEF IInv, TypeOK
<1>2. CASE \E t \in Of(a) : task[t].ref \/ task[t].state = "completed"
  <2>1. PICK t \in Of(a) : task[t].ref \/ task[t].state = "completed"
    BY <1>2
  <2>2. t \in Of(a)' /\ t \in Tasks /\ task[t].state # "none"
    BY <1>1, ExistingStays DEF Of, Existing
  <2>3. task'[t].ref \/ task'[t].state = "completed"
    BY <1>1, <2>1, <2>2, EventKeeps DEF Steady, TypeOK
  <2> QED BY <2>2, <2>3
<1>3. CASE \E r \in Requests : At(r, "review") /\ request[r].row[2].appeal = a
  BY <1>1, <1>3, ExistingStays DEF At, Accounted
<1> QED
  BY <1>2, <1>3 DEF IInv, ClaimsAccounted
-----------------------------------------------------------------------------
(* Steps of a request and of an execution *)

RequestType ==
    [pc : Completions \union {"idle", "find", "next", "check", "assign", "show", "perform",
                              "review", "vacols", "commit"},
     kind : Completions \union {"none", "show", "perform"},
     user : Users \union {None}, batch : SUBSET LoadedRows,
     row : LoadedRows \union {<<>>}, tries : 0..Retries]
JobType == [kind : {"idle", "prepare", "reassign"}, batch : SUBSET LoadedRows]

\* What held rows keep when the others change.
HeldKept(S) == \A q \in S : Held(q) => task'[request[q].row[1]] = task[request[q].row[1]]

\* A step of request r, which keeps or changes the row it has loaded.
LEMMA RequestStep ==
    ASSUME IInv, Steady, Quiet, RefsOk', ClaimsAccounted',
           old' = old, active' = active, job' = job,
           claims' \subseteq Appeals, faults' \in 0..MaxFaults,
           NEW r \in Requests, NEW e \in RequestType, request' = [request EXCEPT ![r] = e],
           RequestOk(r)',
           e.pc \in {"vacols", "commit"} =>
               \A q \in Requests \ {r} : Held(q) => request[q].row[1] # e.row[1],
           HeldKept(Requests \ {r})
    PROVE  IInv'
<1>1. TypeOK /\ OneHolder
  BY DEF IInv, Rest
<1>2. request'[r] = e /\ \A q \in Requests \ {r} : request'[q] = request[q]
  BY <1>1 DEF TypeOK
<1>3. TypeOK'
  <2>1. request' \in [Requests -> RequestType]
    BY <1>1 DEF TypeOK, RequestType
  <2> QED
    BY <1>1, <2>1 DEF TypeOK, Steady, RequestType
<1>4. \A q \in Requests : RequestOk(q)'
  BY <1>2, RequestStays DEF HeldKept
<1>5. OneHolder'
  BY <1>1, <1>2 DEF OneHolder, Held
<1>6. \A j \in Jobs : JobOk(j)'
  BY JobStays
<1> QED
  BY <1>3, <1>4, <1>5, <1>6, QuietStep DEF IInv, Rest

\* A step of execution j.
LEMMA JobStep ==
    ASSUME IInv, Steady, Quiet, RefsOk', request' = request,
           UNCHANGED <<old, outside>>, faults' \in 0..MaxFaults, faults <= faults',
           NEW j \in Jobs, NEW e \in JobType, job' = [job EXCEPT ![j] = e],
           JobOk(j)', HeldKept(Requests)
    PROVE  IInv'
<1>1. TypeOK /\ OneHolder
  BY DEF IInv, Rest
<1>2. \A i \in Jobs \ {j} : job'[i] = job[i]
  BY <1>1 DEF TypeOK
<1>3. TypeOK'
  <2>1. job' \in [Jobs -> JobType]
    BY <1>1 DEF TypeOK, JobType
  <2> QED
    BY <1>1, <2>1 DEF TypeOK, Steady, JobType, outside
<1>4. \A q \in Requests : RequestOk(q)'
  BY RequestStays DEF HeldKept
<1>5. OneHolder'
  BY <1>1 DEF OneHolder, Held
<1>6. \A i \in Jobs : JobOk(i)'
  BY <1>2, JobStays
<1>7. ClaimsAccounted'
  BY <1>1, ClaimsKept DEF outside, Accounted, TypeOK
<1> QED
  BY <1>3, <1>4, <1>5, <1>6, <1>7, QuietStep DEF IInv, Rest

\* Nothing changes in the database or outside.
LEMMA NothingChanges ==
    ASSUME IInv, UNCHANGED <<task, claims, moved>>
    PROVE  Steady /\ Quiet /\ RefsOk' /\ \A x : LoadedOk(x) => LoadedOk(x)'
<1>1. TypeOK /\ RefsOk
  BY DEF IInv, Rest
<1>2. Steady /\ Quiet
  BY <1>1 DEF Steady, Quiet, TypeOK
<1> QED
  BY <1>1, <1>2, LoadedStays DEF RefsOk

LEMMA Responded ==
    ASSUME NEW r \in Requests, request'[r] = NoRequest
    PROVE  RequestOk(r)'
BY DEF RequestOk, NoRequest, Completions, Moving

LEMMA NoRequestType == NoRequest \in RequestType /\ NoJob \in JobType
BY DEF NoRequest, NoJob, RequestType, JobType, Retries

\* A request looks at the database.
LEMMA ReadRequest ==
    ASSUME IInv, UNCHANGED <<task, old, outside, job>>,
           faults' \in 0..MaxFaults, faults <= faults',
           NEW r \in Requests, NEW e \in RequestType, request' = [request EXCEPT ![r] = e],
           RequestOk(r)', At(r, "review") => Accounted(r),
           e.pc \in {"vacols", "commit"} =>
               \A q \in Requests \ {r} : Held(q) => request[q].row[1] # e.row[1]
    PROVE  Steady /\ IInv'
<1>1. TypeOK /\ \A q \in Requests \ {r} : request'[q] = request[q]
  BY DEF IInv, TypeOK
<1>2. Steady /\ Quiet /\ RefsOk'
  BY NothingChanges DEF outside
<1>3. ClaimsAccounted'
  BY <1>1, <1>2, ClaimsKept DEF outside, Accounted, TypeOK
<1>4. claims' \subseteq Appeals /\ HeldKept(Requests \ {r}) /\ active' = active
  BY <1>1 DEF TypeOK, outside, HeldKept
<1> QED
  BY <1>2, <1>3, <1>4, RequestStep

LEMMA RespondOnly ==
    ASSUME IInv, UNCHANGED <<task, old, outside, job>>,
           faults' \in 0..MaxFaults, faults <= faults',
           NEW r \in Requests, Respond(r), At(r, "review") => Accounted(r)
    PROVE  Steady /\ IInv'
<1>1. request'[r] = NoRequest /\ NoRequest.pc = "idle"
  BY DEF Respond, NoRequest, IInv, TypeOK
<1> QED
  BY <1>1, Responded, NoRequestType, ReadRequest DEF Respond

\* An execution of a job looks at the database.
LEMMA ReadJob ==
    ASSUME IInv, UNCHANGED <<task, old, outside, request>>,
           faults' \in 0..MaxFaults, faults <= faults',
           NEW j \in Jobs, NEW e \in JobType, job' = [job EXCEPT ![j] = e], JobOk(j)'
    PROVE  Steady /\ IInv'
<1>1. Steady /\ Quiet /\ RefsOk'
  BY NothingChanges DEF outside
<1> QED
  BY <1>1, JobStep DEF HeldKept
-----------------------------------------------------------------------------
(* The save of a loaded row *)

\* What is known of a row that is loaded and is not stale.
LEMMA FreshRow ==
    ASSUME IInv, NEW x, LoadedOk(x), Fresh(x)
    PROVE  /\ x[1] \in Tasks /\ x[2] \in Rows /\ task[x[1]] = x[2]
           /\ x[2].appeal \in Appeals /\ x[1] \in Of(x[2].appeal)
           /\ x[2].state # "none" /\ (x[2].state # "completed" => x[2].status = "none")
BY DEF LoadedOk, LoadedRows, Fresh, Of, Existing, IInv, Rest, RowsOk

\* Rows that are held are started or reviewed.
LEMMA NotHeld ==
    ASSUME IInv, NEW x, LoadedOk(x), Fresh(x), x[2].state \notin {"started", "reviewed"}
    PROVE  Unlocked(x[1])
<1> SUFFICES ASSUME NEW q \in Requests, Held(q), request[q].row[1] = x[1]
    PROVE  FALSE
  BY DEF Unlocked, Held
<1>1. RequestOk(q)
  BY DEF IInv, Rest
<1>2. Fresh(request[q].row) /\ request[q].row[2].state \in {"started", "reviewed"}
  BY <1>1 DEF RequestOk, Held, RowStates, Completions, Moving
<1> QED
  BY <1>2 DEF Fresh

LEMMA SaveSteady ==
    ASSUME IInv, NEW x, LoadedOk(x), Fresh(x), NEW row \in Rows, Event(x[2], row),
           row.status # "expired",
           row.status \in MovedStatuses => moved[x[2].appeal] > 0,
           row.status = "routed" => x[2].appeal \in claims,
           row.ref /\ row.state # "completed" => x[2].ref \/ x[2].appeal \in claims,
           Save(x, row), UNCHANGED <<claims, moved>>
    PROVE  /\ Steady /\ Quiet /\ RefsOk' /\ \A y : LoadedOk(y) => LoadedOk(y)'
           /\ task'[x[1]] = row /\ \A t \in Tasks \ {x[1]} : task'[t] = task[t]
<1>1. TypeOK /\ RefsOk /\ RowsOk
  BY DEF IInv, Rest
<1>2. /\ task' \in [Tasks -> Rows] /\ task'[x[1]] = row
      /\ \A t \in Tasks \ {x[1]} : task'[t] = task[t]
  BY <1>1, FreshRow DEF TypeOK, Save
<1>3. Steady
  BY <1>1, <1>2, FreshRow DEF Steady, TypeOK
<1>4. Quiet
  BY <1>1, <1>2, FreshRow DEF Quiet
<1>5. RefsOk'
  <2> SUFFICES ASSUME NEW t \in Tasks, task'[t].ref, task'[t].state # "completed"
      PROVE  task'[t].appeal \in claims
    BY DEF RefsOk
  <2>1. CASE t = x[1]
    <3>1. row.appeal = x[2].appeal /\ x[2].state # "completed"
      BY FreshRow, EventKeeps
    <3> QED
      BY <1>1, <1>2, <2>1, <3>1, FreshRow DEF RefsOk
  <2>2. CASE t # x[1]
    BY <1>1, <1>2, <2>2 DEF RefsOk
  <2> QED
    BY <2>1, <2>2
<1> QED
  BY <1>1, <1>2, <1>3, <1>4, <1>5, LoadedStays

\* A request saves a row that no other request holds, and holds none after.
LEMMA SaveRequest ==
    ASSUME IInv, NEW x, LoadedOk(x), Fresh(x), Steady, Quiet, RefsOk',
           \A t \in Tasks \ {x[1]} : task'[t] = task[t],
           NEW r \in Requests, \A q \in Requests \ {r} : Held(q) => request[q].row[1] # x[1],
           UNCHANGED <<old, outside, job, faults>>,
           NEW e \in RequestType, request' = [request EXCEPT ![r] = e],
           e.pc \notin {"vacols", "commit"}, RequestOk(r)',
           At(r, "review") => Accounted(r)
    PROVE  IInv'
<1>1. TypeOK /\ \A q \in Requests \ {r} : request'[q] = request[q]
  BY DEF IInv, TypeOK
<1>2. ClaimsAccounted'
  BY <1>1, ClaimsKept DEF outside, Accounted
<1>3. HeldKept(Requests \ {r})
  <2> SUFFICES ASSUME NEW q \in Requests \ {r}, Held(q)
      PROVE  task'[request[q].row[1]] = task[request[q].row[1]]
    BY DEF HeldKept
  <2>1. LoadedOk(request[q].row)
    BY DEF IInv, Rest, RequestOk, Held
  <2> QED
    BY <2>1 DEF LoadedOk, LoadedRows
<1> QED
  BY <1>1, <1>2, <1>3, RequestStep DEF TypeOK, outside

\* The same for an execution of a job.
LEMMA SaveJob ==
    ASSUME IInv, NEW x, LoadedOk(x), Fresh(x), Steady, Quiet, RefsOk',
           \A t \in Tasks \ {x[1]} : task'[t] = task[t], Unlocked(x[1]),
           UNCHANGED <<old, outside, request, faults>>,
           NEW j \in Jobs, NEW e \in JobType, job' = [job EXCEPT ![j] = e], JobOk(j)'
    PROVE  IInv'
<1>1. HeldKept(Requests)
  <2> SUFFICES ASSUME NEW q \in Requests, Held(q)
      PROVE  task'[request[q].row[1]] = task[request[q].row[1]]
    BY DEF HeldKept
  <2>1. LoadedOk(request[q].row)
    BY DEF IInv, Rest, RequestOk, Held
  <2> QED
    BY <2>1 DEF LoadedOk, LoadedRows, Unlocked, Held
<1>2. faults' \in 0..MaxFaults /\ faults <= faults'
  BY BoundsAssumption DEF IInv, TypeOK
<1> QED
  BY <1>1, <1>2, JobStep
-----------------------------------------------------------------------------
(* The actions of requests *)

\* What the steps below use of a request that is served.
LEMMA Serving ==
    ASSUME IInv, NEW r \in Requests
    PROVE  /\ TypeOK /\ request[r] \in RequestType /\ RequestOk(r)
           /\ faults \in 0..MaxFaults /\ faults <= faults
           /\ NoTask \in Rows
<1>1. TypeOK /\ RequestOk(r)
  BY DEF IInv, Rest
<1> QED
  BY <1>1, BoundsAssumption DEF TypeOK, RequestType, NoTask, Rows

LEMMA AskForTaskStep ==
    ASSUME IInv, NEW r \in Requests, NEW u \in Users, AskForTask(r, u)
    PROVE  Steady /\ IInv'
<1> DEFINE e == [NoRequest EXCEPT !.pc = "find", !.user = u]
<1>1. e.pc = "find" /\ e.user = u /\ e.batch = {}
  BY DEF NoRequest
<1>2. e \in RequestType /\ request' = [request EXCEPT ![r] = e] /\ request'[r] = e
  BY NoRequestType, Serving DEF AskForTask, RequestType, TypeOK
<1> HIDE DEF e
<1>3. RequestOk(r)'
  BY <1>1, <1>2 DEF RequestOk, Completions, Moving
<1> QED
  BY <1>1, <1>2, <1>3, Serving, ReadRequest DEF AskForTask, At

LEMMA FindAssignableStep ==
    ASSUME IInv, NEW r \in Requests, FindAssignable(r)
    PROVE  Steady /\ IInv'
<1>1. CASE Respond(r)
  BY <1>1, Serving, RespondOnly DEF FindAssignable, At
<1>2. CASE ~ Respond(r)
  <2> DEFINE e == [request[r] EXCEPT !.pc = "next", !.batch = Load(Assignable)]
  <2>1. Load(Assignable) \in SUBSET LoadedRows
    BY Serving DEF Load, Assignable, Existing, LoadedRows, TypeOK
  <2>2. /\ e \in RequestType /\ e.pc = "next" /\ e.user = request[r].user
        /\ e.batch = Load(Assignable)
        /\ request' = [request EXCEPT ![r] = e] /\ request'[r] = e
    BY <1>2, <2>1, Serving DEF FindAssignable, RequestType, TypeOK
  <2>3. \A x \in Load(Assignable) : LoadedOk(x)' /\ x[2].state = "unassigned" /\ x[2].user = None
    <3> SUFFICES ASSUME NEW x, x \in Load(Assignable)
        PROVE  LoadedOk(x) /\ x[2].state = "unassigned" /\ x[2].user = None
      BY NothingChanges DEF FindAssignable, outside
    <3>1. PICK t \in Assignable : x = <<t, task[t]>>
      BY DEF Load
    <3>2. task[t].appeal \in Appeals /\ t \in Tasks /\ task[t] \in Rows
      BY Serving DEF IInv, Rest, RowsOk, Assignable, Existing, TypeOK
    <3> QED
      BY <3>1, <3>2 DEF LoadedOk, LoadedRows, Of, Assignable, Fresh
  <2>4. request[r].pc = "find" /\ request[r].user \in Users
    BY Serving DEF RequestOk, FindAssignable, At
  <2> HIDE DEF e
  <2>5. RequestOk(r)'
    BY <2>2, <2>3, <2>4 DEF RequestOk, Completions, Moving
  <2> QED
    BY <2>2, <2>4, <2>5, Serving, ReadRequest DEF FindAssignable, At
<1> QED
  BY <1>1, <1>2

\* The attempt is made again, unless it was the last.
LEMMA RetryStep ==
    ASSUME IInv, NEW r \in Requests, Retry(r), ~ At(r, "review"), ~ At(r, "idle"),
           UNCHANGED <<task, old, outside, job, faults>>
    PROVE  Steady /\ IInv'
<1>1. CASE Respond(r)
  BY <1>1, Serving, RespondOnly
<1>2. CASE ~ Respond(r)
  <2> DEFINE e == [NoRequest EXCEPT !.pc = "find", !.user = request[r].user,
                                    !.tries = request[r].tries + 1]
  <2>1. e.pc = "find" /\ e.user = request[r].user /\ e.batch = {}
    BY DEF NoRequest
  <2>2. /\ request[r].tries < Retries /\ request[r].tries \in 0..Retries
        /\ request' = [request EXCEPT ![r] = e] /\ request'[r] = e
    BY <1>2, Serving DEF Retry, RequestType, TypeOK
  <2>3. request[r].user \in Users
    BY Serving DEF RequestOk, At
  <2>4. e \in RequestType
    <3>1. request[r].tries + 1 \in 0..Retries
      BY <2>2 DEF Retries
    <3> QED
      BY <2>3, <3>1, NoRequestType DEF RequestType
  <2> HIDE DEF e
  <2>5. RequestOk(r)'
    BY <2>1, <2>2, <2>3 DEF RequestOk, Completions, Moving
  <2> QED
    BY <2>1, <2>2, <2>4, <2>5, Serving, ReadRequest
<1> QED
  BY <1>1, <1>2

LEMMA ConsiderStep ==
    ASSUME IInv, NEW r \in Requests, NEW x \in request[r].batch, Consider(r, x)
    PROVE  Steady /\ IInv'
<1>1. /\ LoadedOk(x) /\ x[2].state = "unassigned" /\ x[2].user = None /\ request[r].pc = "next"
      /\ x \in LoadedRows /\ request[r].user \in Users
  BY Serving DEF RequestOk, RequestType, Consider, At
<1>2. CASE x[2].appeal \notin active
  <2> DEFINE e == [request[r] EXCEPT !.pc = "check", !.row = x, !.batch = {}]
  <2>1. /\ e \in RequestType /\ e.pc = "check" /\ e.user = request[r].user /\ e.batch = {}
        /\ e.row = x /\ request' = [request EXCEPT ![r] = e] /\ request'[r] = e
    <3>1. request[r] \in RequestType
      BY Serving
    <3>2. /\ e \in RequestType /\ e.pc = "check" /\ e.user = request[r].user /\ e.batch = {}
          /\ e.row = x
      BY <1>1, <3>1 DEF RequestType
    <3>3. request' = [request EXCEPT ![r] = e]
      BY <1>2 DEF Consider
    <3>4. request \in [Requests -> RequestType]
      BY Serving DEF TypeOK, RequestType
    <3> HIDE DEF e
    <3> QED
      BY <3>2, <3>3, <3>4
  <2>2. LoadedOk(x)'
    BY <1>1, <1>2, NothingChanges DEF Consider, outside
  <2> HIDE DEF e
  <2>3. RequestOk(r)'
    BY <1>1, <2>1, <2>2 DEF RequestOk, RowStates, Completions, Moving
  <2> QED
    BY <1>2, <2>1, <2>3, Serving, ReadRequest DEF Consider, At
<1>3. CASE x[2].appeal \in active /\ Fresh(x)
  <2> DEFINE row == Completed(x[2], "invalidated")
             e == IF request[r].batch = {x} THEN NoRequest
                  ELSE [request[r] EXCEPT !.batch = @ \ {x}]
  <2>1. /\ row \in Rows /\ Event(x[2], row) /\ row.status = "invalidated" /\ row.state = "completed"
    BY <1>1, <1>3, FreshRow DEF Completed, Rows, Event
  <2>2. Save(x, row) /\ UNCHANGED <<claims, moved>> /\ "invalidated" \notin MovedStatuses
    BY <1>1, <1>3 DEF Consider, outside, MovedStatuses
  <2>3. /\ Steady /\ Quiet /\ RefsOk' /\ \A y : LoadedOk(y) => LoadedOk(y)'
        /\ \A t \in Tasks \ {x[1]} : task'[t] = task[t]
    BY <1>1, <1>3, <2>1, <2>2, SaveSteady
  <2>4. e \in RequestType /\ request' = [request EXCEPT ![r] = e] /\ request'[r] = e
    BY <1>1, <1>3, Serving, NoRequestType DEF Consider, Respond, RequestType, TypeOK
  <2>5. RequestOk(r)' /\ e.pc \in {"idle", "next"}
    <3>1. CASE request[r].batch = {x}
      BY <2>4, <3>1, Responded DEF NoRequest
    <3>2. CASE request[r].batch # {x}
      BY <1>1, <2>3, <2>4, <3>2, Serving DEF RequestOk, RequestType, Completions, Moving
    <3> QED BY <3>1, <3>2
  <2>6. Unlocked(x[1])
    BY <1>1, <1>3, NotHeld
  <2> QED
    BY <1>1, <1>3, <2>3, <2>4, <2>5, <2>6, SaveRequest DEF Consider, At, Unlocked, Held
<1>4. CASE x[2].appeal \in active /\ ~ Fresh(x)
  BY <1>4, RetryStep DEF Consider, At
<1> QED
  BY <1>2, <1>3, <1>4

LEMMA CheckUserStep ==
    ASSUME IInv, NEW r \in Requests, CheckUser(r)
    PROVE  Steady /\ IInv'
<1>1. CASE Respond(r)
  BY <1>1, Serving, RespondOnly DEF CheckUser, At
<1>2. CASE ~ Respond(r)
  <2> DEFINE e == [request[r] EXCEPT !.pc = "assign"]
  <2>1. /\ e \in RequestType /\ e.pc = "assign" /\ e.user = request[r].user
        /\ e.batch = request[r].batch /\ e.row = request[r].row
        /\ request' = [request EXCEPT ![r] = e] /\ request'[r] = e
    BY <1>2, Serving DEF CheckUser, Goto, RequestType, TypeOK
  <2>2. RequestOk(r)'
    BY <2>1, Serving, NothingChanges
       DEF RequestOk, CheckUser, At, RowStates, Completions, Moving, outside
  <2> QED
    BY <2>1, <2>2, Serving, ReadRequest DEF CheckUser, At
<1> QED
  BY <1>1, <1>2
\* The row of a request that is past the loading.
LEMMA LoadedRow ==
    ASSUME IInv, NEW r \in Requests, request[r].pc \notin {"idle", "find", "next"}
    PROVE  /\ LoadedOk(request[r].row) /\ request[r].row[2].state \in RowStates(request[r].pc)
           /\ request[r].user \in Users /\ request[r].row \in LoadedRows
BY Serving DEF RequestOk, LoadedOk

\* A row is saved and the request answered.
LEMMA SaveAndRespond ==
    ASSUME IInv, NEW r \in Requests, Respond(r),
           LoadedOk(request[r].row), Fresh(request[r].row), Steady, Quiet, RefsOk',
           \A t \in Tasks \ {request[r].row[1]} : task'[t] = task[t],
           \A q \in Requests \ {r} : Held(q) => request[q].row[1] # request[r].row[1],
           UNCHANGED <<old, outside, job, faults>>, At(r, "review") => Accounted(r)
    PROVE  IInv'
<1>1. /\ request' = [request EXCEPT ![r] = NoRequest] /\ request'[r] = NoRequest
      /\ NoRequest.pc \notin {"vacols", "commit"}
  BY Serving DEF Respond, NoRequest, TypeOK
<1> QED
  BY <1>1, SaveRequest, Responded, NoRequestType

LEMMA AssignStep ==
    ASSUME IInv, NEW r \in Requests, Assign(r)
    PROVE  Steady /\ IInv'
<1> DEFINE x == request[r].row
<1>1. /\ LoadedOk(x) /\ x[2].state = "unassigned" /\ x[2].user = None
      /\ request[r].user \in Users /\ request[r].pc = "assign"
  BY LoadedRow, Serving DEF Assign, At, RowStates, RequestOk
<1>2. CASE Fresh(x)
  <2> DEFINE row == [x[2] EXCEPT !.state = "assigned", !.user = request[r].user]
  <2> x[2] \in Rows
    BY <1>1, <1>2, FreshRow
  <2>1. row.state = "assigned" /\ row.ref = x[2].ref /\ row.status = x[2].status /\ row \in Rows
    BY <1>1 DEF Rows
  <2>2. Event(x[2], row)
    BY <1>1 DEF Event
  <2>3. row.status = "none" /\ "none" \notin MovedStatuses
    BY <1>1, <1>2, <2>1, FreshRow DEF MovedStatuses
  <2> HIDE DEF row
  <2>4. Save(x, row) /\ Respond(r) /\ UNCHANGED <<claims, moved, outside, old, job, faults>>
    BY <1>2 DEF Assign, outside, row
  <2>5. Steady /\ Quiet /\ RefsOk' /\ \A t \in Tasks \ {x[1]} : task'[t] = task[t]
    BY <1>1, <1>2, <2>1, <2>2, <2>3, <2>4, SaveSteady
  <2>6. Unlocked(x[1])
    BY <1>1, <1>2, NotHeld
  <2> QED
    BY <1>1, <1>2, <2>4, <2>5, <2>6, SaveAndRespond DEF At, Unlocked, Held
<1>3. CASE ~ Fresh(x)
  BY <1>1, <1>3, RetryStep DEF Assign, At
<1> QED
  BY <1>2, <1>3

LEMMA LoadTaskStep ==
    ASSUME IInv, NEW r \in Requests, NEW t \in Tasks,
           NEW kind \in Completions \union {"show", "perform"}, LoadTask(r, t, kind)
    PROVE  Steady /\ IInv'
<1> SUFFICES ASSUME NEW x, x = <<t, task[t]>>
    PROVE  Steady /\ IInv'
  OBVIOUS
<1> DEFINE e == [NoRequest EXCEPT !.pc = kind, !.kind = kind, !.user = task[t].user, !.row = x]
<1>1. /\ task[t] \in Rows /\ task[t].appeal \in Appeals /\ task[t].user \in Users
      /\ task[t].state \in ActionableStates(kind) /\ t \in Existing
  BY Serving DEF LoadTask, Existing, IInv, Rest, RowsOk, TypeOK, Rows
<1>2. x \in LoadedRows /\ LoadedOk(x)
  BY <1>1 DEF LoadedOk, LoadedRows, Of, Fresh
<1>3. e.pc = kind /\ e.kind = kind /\ e.user = task[t].user /\ e.row = x /\ e.batch = {}
  BY DEF NoRequest
<1>4. e \in RequestType
  BY <1>1, <1>2, NoRequestType DEF RequestType
<1>5. request' = [request EXCEPT ![r] = e] /\ request'[r] = e
  BY Serving DEF LoadTask, TypeOK
<1>6. task[t].state \in RowStates(kind) /\ kind \notin {"check", "assign", "vacols", "commit", "review"}
  BY <1>1 DEF RowStates, ActionableStates, Completions, Moving
<1>7. LoadedOk(x)'
  BY <1>2, NothingChanges DEF LoadTask, outside
<1> HIDE DEF e
<1>8. RequestOk(r)'
  BY <1>1, <1>3, <1>5, <1>6, <1>7 DEF RequestOk
<1> QED
  BY <1>3, <1>4, <1>5, <1>6, <1>8, Serving, ReadRequest DEF LoadTask, At

LEMMA StartStep ==
    ASSUME IInv, NEW r \in Requests, Start(r)
    PROVE  Steady /\ IInv'
<1> DEFINE x == request[r].row
<1>1. LoadedOk(x) /\ x[2].state = "assigned" /\ request[r].pc = "show" /\ Respond(r)
  BY LoadedRow DEF Start, At, RowStates
<1>2. CASE Fresh(x)
  <2> DEFINE row == [x[2] EXCEPT !.state = "started"]
  <2> x[2] \in Rows
    BY <1>1, <1>2, FreshRow
  <2>1. row.state = "started" /\ row.ref = x[2].ref /\ row.status = x[2].status /\ row \in Rows
    BY DEF Rows
  <2>2. Event(x[2], row)
    BY <1>1 DEF Event
  <2>3. row.status = "none" /\ "none" \notin MovedStatuses
    BY <1>1, <1>2, <2>1, FreshRow DEF MovedStatuses
  <2>4. Save(x, row) /\ UNCHANGED <<claims, moved, outside, old, job, faults>>
    BY <1>2 DEF Start, outside, row
  <2> HIDE DEF row
  <2>5. Steady /\ Quiet /\ RefsOk' /\ \A t \in Tasks \ {x[1]} : task'[t] = task[t]
    BY <1>1, <1>2, <2>1, <2>2, <2>3, <2>4, SaveSteady
  <2>6. Unlocked(x[1])
    BY <1>1, <1>2, NotHeld
  <2> QED
    BY <1>1, <1>2, <2>4, <2>5, <2>6, SaveAndRespond DEF At, Unlocked, Held
<1>3. CASE ~ Fresh(x)
  BY <1>1, <1>3, Serving, RespondOnly DEF Start, At
<1> QED
  BY <1>2, <1>3

LEMMA PerformStep ==
    ASSUME IInv, NEW r \in Requests, Perform(r)
    PROVE  Steady /\ IInv'
<1> DEFINE a == request[r].row[2].appeal
<1>1. /\ LoadedOk(request[r].row) /\ request[r].row[2].state = "started" /\ a \in Appeals
      /\ request[r].pc = "perform" /\ request[r].user \in Users
  BY LoadedRow DEF Perform, At, RowStates, LoadedOk
<1>2. CASE a \in claims
  BY <1>1, <1>2, Serving, RespondOnly DEF Perform, At, outside
<1>3. CASE a \notin claims
  <2> DEFINE e == [request[r] EXCEPT !.pc = "review"]
  <2>1. /\ e \in RequestType /\ e.pc = "review" /\ e.user = request[r].user
        /\ e.batch = request[r].batch /\ e.row = request[r].row
        /\ request' = [request EXCEPT ![r] = e] /\ request'[r] = e
        /\ claims' = claims \union {a}
    BY <1>3, Serving DEF Perform, Goto, RequestType, TypeOK
  <2>2. Steady /\ Quiet
    BY <2>1, Serving DEF Steady, Quiet, Perform, TypeOK
  <2>3. RefsOk' /\ claims' \subseteq Appeals
    BY <1>1, <2>1, Serving DEF RefsOk, Perform, IInv, Rest, TypeOK
  <2>4. ClaimsAccounted'
    <3> SUFFICES ASSUME NEW c \in claims'
        PROVE  \/ \E t \in Of(c)' : task'[t].ref \/ task'[t].state = "completed"
               \/ \E q \in Requests : At(q, "review")' /\ request'[q].row[2].appeal = c
               \/ faults' > 0
      BY DEF ClaimsAccounted
    <3>1. CASE c = a
      BY <2>1, <3>1 DEF At
    <3>2. CASE c # a
      <4>1. c \in claims /\ c \in Appeals /\ \A q \in Requests : At(q, "review") => q # r
        BY <1>1, <2>1, <3>2, Serving DEF At, TypeOK
      <4>2. \A q \in Requests : At(q, "review") => request'[q] = request[q]
        BY <2>1, <4>1, Serving DEF TypeOK
      <4>3. Of(c)' = Of(c) /\ task' = task /\ faults' = faults
        BY DEF Perform, Of, Existing
      <4> QED
        BY <4>1, <4>2, <4>3 DEF IInv, ClaimsAccounted, At
    <3> QED
      BY <3>1, <3>2
  <2> HIDE DEF e
  <2>5. RequestOk(r)'
    <3> SUFFICES ASSUME NEW x, x = request[r].row, NEW batch, batch = request[r].batch
        PROVE  RequestOk(r)'
      OBVIOUS
    <3>1. \A y : LoadedOk(y) => LoadedOk(y)'
      BY <2>2, Serving, LoadedStays
    <3>2. /\ LoadedOk(x)' /\ x[2].appeal \in claims' /\ x[2].state = "started"
          /\ \A y \in batch : LoadedOk(y)' /\ y[2].state = "unassigned" /\ y[2].user = None
      BY <1>1, <2>1, <3>1, Serving DEF RequestOk
    <3>3. "review" \notin Completions /\ RowStates("review") = {"started"}
      BY DEF Completions, Moving, RowStates
    <3> QED
      BY <1>1, <2>1, <3>2, <3>3 DEF RequestOk
  <2>6. HeldKept(Requests \ {r})
    BY DEF HeldKept, Perform
  <2> QED
    BY <2>1, <2>2, <2>3, <2>4, <2>5, <2>6, Serving, RequestStep DEF Perform
<1> QED
  BY <1>2, <1>3

LEMMA ReviewStep ==
    ASSUME IInv, NEW r \in Requests, Review(r)
    PROVE  Steady /\ IInv'
<1> DEFINE x == request[r].row
<1>1. /\ LoadedOk(x) /\ x[2].state = "started" /\ request[r].pc = "review" /\ Respond(r)
      /\ x[2].appeal \in claims /\ Unlocked(x[1])
      /\ x[1] \in Of(x[2].appeal) /\ x[2].appeal \in Appeals
  BY LoadedRow, Serving DEF Review, At, RowStates, RequestOk, LoadedOk
<1>2. CASE Fresh(x)
  <2> DEFINE row == [x[2] EXCEPT !.state = "reviewed", !.ref = TRUE]
  <2> x[2] \in Rows
    BY <1>1, <1>2, FreshRow
  <2>1. row.state = "reviewed" /\ row.ref = TRUE /\ row.status = x[2].status /\ row \in Rows
    BY DEF Rows
  <2>2. Event(x[2], row)
    BY <1>1 DEF Event
  <2>3. row.status = "none" /\ "none" \notin MovedStatuses
    BY <1>1, <1>2, <2>1, FreshRow DEF MovedStatuses
  <2>4. Save(x, row) /\ UNCHANGED <<claims, moved, outside, old, job, faults>>
    BY <1>2 DEF Review, outside, row
  <2> HIDE DEF row
  <2>5. /\ Steady /\ Quiet /\ RefsOk' /\ task'[x[1]] = row
        /\ \A t \in Tasks \ {x[1]} : task'[t] = task[t]
    BY <1>1, <1>2, <2>1, <2>2, <2>3, <2>4, SaveSteady
  <2>6. Accounted(r)
    BY <1>1, <2>1, <2>5 DEF Accounted
  <2> QED
    BY <1>1, <1>2, <2>4, <2>5, <2>6, SaveAndRespond DEF Unlocked, Held
<1>3. CASE ~ Fresh(x)
  <2>1. task[x[1]].ref \/ task[x[1]].state = "completed"
    BY <1>1, <1>3 DEF LoadedOk, IInv, Rest, RowsOk, Of, Existing
  <2>2. Accounted(r)
    BY <1>1, <1>3, <2>1 DEF Review, Accounted
  <2> QED
    BY <1>1, <1>3, <2>2, Serving, RespondOnly DEF Review
<1> QED
  BY <1>2, <1>3

\* The row a request completes its task with.
LEMMA CompletedRowOk ==
    ASSUME IInv, NEW r \in Requests, request[r].kind \in Completions,
           LET x == request[r].row
           IN  LoadedOk(x) /\ Fresh(x) /\ x[2].state \in {"started", "reviewed"}
    PROVE  LET x == request[r].row
           IN  /\ CompletedRow(r) \in Rows /\ Event(x[2], CompletedRow(r))
               /\ CompletedRow(r).state = "completed"
               /\ CompletedRow(r).status = StatusAfter(request[r].kind, x[2])
               /\ CompletedRow(r).status # "expired"
               /\ request[r].kind \notin Moving => CompletedRow(r).status \notin MovedStatuses
               /\ CompletedRow(r).status = "routed" => x[2].appeal \in claims
<1> DEFINE row == request[r].row[2]
           kind == request[r].kind
           next == Completed(row, StatusAfter(kind, row))
<1>1. row \in Rows /\ task[request[r].row[1]] = row /\ request[r].row[1] \in Tasks
  BY FreshRow
<1>2. /\ StatusAfter(kind, row) \in Completions \union {"routed", "vacols_routed"}
      /\ StatusAfter(kind, row) = "routed" => row.ref
      /\ kind \notin Moving => StatusAfter(kind, row) \notin MovedStatuses
      /\ StatusAfter(kind, row) # "expired"
  BY DEF StatusAfter, Completions, Moving, MovedStatuses
<1>3. CompletedRow(r) = IF kind = "assign_existing" THEN [next EXCEPT !.ref = TRUE] ELSE next
  BY DEF CompletedRow
<1> HIDE DEF kind
<1>4. next \in Rows /\ next.state = "completed" /\ next.status = StatusAfter(kind, row)
  BY <1>1, <1>2 DEF Completed, Rows
<1>5. next = [Completed(row, next.status) EXCEPT !.ref = next.ref]
  BY <1>1, <1>4 DEF Completed, Rows
<1>6. row.ref => row.appeal \in claims
  BY <1>1 DEF IInv, Rest, RefsOk
<1>7. CASE kind = "assign_existing"
  <2> DEFINE done == [next EXCEPT !.ref = TRUE]
  <2> HIDE DEF next
  <2>1. done \in Rows /\ done.state = "completed" /\ done.status = next.status /\ done.ref = TRUE
    BY <1>4 DEF Rows
  <2>2. done = [Completed(row, done.status) EXCEPT !.ref = done.ref]
    BY <1>1, <1>4, <1>5, <2>1 DEF Rows, Completed
  <2>3. Event(row, done)
    BY <2>2 DEF Event
  <2> QED
    BY <1>2, <1>3, <1>4, <1>6, <1>7, <2>1, <2>3 DEF kind
<1>8. CASE kind # "assign_existing"
  <2>1. Event(row, next)
    BY <1>5 DEF Event
  <2> HIDE DEF next
  <2> QED
    BY <1>2, <1>3, <1>4, <1>6, <1>8, <2>1 DEF kind
<1> QED
  BY <1>7, <1>8

\* The row is completed, by a request that holds it alone.
LEMMA CompletingStep ==
    ASSUME IInv, NEW r \in Requests, request[r].kind \in Completions,
           LET x == request[r].row
           IN  /\ LoadedOk(x) /\ Fresh(x) /\ x[2].state \in {"started", "reviewed"}
               /\ request[r].kind \in Moving => moved[x[2].appeal] > 0
               /\ \A q \in Requests \ {r} : Held(q) => request[q].row[1] # x[1],
           Save(request[r].row, CompletedRow(r)), Respond(r), ~ At(r, "review"),
           UNCHANGED <<old, outside, job, faults>>
    PROVE  Steady /\ IInv'
<1> DEFINE x == request[r].row
           row == CompletedRow(r)
<1>1. /\ row \in Rows /\ Event(x[2], row) /\ row.state = "completed"
      /\ row.status # "expired" /\ (row.status = "routed" => x[2].appeal \in claims)
      /\ (request[r].kind \notin Moving => row.status \notin MovedStatuses)
  BY CompletedRowOk
<1> HIDE DEF row
<1>2. Save(x, row) /\ UNCHANGED <<claims, moved>>
  BY DEF outside, row
<1>3. /\ Steady /\ Quiet /\ RefsOk' /\ \A t \in Tasks \ {x[1]} : task'[t] = task[t]
  BY <1>1, <1>2, SaveSteady
<1> QED
  BY <1>3, SaveAndRespond

LEMMA CompleteStep ==
    ASSUME IInv, NEW r \in Requests, Complete(r)
    PROVE  Steady /\ IInv'
<1>1. /\ LoadedOk(request[r].row) /\ request[r].row[2].state \in {"started", "reviewed"}
      /\ request[r].kind = request[r].pc /\ request[r].pc \in Completions \ Moving
      /\ request[r].pc # "review" /\ Respond(r) /\ Unlocked(request[r].row[1])
  BY LoadedRow, Serving DEF Complete, Completions, Moving, RowStates, RequestOk
<1>2. CASE Fresh(request[r].row)
  BY <1>1, <1>2, CompletingStep DEF Complete, At, Unlocked, Held
<1>3. CASE ~ Fresh(request[r].row)
  BY <1>1, <1>3, Serving, RespondOnly DEF Complete, At
<1> QED
  BY <1>2, <1>3

LEMMA LockTaskStep ==
    ASSUME IInv, NEW r \in Requests, LockTask(r)
    PROVE  Steady /\ IInv'
<1>1. /\ LoadedOk(request[r].row) /\ request[r].row[2].state \in {"started", "reviewed"}
      /\ request[r].kind = request[r].pc /\ request[r].pc \in Moving
      /\ request[r].pc # "review" /\ Unlocked(request[r].row[1]) /\ request[r].user \in Users
  BY LoadedRow, Serving DEF LockTask, Completions, Moving, RowStates, RequestOk
<1>2. CASE ~ Fresh(request[r].row)
  BY <1>1, <1>2, Serving, RespondOnly DEF LockTask, At
<1>3. CASE Fresh(request[r].row)
  <2> SUFFICES ASSUME NEW x, x = request[r].row, NEW batch, batch = request[r].batch
      PROVE  Steady /\ IInv'
    OBVIOUS
  <2> DEFINE e == [request[r] EXCEPT !.pc = "vacols"]
  <2>1. /\ e \in RequestType /\ e.pc = "vacols" /\ e.user = request[r].user
        /\ e.batch = batch /\ e.row = x /\ e.kind = request[r].kind
        /\ request' = [request EXCEPT ![r] = e] /\ request'[r] = e
    BY <1>3, Serving DEF LockTask, Goto, RequestType, TypeOK
  <2> HIDE DEF e
  <2>2. \A y : LoadedOk(y) => LoadedOk(y)'
    BY NothingChanges DEF LockTask, outside
  <2>3. /\ LoadedOk(x)' /\ x[2].state \in RowStates("vacols") /\ Fresh(x)'
        /\ \A y \in batch : LoadedOk(y)' /\ y[2].state = "unassigned" /\ y[2].user = None
    BY <1>1, <1>3, <2>2, Serving DEF RequestOk, Fresh, LockTask, RowStates
  <2>4. RequestOk(r)'
    BY <1>1, <2>1, <2>3 DEF RequestOk, Completions, Moving
  <2> QED
    BY <1>1, <2>1, <2>4, Serving, ReadRequest DEF LockTask, At, Unlocked, Held
<1> QED
  BY <1>2, <1>3

LEMMA UpdateVacolsStep ==
    ASSUME IInv, NEW r \in Requests, UpdateVacols(r)
    PROVE  Steady /\ IInv'
<1> SUFFICES ASSUME NEW x, x = request[r].row, NEW batch, batch = request[r].batch
    PROVE  Steady /\ IInv'
  OBVIOUS
<1>1. /\ LoadedOk(x) /\ x[2].state \in {"started", "reviewed"} /\ x[2].appeal \in Appeals
      /\ request[r].kind \in Moving /\ request[r].pc = "vacols" /\ Fresh(x)
      /\ request[r].user \in Users
  BY LoadedRow, Serving DEF UpdateVacols, At, Completions, Moving, RowStates, RequestOk, LoadedOk
<1> DEFINE e == [request[r] EXCEPT !.pc = "commit"]
<1>2. /\ e \in RequestType /\ e.pc = "commit" /\ e.user = request[r].user
      /\ e.batch = batch /\ e.row = x /\ e.kind = request[r].kind
      /\ request' = [request EXCEPT ![r] = e] /\ request'[r] = e
  BY Serving DEF UpdateVacols, Goto, RequestType, TypeOK
<1> HIDE DEF e
<1>3. Steady /\ Quiet /\ moved'[x[2].appeal] > 0
  BY <1>1, Serving DEF UpdateVacols, Steady, Quiet, TypeOK
<1>4. RefsOk' /\ \A y : LoadedOk(y) => LoadedOk(y)'
  BY <1>3, Serving, LoadedStays DEF UpdateVacols, RefsOk, IInv, Rest
<1>5. ClaimsAccounted'
  BY <1>1, <1>2, <1>3, Serving, ClaimsKept DEF UpdateVacols, Accounted, At, TypeOK
<1>6. /\ LoadedOk(x)' /\ x[2].state \in RowStates("commit") /\ Fresh(x)'
      /\ \A y \in batch : LoadedOk(y)' /\ y[2].state = "unassigned" /\ y[2].user = None
  BY <1>1, <1>4, Serving DEF RequestOk, Fresh, UpdateVacols, RowStates
<1>7. RequestOk(r)'
  BY <1>1, <1>2, <1>3, <1>6 DEF RequestOk, Completions, Moving
<1>8. \A q \in Requests \ {r} : Held(q) => request[q].row[1] # e.row[1]
  BY <1>1, <1>2 DEF IInv, Rest, OneHolder, Held
<1>9. HeldKept(Requests \ {r}) /\ claims' \subseteq Appeals
  BY Serving DEF HeldKept, UpdateVacols, TypeOK
<1> QED
  BY <1>2, <1>3, <1>4, <1>5, <1>7, <1>8, <1>9, Serving, RequestStep DEF UpdateVacols

LEMMA CommitStep ==
    ASSUME IInv, NEW r \in Requests, Commit(r)
    PROVE  Steady /\ IInv'
<1>1. /\ LoadedOk(request[r].row) /\ request[r].row[2].state \in {"started", "reviewed"}
      /\ request[r].kind \in Moving /\ request[r].pc = "commit" /\ Fresh(request[r].row)
      /\ moved[request[r].row[2].appeal] > 0
  BY LoadedRow, Serving DEF Commit, At, Completions, Moving, RowStates, RequestOk
<1>2. \A q \in Requests \ {r} : Held(q) => request[q].row[1] # request[r].row[1]
  BY <1>1 DEF IInv, Rest, OneHolder, Held
<1> QED
  BY <1>1, <1>2, CompletingStep DEF Commit, At, Completions

LEMMA FailRequestStep ==
    ASSUME IInv, NEW r \in Requests, FailRequest(r)
    PROVE  Steady /\ IInv'
<1>1. faults' > 0 /\ faults' \in 0..MaxFaults /\ faults <= faults'
  BY Serving, BoundsAssumption DEF FailRequest
<1> QED
  BY <1>1, RespondOnly DEF FailRequest, Accounted
-----------------------------------------------------------------------------
(* The actions of the jobs *)

LEMMA StartJobStep ==
    ASSUME IInv, NEW j \in Jobs, NEW kind \in {"prepare", "reassign"}, StartJob(j, kind)
    PROVE  Steady /\ IInv'
<1> DEFINE S == IF kind = "prepare" THEN {t \in Existing : task[t].state = "unprepared"}
                ELSE NotCompleted
           e == [kind |-> kind, batch |-> Load(S)]
<1>1. TypeOK /\ RowsOk /\ faults \in 0..MaxFaults /\ faults <= faults
  BY BoundsAssumption DEF IInv, Rest, TypeOK
<1>2. S \subseteq Existing /\ S \subseteq Tasks
  BY DEF NotCompleted, ToComplete, Existing
<1>3. \A x \in Load(S) :
          /\ LoadedOk(x) /\ x \in LoadedRows
          /\ kind = "prepare" => x[2].state = "unprepared"
          /\ kind = "reassign" => x[2].user # None /\ x[2].state # "completed"
  <2> SUFFICES ASSUME NEW t \in S, NEW x, x = <<t, task[t]>>
      PROVE  /\ LoadedOk(x) /\ x \in LoadedRows
             /\ kind = "prepare" => x[2].state = "unprepared"
             /\ kind = "reassign" => x[2].user # None /\ x[2].state # "completed"
    BY DEF Load
  <2>1. LoadedOk(x)
    BY <1>1, <1>2 DEF LoadedOk, LoadedRows, Of, Fresh, RowsOk, Existing, TypeOK
  <2> QED
    BY <2>1 DEF LoadedOk, NotCompleted, ToComplete
<1>4. e \in JobType /\ e.kind = kind /\ e.batch = Load(S)
  BY <1>3 DEF JobType
<1>5. job' = [job EXCEPT ![j] = e] /\ job'[j] = e
  BY <1>1 DEF StartJob, TypeOK
<1>6. \A x \in Load(S) : LoadedOk(x)'
  BY <1>3, NothingChanges DEF StartJob, outside
<1> HIDE DEF e
<1>7. JobOk(j)'
  BY <1>3, <1>4, <1>5, <1>6 DEF JobOk
<1> QED
  BY <1>1, <1>4, <1>5, <1>7, ReadJob DEF StartJob

\* What remains of an execution that stops or goes on to its next row.
LEMMA JobGoesOn ==
    ASSUME IInv, Steady, NEW j \in Jobs, NEW x \in job[j].batch, Done(j, x) \/ Stop(j)
    PROVE  \E e \in JobType : job' = [job EXCEPT ![j] = e] /\ JobOk(j)'
<1>1. TypeOK /\ job[j] \in JobType /\ JobOk(j)
  BY DEF IInv, Rest, TypeOK, JobType
<1>2. CASE Stop(j)
  <2>1. job' = [job EXCEPT ![j] = NoJob] /\ job'[j] = NoJob /\ NoJob.batch = {}
    BY <1>1, <1>2 DEF Stop, TypeOK, NoJob
  <2> QED
    BY <2>1, NoRequestType DEF JobOk
<1>3. CASE ~ Stop(j)
  <2> DEFINE e == [job[j] EXCEPT !.batch = @ \ {x}]
  <2>1. /\ e \in JobType /\ e.kind = job[j].kind /\ e.batch = job[j].batch \ {x}
        /\ job' = [job EXCEPT ![j] = e] /\ job'[j] = e
    BY <1>1, <1>3 DEF Done, TypeOK, JobType
  <2>2. \A y \in job[j].batch : LoadedOk(y)'
    BY <1>1, LoadedStays DEF JobOk
  <2> HIDE DEF e
  <2>3. JobOk(j)'
    BY <1>1, <2>1, <2>2 DEF JobOk
  <2> QED
    BY <2>1, <2>3
<1> QED
  BY <1>2, <1>3

\* The execution looks at the database and stops or goes on.
LEMMA PassOver ==
    ASSUME IInv, NEW j \in Jobs, NEW x \in job[j].batch, Done(j, x) \/ Stop(j),
           UNCHANGED <<task, old, outside, request, faults>>
    PROVE  Steady /\ IInv'
<1>1. Steady /\ faults' \in 0..MaxFaults /\ faults <= faults'
  BY NothingChanges, BoundsAssumption DEF IInv, TypeOK, outside
<1> QED
  BY <1>1, JobGoesOn, ReadJob

LEMMA PrepareTaskStep ==
    ASSUME IInv, NEW j \in Jobs, NEW x \in job[j].batch, PrepareTask(j, x)
    PROVE  Steady /\ IInv'
<1>1. LoadedOk(x) /\ x[2].state = "unprepared"
  BY DEF PrepareTask, Running, IInv, Rest, JobOk
<1>2. CASE ~ Fresh(x)
  BY <1>2, PassOver DEF PrepareTask
<1>3. CASE Fresh(x)
  <2> x[2] \in Rows
    BY <1>1, <1>3, FreshRow
  <2> DEFINE row == IF x[2].appeal \in active THEN Completed(x[2], "invalidated")
                    ELSE [x[2] EXCEPT !.state = "unassigned"]
  <2>1. /\ row \in Rows /\ Event(x[2], row) /\ (row.ref => x[2].ref)
        /\ row.status \in {"none", "invalidated"}
    BY <1>1, <1>3, FreshRow DEF Completed, Rows, Event
  <2>2. {"none", "invalidated"} \intersect (MovedStatuses \union {"expired", "routed"}) = {}
    BY DEF MovedStatuses
  <2>3. Save(x, row) /\ UNCHANGED <<claims, moved>> /\ Done(j, x)
    BY <1>3 DEF PrepareTask, outside
  <2> HIDE DEF row
  <2>4. Steady /\ Quiet /\ RefsOk' /\ \A t \in Tasks \ {x[1]} : task'[t] = task[t]
    BY <1>1, <1>3, <2>1, <2>2, <2>3, SaveSteady
  <2>5. Unlocked(x[1])
    BY <1>1, <1>3, NotHeld
  <2> QED
    BY <1>1, <1>3, <2>3, <2>4, <2>5, JobGoesOn, SaveJob DEF PrepareTask
<1> QED
  BY <1>2, <1>3

\* The rows when those in S are completed and t is created for a.
RowsWith(a, t, S) ==
    [s \in Tasks |-> IF s = t THEN NewRow(a)
                     ELSE IF s \in S THEN Completed(task[s], "expired") ELSE task[s]]

\* The rows of an appeal are completed, and one more is created.
LEMMA RowAdded ==
    ASSUME IInv, NEW a \in Appeals, NEW t \in Tasks, NextId(t), NEW S \in SUBSET Of(a),
           \A s \in S : task[s].state \in {"started", "reviewed"},
           \A s \in Of(a) \ S : task[s].state = "completed",
           task' = RowsWith(a, t, S), UNCHANGED <<claims, moved>>
    PROVE  Steady /\ RowsOk' /\ Dense' /\ RefsOk' /\ OneOpenTask' /\ RoutedInVacols'
<1>1. TypeOK /\ RowsOk /\ Dense /\ RefsOk /\ OneOpenTask /\ RoutedInVacols
  BY DEF IInv, Rest
<1>2. /\ t \notin Existing /\ task[t] = NoTask /\ S \subseteq Existing /\ S \subseteq Tasks
      /\ Existing \subseteq Tasks /\ \A s \in Existing : s < t
  <2>1. t \notin Existing /\ task[t] = NoTask /\ S \subseteq Existing /\ Existing \subseteq Tasks
    BY <1>1 DEF NextId, Existing, RowsOk, Of
  <2>2. ASSUME NEW s \in Existing PROVE s < t
    <3>1. s \in Nat /\ t \in Nat /\ t >= 1 /\ s # t /\ 1..s \subseteq Existing
      BY <1>1, <2>1, BoundsAssumption DEF Tasks, Dense
    <3> QED
      BY <2>1, <3>1
  <2> QED BY <2>1, <2>2
<1>3. /\ NewRow(a) \in Rows /\ NewRow(a).state = "unprepared" /\ NewRow(a).user = None
      /\ NewRow(a).appeal = a /\ NewRow(a).status = "none" /\ NewRow(a).ref = FALSE
  BY DEF NewRow, NoTask, Rows
<1>4. ASSUME NEW s \in S
      PROVE  LET done == Completed(task[s], "expired")
             IN  /\ done \in Rows /\ done.state = "completed" /\ done.status = "expired"
                 /\ done.appeal = a /\ Event(task[s], done)
  <2> DEFINE done == Completed(task[s], "expired")
  <2>1. task[s] \in Rows /\ task[s].appeal = a /\ task[s].state \in {"started", "reviewed"}
    BY <1>1, <1>2 DEF TypeOK, Of
  <2>2. done \in Rows /\ done.state = "completed" /\ done.status = "expired" /\ done.appeal = a
    BY <2>1 DEF Completed, Rows
  <2>3. done = [Completed(task[s], done.status) EXCEPT !.ref = done.ref]
    BY <2>1 DEF Completed, Rows
  <2> QED
    BY <2>1, <2>2, <2>3 DEF Event
<1>5. /\ task'[t] = NewRow(a)
      /\ \A s \in S : task'[s] = Completed(task[s], "expired")
      /\ \A s \in Tasks \ (S \union {t}) : task'[s] = task[s]
  BY <1>2 DEF RowsWith
<1>6. Steady
  <2>1. task' \in [Tasks -> Rows]
    BY <1>1, <1>3, <1>4 DEF TypeOK, RowsWith
  <2>2. Event(task[t], task'[t])
    BY <1>2, <1>5 DEF Event
  <2> QED
    BY <1>1, <1>4, <1>5, <2>1, <2>2 DEF Steady, TypeOK
<1>7. /\ Existing' = Existing \union {t} /\ Of(a)' = Of(a) \union {t}
      /\ \A b \in Appeals \ {a} : Of(b)' = Of(b)
  <2>1. Existing' = Existing \union {t}
    BY <1>2, <1>3, <1>4, <1>5 DEF Existing
  <2>2. \A s \in Existing : task'[s].appeal = task[s].appeal
    BY <1>1, <1>6, ExistingStays
  <2> QED
    BY <1>3, <1>5, <2>1, <2>2 DEF Of
<1>8. RowsOk'
  BY <1>1, <1>3, <1>4, <1>5 DEF RowsOk
<1>9. Dense'
  <2>1. t \in Nat /\ 1..(t - 1) \subseteq Existing
    BY BoundsAssumption DEF NextId, Tasks
  <2>2. 1..t \subseteq Existing \union {t}
    BY <2>1
  <2> QED
    BY <1>1, <1>7, <2>2 DEF Dense
<1>10. RefsOk'
  BY <1>1, <1>3, <1>4, <1>5 DEF RefsOk
<1>11. OneOpenTask'
  <2>1. ASSUME NEW b \in Appeals, NEW p \in Of(b)', NEW q \in Of(b)',
               task'[p].state # "completed", task'[q].state # "completed"
        PROVE  p = q
    <3>1. CASE b = a
      BY <1>4, <1>5, <1>7, <2>1, <3>1 DEF Of, Existing
    <3>2. CASE b # a
      <4>1. p \in Of(b) /\ q \in Of(b) /\ p \notin S \union {t} /\ q \notin S \union {t}
        BY <1>2, <1>7, <3>2 DEF Of
      <4> QED
        BY <1>1, <1>5, <2>1, <4>1 DEF OneOpenTask, Of, Existing
    <3> QED BY <3>1, <3>2
  <2>2. ASSUME NEW b \in Appeals, NEW p \in Of(b)', task'[p].status = "expired"
        PROVE  \E q \in Of(b)' : q > p
    <3>1. CASE b = a
      BY <1>2, <1>3, <1>5, <1>7, <2>2, <3>1 DEF Of, Existing, Tasks
    <3>2. CASE b # a
      <4>1. p \in Of(b) /\ p \notin S \union {t}
        BY <1>2, <1>7, <3>2 DEF Of
      <4>2. task[p].status = "expired"
        BY <1>5, <2>2, <4>1 DEF Of, Existing
      <4> QED
        BY <1>1, <1>7, <3>2, <4>1, <4>2 DEF OneOpenTask
    <3> QED BY <3>1, <3>2
  <2> QED
    BY <2>1, <2>2 DEF OneOpenTask
<1>12. RoutedInVacols'
  BY <1>1, <1>3, <1>4, <1>5, <1>7 DEF RoutedInVacols, MovedStatuses, Existing
<1> QED
  BY <1>6, <1>8, <1>9, <1>10, <1>11, <1>12

\* The rest of the state, when a row is added for an appeal and S is completed.
LEMMA RowAddedStep ==
    ASSUME IInv, Steady, RowsOk', Dense', RefsOk', OneOpenTask', RoutedInVacols',
           HeldKept(Requests), UNCHANGED <<old, outside, request, faults>>,
           job' \in [Jobs -> JobType], \A j \in Jobs : JobOk(j)'
    PROVE  IInv'
<1>1. TypeOK /\ OneHolder
  BY DEF IInv, Rest
<1>2. TypeOK'
  BY <1>1 DEF TypeOK, Steady, JobType, outside
<1>3. \A q \in Requests : RequestOk(q)'
  BY RequestStays DEF HeldKept
<1>4. OneHolder'
  BY <1>1 DEF OneHolder, Held
<1>5. ClaimsAccounted'
  BY <1>1, ClaimsKept DEF outside, Accounted, TypeOK
<1> QED
  BY <1>2, <1>3, <1>4, <1>5 DEF IInv, Rest

LEMMA CreateTaskStep ==
    ASSUME IInv, NEW a \in Appeals, CreateTask(a)
    PROVE  Steady /\ IInv'
<1>1. PICK t \in Tasks : NextId(t) /\ task' = [task EXCEPT ![t] = NewRow(a)]
  BY DEF CreateTask
<1>2. task' = RowsWith(a, t, {})
  BY <1>1 DEF IInv, TypeOK, RowsWith
<1>3. Of(a) = {} /\ UNCHANGED <<claims, moved>>
  BY DEF CreateTask, outside
<1>4. Steady /\ RowsOk' /\ Dense' /\ RefsOk' /\ OneOpenTask' /\ RoutedInVacols'
  <2>1. /\ {} \in SUBSET Of(a) /\ \A s \in {} : task[s].state \in {"started", "reviewed"}
        /\ \A s \in Of(a) \ {} : task[s].state = "completed"
    BY <1>3
  <2> QED
    BY <1>1, <1>2, <1>3, <2>1, RowAdded
<1>5. HeldKept(Requests)
  <2> SUFFICES ASSUME NEW q \in Requests, Held(q)
      PROVE  task'[request[q].row[1]] = task[request[q].row[1]]
    BY DEF HeldKept
  <2>1. request[q].row[1] \in Existing
    BY LoadedRow DEF Held, LoadedOk, Of
  <2> QED
    BY <1>1, <1>2, <2>1 DEF NextId, Existing, RowsWith
<1>6. job' \in [Jobs -> JobType] /\ \A j \in Jobs : JobOk(j)'
  BY <1>4, JobStays DEF CreateTask, IInv, TypeOK, JobType
<1> QED
  BY <1>4, <1>5, <1>6, RowAddedStep DEF CreateTask

LEMMA ExpireStep ==
    ASSUME IInv, NEW j \in Jobs, NEW x \in job[j].batch, Expire(j, x)
    PROVE  Steady /\ IInv'
<1> SUFFICES ASSUME NEW a, a = x[2].appeal, NEW S, S = {x[1]}
    PROVE  Steady /\ IInv'
  OBVIOUS
<1>1. /\ LoadedOk(x) /\ Fresh(x) /\ x[2].user # None /\ Unlocked(x[1])
      /\ x[2].state \notin {"completed", "assigned"}
  BY DEF Expire, Running, Unexpirable, IInv, Rest, JobOk
<1>2. /\ x[1] \in Tasks /\ task[x[1]] = x[2] /\ a \in Appeals /\ x[1] \in Of(a)
      /\ x[2].state \in {"started", "reviewed"}
  <2>1. x[1] \in Tasks /\ task[x[1]] = x[2] /\ a \in Appeals /\ x[1] \in Of(a) /\ x[2] \in Rows
    BY <1>1, FreshRow
  <2>2. x[2].state \notin {"none", "unprepared", "unassigned"}
    BY <1>1, <2>1 DEF IInv, Rest, RowsOk, NoTask
  <2> QED
    BY <1>1, <2>1, <2>2 DEF Rows
<1>3. PICK t \in Tasks :
          /\ NextId(t)
          /\ task' = [task EXCEPT ![x[1]] = Completed(x[2], "expired"), ![t] = NewRow(a)]
  BY DEF Expire
<1>4. t # x[1]
  BY <1>2, <1>3 DEF NextId, Of
<1>5. task' = RowsWith(a, t, S)
  BY <1>2, <1>3, <1>4 DEF IInv, TypeOK, RowsWith
<1>6. S \in SUBSET Of(a) /\ \A s \in S : task[s].state \in {"started", "reviewed"}
  BY <1>2
<1>7. \A s \in Of(a) \ S : task[s].state = "completed"
  BY <1>1, <1>2 DEF IInv, OneOpenTask
<1>8. UNCHANGED <<claims, moved>>
  BY DEF Expire, outside
<1>9. Steady /\ RowsOk' /\ Dense' /\ RefsOk' /\ OneOpenTask' /\ RoutedInVacols'
  <2>1. a \in Appeals /\ t \in Tasks /\ NextId(t) /\ S \in SUBSET Of(a)
    BY <1>2, <1>3, <1>6
  <2>2. \A s \in S : task[s].state \in {"started", "reviewed"}
    BY <1>6
  <2> QED
    BY <1>5, <1>7, <1>8, <2>1, <2>2, RowAdded
<1>10. HeldKept(Requests)
  <2> SUFFICES ASSUME NEW q \in Requests, Held(q)
      PROVE  task'[request[q].row[1]] = task[request[q].row[1]]
    BY DEF HeldKept
  <2>1. request[q].row[1] \in Existing /\ request[q].row[1] # x[1]
    BY <1>1, LoadedRow DEF Held, LoadedOk, Of, Unlocked
  <2> QED
    BY <1>3, <1>5, <2>1 DEF NextId, Existing, RowsWith
<1>11. job' \in [Jobs -> JobType] /\ \A i \in Jobs : JobOk(i)'
  <2>1. PICK e \in JobType : job' = [job EXCEPT ![j] = e] /\ JobOk(j)'
    BY <1>9, JobGoesOn DEF Expire
  <2>2. job \in [Jobs -> JobType]
    BY DEF IInv, TypeOK, JobType
  <2> QED
    BY <1>9, <2>1, <2>2, JobStays
<1> QED
  BY <1>9, <1>10, <1>11, RowAddedStep DEF Expire

LEMMA KillJobStep ==
    ASSUME IInv, NEW j \in Jobs, KillJob(j)
    PROVE  Steady /\ IInv'
<1>1. faults' \in 0..MaxFaults /\ faults <= faults'
  BY BoundsAssumption DEF KillJob, IInv, TypeOK
<1>2. job' = [job EXCEPT ![j] = NoJob] /\ job'[j] = NoJob /\ NoJob.batch = {}
  BY DEF KillJob, Stop, NoJob, IInv, TypeOK
<1>3. JobOk(j)'
  BY <1>2 DEF JobOk
<1> QED
  BY <1>1, <1>2, <1>3, NoRequestType, ReadJob DEF KillJob

-----------------------------------------------------------------------------
(* The days, VACOLS, and the whole *)

\* Nothing that the parts of the invariant look at changes.
LEMMA EnvironmentStep ==
    ASSUME IInv, TypeOK', UNCHANGED <<task, claims, moved, request, job, faults>>
    PROVE  Steady /\ IInv'
<1>1. Steady /\ Quiet /\ RefsOk'
  BY NothingChanges
<1>2. \A q \in Requests : RequestOk(q)'
  BY <1>1, RequestStays
<1>3. \A j \in Jobs : JobOk(j)'
  BY <1>1, JobStays
<1>4. OneHolder' /\ ClaimsAccounted'
  BY DEF OneHolder, Held, ClaimsAccounted, Of, Existing, At, IInv, Rest
<1> QED
  BY <1>1, <1>2, <1>3, <1>4, QuietStep DEF IInv, Rest

LEMMA InitIInv == Init => IInv
<1> SUFFICES ASSUME Init PROVE IInv
  OBVIOUS
<1>1. NoTask \in Rows /\ NoTask.state = "none" /\ NoTask.ref = FALSE /\ NoTask.status = "none"
  BY DEF NoTask, Rows
<1>2. Existing = {} /\ \A a \in Appeals : Of(a) = {}
  BY <1>1 DEF Init, Existing, Of
<1>3. /\ NoRequest \in RequestType /\ NoRequest.pc = "idle" /\ NoRequest.batch = {}
      /\ NoJob \in JobType /\ NoJob.batch = {}
  BY NoRequestType DEF NoRequest, NoJob
<1>4. TypeOK
  BY <1>1, <1>3, BoundsAssumption DEF Init, TypeOK, RequestType, JobType
<1>5. RowsOk /\ Dense /\ RefsOk
  BY <1>1, <1>2 DEF Init, RowsOk, Dense, RefsOk
<1>6. OneHolder /\ \A r \in Requests : RequestOk(r)
  BY <1>3 DEF Init, OneHolder, Held, RequestOk, Completions, Moving
<1>7. \A j \in Jobs : JobOk(j)
  BY <1>3 DEF Init, JobOk
<1>8. OneOpenTask /\ RoutedInVacols /\ ClaimsAccounted
  BY <1>2 DEF Init, OneOpenTask, RoutedInVacols, ClaimsAccounted
<1> QED
  BY <1>4, <1>5, <1>6, <1>7, <1>8 DEF IInv, Rest

\* One step per action: rows change by events only, and the invariant holds on.
LEMMA NextStep ==
    ASSUME IInv, [Next]_vars
    PROVE  Steady /\ IInv'
<1>1. ASSUME NEW a \in Appeals, CreateTask(a) PROVE Steady /\ IInv'
  BY <1>1, CreateTaskStep
<1>2. ASSUME NEW a \in Appeals, Reactivate(a) PROVE Steady /\ IInv'
  BY <1>2, EnvironmentStep DEF Reactivate, IInv, TypeOK
<1>3. CASE NewDay
  BY <1>3, EnvironmentStep DEF NewDay, outside, IInv, TypeOK, Existing
<1>4. ASSUME NEW r \in Requests, NEW u \in Users, AskForTask(r, u) PROVE Steady /\ IInv'
  BY <1>4, AskForTaskStep
<1>5. ASSUME NEW r \in Requests, NEW t \in Tasks,
             NEW kind \in Completions \union {"show", "perform"}, LoadTask(r, t, kind)
      PROVE  Steady /\ IInv'
  BY <1>5, LoadTaskStep
<1>6. ASSUME NEW r \in Requests, Serve(r) PROVE Steady /\ IInv'
  BY <1>6, ConsiderStep, FindAssignableStep, CheckUserStep, AssignStep, StartStep, PerformStep,
     ReviewStep, CompleteStep, LockTaskStep, UpdateVacolsStep, CommitStep DEF Serve
<1>7. ASSUME NEW r \in Requests, FailRequest(r) PROVE Steady /\ IInv'
  BY <1>7, FailRequestStep
<1>8. ASSUME NEW j \in Jobs, NEW kind \in {"prepare", "reassign"}, StartJob(j, kind)
      PROVE  Steady /\ IInv'
  BY <1>8, StartJobStep
<1>9. ASSUME NEW j \in Jobs, NEW x \in job[j].batch,
             PrepareTask(j, x) \/ SkipTask(j, x) \/ Expire(j, x) \/ BreakOff(j, x)
      PROVE  Steady /\ IInv'
  BY <1>9, PrepareTaskStep, ExpireStep, PassOver DEF SkipTask, BreakOff
<1>10. ASSUME NEW j \in Jobs, KillJob(j) PROVE Steady /\ IInv'
  BY <1>10, KillJobStep
<1>11. CASE UNCHANGED vars
  BY <1>11, EnvironmentStep DEF vars, outside, IInv, TypeOK
<1> QED
  BY <1>1, <1>2, <1>3, <1>4, <1>5, <1>6, <1>7, <1>8, <1>9, <1>10, <1>11 DEF Next

-----------------------------------------------------------------------------
(* How often VACOLS is updated *)

\* The tasks of an appeal that say it was moved, and the requests that have
\* moved it and not yet said so.
Marked(a) == {t \in Of(a) : task[t].status \in MovedStatuses}
Going(a)  == {r \in Requests : At(r, "commit") /\ request[r].row[2].appeal = a}

LEMMA Counts ==
    ASSUME TypeOK, NEW a \in Appeals
    PROVE  /\ IsFiniteSet(Marked(a)) /\ Cardinality(Marked(a)) \in Nat
           /\ IsFiniteSet(Going(a)) /\ Cardinality(Going(a)) \in Nat
           /\ moved[a] \in Nat /\ faults \in Nat
<1>1. IsFiniteSet(Tasks)
  BY FS_Interval, BoundsAssumption DEF Tasks
<1>2. Marked(a) \subseteq Tasks /\ Going(a) \subseteq Requests
  BY DEF Marked, Going, Of, Existing
<1>3. IsFiniteSet(Marked(a)) /\ IsFiniteSet(Going(a))
  BY <1>1, <1>2, FiniteAssumption, FS_Subset
<1>4. Cardinality(Marked(a)) \in Nat /\ Cardinality(Going(a)) \in Nat
  BY <1>3, FS_CardinalityType
<1> QED
  BY <1>3, <1>4, BoundsAssumption DEF TypeOK

LEMMA CountsNext ==
    ASSUME TypeOK', NEW a \in Appeals
    PROVE  /\ IsFiniteSet(Marked(a)') /\ Cardinality(Marked(a)') \in Nat
           /\ IsFiniteSet(Going(a)') /\ Cardinality(Going(a)') \in Nat
<1>1. IsFiniteSet(Tasks)
  BY FS_Interval, BoundsAssumption DEF Tasks
<1>2. Marked(a)' \subseteq Tasks /\ Going(a)' \subseteq Requests
  BY DEF Marked, Going, Of, Existing
<1>3. IsFiniteSet(Marked(a)') /\ IsFiniteSet(Going(a)')
  BY <1>1, <1>2, FiniteAssumption, FS_Subset
<1> QED
  BY <1>3, FS_CardinalityType

\* A task that says its appeal was moved is completed, and stays as it is.
LEMMA MarkedStays ==
    ASSUME IInv, Steady, NEW a \in Appeals
    PROVE  Marked(a) \subseteq Marked(a)'
<1> SUFFICES ASSUME NEW t \in Marked(a) PROVE t \in Marked(a)'
  OBVIOUS
<1>1. /\ t \in Of(a) /\ t \in Tasks /\ task[t].status \in MovedStatuses /\ task[t].state # "none"
      /\ TypeOK /\ RowsOk
  BY DEF Marked, Of, Existing, IInv, Rest
<1>2. task[t].state = "completed"
  BY <1>1 DEF RowsOk, MovedStatuses
<1>3. task'[t] = task[t]
  BY <1>1, <1>2, EventKeeps DEF Steady, TypeOK
<1>4. t \in Of(a)'
  BY <1>1, ExistingStays
<1> QED
  BY <1>1, <1>3, <1>4 DEF Marked

\* Requests that are to commit stay so: the count of an appeal does not fall.
LEMMA BoundKept ==
    ASSUME IInv, IInv', Steady, MovesBounded, moved' = moved, faults <= faults',
           \A r \in Requests : At(r, "commit") => request'[r] = request[r]
    PROVE  MovesBounded'
<1> SUFFICES ASSUME NEW a \in Appeals
    PROVE  moved'[a] <= Cardinality(Marked(a)') + Cardinality(Going(a)') + faults'
  BY DEF MovesBounded, Marked, Going
<1>1. TypeOK /\ TypeOK'
  BY DEF IInv
<1>2. moved[a] <= Cardinality(Marked(a)) + Cardinality(Going(a)) + faults
  BY DEF MovesBounded, Marked, Going
<1>3. Going(a) \subseteq Going(a)'
  BY DEF Going, At
<1>4. Cardinality(Marked(a)) <= Cardinality(Marked(a)') /\ Cardinality(Going(a)) <= Cardinality(Going(a)')
  BY <1>1, <1>3, MarkedStays, CountsNext, FS_Subset
<1>5. faults' \in Nat
  BY <1>1, BoundsAssumption DEF TypeOK
<1> QED
  BY <1>1, <1>2, <1>4, <1>5, Counts, CountsNext

LEMMA MoveCounted ==
    ASSUME IInv, IInv', Steady, MovesBounded, NEW r \in Requests, UpdateVacols(r)
    PROVE  MovesBounded'
<1> SUFFICES ASSUME NEW a \in Appeals
    PROVE  moved'[a] <= Cardinality(Marked(a)') + Cardinality(Going(a)') + faults'
  BY DEF MovesBounded, Marked, Going
<1> DEFINE b == request[r].row[2].appeal
<1>1. TypeOK /\ TypeOK'
  BY DEF IInv
<1>2. moved[a] <= Cardinality(Marked(a)) + Cardinality(Going(a)) + faults
  BY DEF MovesBounded, Marked, Going
<1>3. /\ moved' = [moved EXCEPT ![b] = @ + 1] /\ faults' = faults /\ request[r].pc = "vacols"
      /\ request' = [request EXCEPT ![r].pc = "commit"]
  BY DEF UpdateVacols, Goto, At
<1>4. Cardinality(Marked(a)) <= Cardinality(Marked(a)')
  BY <1>1, MarkedStays, CountsNext, FS_Subset
<1>5. \A q \in Requests \ {r} : request'[q] = request[q]
  BY <1>1, <1>3 DEF TypeOK
<1>6. request'[r].pc = "commit" /\ request'[r].row = request[r].row
  BY <1>1, <1>3 DEF TypeOK
<1>7. CASE a = b
  <2>1. r \notin Going(a) /\ Going(a)' = Going(a) \union {r}
    BY <1>3, <1>5, <1>6, <1>7 DEF Going, At
  <2>2. Cardinality(Going(a)') = Cardinality(Going(a)) + 1
    BY <1>1, <2>1, Counts, FS_AddElement
  <2>3. moved'[a] = moved[a] + 1
    BY <1>1, <1>3, <1>7 DEF TypeOK
  <2> QED
    BY <1>1, <1>2, <1>3, <1>4, <2>2, <2>3, Counts, CountsNext
<1>8. CASE a # b
  <2>1. Going(a)' = Going(a)
    BY <1>3, <1>5, <1>6, <1>8 DEF Going, At
  <2>2. moved'[a] = moved[a]
    BY <1>1, <1>3, <1>8 DEF TypeOK
  <2> QED
    BY <1>1, <1>2, <1>3, <1>4, <2>1, <2>2, Counts, CountsNext
<1> QED
  BY <1>7, <1>8

\* The request says what it has done.
LEMMA CommitCounted ==
    ASSUME IInv, IInv', Steady, MovesBounded, NEW r \in Requests, Commit(r)
    PROVE  MovesBounded'
<1> SUFFICES ASSUME NEW a \in Appeals
    PROVE  moved'[a] <= Cardinality(Marked(a)') + Cardinality(Going(a)') + faults'
  BY DEF MovesBounded, Marked, Going
<1> DEFINE x == request[r].row
           b == x[2].appeal
<1>1. TypeOK /\ TypeOK' /\ RowsOk
  BY DEF IInv, Rest
<1>2. moved[a] <= Cardinality(Marked(a)) + Cardinality(Going(a)) + faults
  BY DEF MovesBounded, Marked, Going
<1>3. /\ request[r].pc = "commit" /\ moved' = moved /\ faults' = faults
      /\ task' = [task EXCEPT ![x[1]] = CompletedRow(r)]
      /\ request' = [request EXCEPT ![r] = NoRequest]
  BY DEF Commit, Save, Respond, At, outside
<1>4. \A q \in Requests \ {r} : request'[q] = request[q]
  BY <1>1, <1>3 DEF TypeOK
<1>5. request'[r].pc = "idle"
  BY <1>1, <1>3 DEF TypeOK, NoRequest
<1>6. Cardinality(Marked(a)) <= Cardinality(Marked(a)')
  BY <1>1, MarkedStays, CountsNext, FS_Subset
<1>7. CASE a = b
  <2>1. RequestOk(r)
    BY DEF IInv, Rest
  <2>2. /\ LoadedOk(x) /\ x[2].state \in {"started", "reviewed"} /\ Fresh(x)
        /\ request[r].kind \in Moving
    BY <1>3, <2>1 DEF RequestOk, RowStates, Completions, Moving
  <2>3. /\ x[1] \in Tasks /\ task[x[1]] = x[2] /\ x[1] \in Of(a) /\ x[2] \in Rows
    BY <1>7, <2>2 DEF LoadedOk, LoadedRows, Fresh
  <2>4. x[1] \notin Marked(a)
    BY <1>1, <2>2, <2>3 DEF RowsOk, Marked, MovedStatuses
  <2>5. CompletedRow(r).status \in MovedStatuses
    BY <2>2, <2>3 DEF CompletedRow, Completed, StatusAfter, Moving, MovedStatuses, Rows
  <2>6. task'[x[1]] = CompletedRow(r)
    BY <1>1, <1>3, <2>3 DEF TypeOK
  <2>7. x[1] \in Marked(a)'
    BY <1>1, <2>3, <2>5, <2>6, ExistingStays DEF Marked
  <2>8. Marked(a) \union {x[1]} \subseteq Marked(a)'
    BY <2>7, MarkedStays
  <2>9. Cardinality(Marked(a)) + 1 <= Cardinality(Marked(a)')
    <3>1. /\ IsFiniteSet(Marked(a) \union {x[1]})
          /\ Cardinality(Marked(a) \union {x[1]}) = Cardinality(Marked(a)) + 1
      BY <1>1, <2>4, Counts, FS_AddElement
    <3> QED
      BY <1>1, <2>8, <3>1, CountsNext, FS_Subset
  <2>10. r \in Going(a) /\ Going(a)' = Going(a) \ {r}
    BY <1>3, <1>4, <1>5, <1>7 DEF Going, At
  <2>11. Cardinality(Going(a)') = Cardinality(Going(a)) - 1
    BY <1>1, <2>10, Counts, FS_RemoveElement
  <2> QED
    BY <1>1, <1>2, <1>3, <2>9, <2>11, Counts, CountsNext
<1>8. CASE a # b
  <2>1. Going(a)' = Going(a)
    BY <1>3, <1>4, <1>5, <1>8 DEF Going, At
  <2> QED
    BY <1>1, <1>2, <1>3, <1>6, <2>1, Counts, CountsNext
<1> QED
  BY <1>7, <1>8

\* A request that is broken off counts as a fault.
LEMMA FailureCounted ==
    ASSUME IInv, IInv', Steady, MovesBounded, NEW r \in Requests, FailRequest(r)
    PROVE  MovesBounded'
<1> SUFFICES ASSUME NEW a \in Appeals
    PROVE  moved'[a] <= Cardinality(Marked(a)') + Cardinality(Going(a)') + faults'
  BY DEF MovesBounded, Marked, Going
<1>1. TypeOK /\ TypeOK'
  BY DEF IInv
<1>2. moved[a] <= Cardinality(Marked(a)) + Cardinality(Going(a)) + faults
  BY DEF MovesBounded, Marked, Going
<1>3. /\ moved' = moved /\ faults' = faults + 1
      /\ request' = [request EXCEPT ![r] = NoRequest]
  BY DEF FailRequest, Respond, outside
<1>4. \A q \in Requests \ {r} : request'[q] = request[q]
  BY <1>1, <1>3 DEF TypeOK
<1>5. Cardinality(Marked(a)) <= Cardinality(Marked(a)')
  BY <1>1, MarkedStays, CountsNext, FS_Subset
<1>6. /\ IsFiniteSet(Going(a)' \union {r})
      /\ Cardinality(Going(a)' \union {r}) <= Cardinality(Going(a)') + 1
      /\ Cardinality(Going(a)' \union {r}) \in Nat
  <2>1. /\ IsFiniteSet(Going(a)' \union {r})
        /\ Cardinality(Going(a)' \union {r}) =
              IF r \in Going(a)' THEN Cardinality(Going(a)') ELSE Cardinality(Going(a)') + 1
    BY <1>1, CountsNext, FS_AddElement
  <2> QED
    BY <1>1, <2>1, CountsNext
<1>7. Going(a) \subseteq Going(a)' \union {r}
  BY <1>4 DEF Going, At
<1>8. Cardinality(Going(a)) <= Cardinality(Going(a)' \union {r})
  BY <1>6, <1>7, FS_Subset
<1> QED
  BY <1>1, <1>2, <1>3, <1>5, <1>6, <1>8, Counts, CountsNext

\* No other step of a request concerns one that is to commit.
LEMMA RequestApart ==
    ASSUME TypeOK, NEW r \in Requests,
           \/ \E u \in Users : AskForTask(r, u)
           \/ \E t \in Tasks, kind \in Completions \union {"show", "perform"} : LoadTask(r, t, kind)
           \/ Serve(r) /\ ~ UpdateVacols(r) /\ ~ Commit(r)
    PROVE  /\ moved' = moved /\ faults' = faults
           /\ \A q \in Requests : At(q, "commit") => request'[q] = request[q]
<1> SUFFICES /\ request[r].pc # "commit" /\ moved' = moved /\ faults' = faults
             /\ \A q \in Requests \ {r} : request'[q] = request[q]
  BY DEF At
<1>1. ASSUME NEW u \in Users, AskForTask(r, u)
      PROVE  /\ request[r].pc # "commit" /\ moved' = moved /\ faults' = faults
             /\ \A q \in Requests \ {r} : request'[q] = request[q]
  <2>1. PICK e : request' = [request EXCEPT ![r] = e]
    BY <1>1, Zenon DEF AskForTask
  <2>2. request[r].pc = "idle" /\ moved' = moved /\ faults' = faults
    BY <1>1, Zenon DEF AskForTask, At, outside
  <2> QED
    BY <2>1, <2>2 DEF TypeOK
<1>2. ASSUME NEW t \in Tasks, NEW kind \in Completions \union {"show", "perform"}, LoadTask(r, t, kind)
      PROVE  /\ request[r].pc # "commit" /\ moved' = moved /\ faults' = faults
             /\ \A q \in Requests \ {r} : request'[q] = request[q]
  <2>1. PICK e : request' = [request EXCEPT ![r] = e]
    BY <1>2, Zenon DEF LoadTask
  <2>2. request[r].pc = "idle" /\ moved' = moved /\ faults' = faults
    BY <1>2, Zenon DEF LoadTask, At, outside
  <2> QED
    BY <2>1, <2>2 DEF TypeOK
<1>3. ASSUME NEW x \in request[r].batch, Consider(r, x)
      PROVE  /\ request[r].pc # "commit" /\ moved' = moved /\ faults' = faults
             /\ \A q \in Requests \ {r} : request'[q] = request[q]
  BY <1>3 DEF Consider, Retry, Respond, At, outside, TypeOK
<1>4. CASE FindAssignable(r) \/ CheckUser(r) \/ Assign(r)
  BY <1>4 DEF FindAssignable, CheckUser, Assign, Retry, Respond, Goto, At, outside, TypeOK
<1>5. CASE Start(r) \/ Perform(r) \/ Review(r)
  BY <1>5 DEF Start, Perform, Review, Respond, Goto, At, outside, TypeOK
<1>6. CASE Complete(r) \/ LockTask(r)
  BY <1>6 DEF Complete, LockTask, Completions, Moving, Respond, Goto, outside, TypeOK
<1> QED
  BY <1>1, <1>2, <1>3, <1>4, <1>5, <1>6 DEF Serve

LEMMA NextMoves ==
    ASSUME IInv, MovesBounded, [Next]_vars
    PROVE  MovesBounded'
<1>1. IInv' /\ Steady /\ TypeOK
  BY NextStep DEF IInv
<1>2. faults \in Nat
  BY <1>1, BoundsAssumption DEF TypeOK
<1>3. ASSUME NEW r \in Requests, UpdateVacols(r) PROVE MovesBounded'
  BY <1>1, <1>3, MoveCounted
<1>4. ASSUME NEW r \in Requests, Commit(r) PROVE MovesBounded'
  BY <1>1, <1>4, CommitCounted
<1>5. ASSUME NEW r \in Requests, FailRequest(r) PROVE MovesBounded'
  BY <1>1, <1>5, FailureCounted
<1>6. ASSUME NEW r \in Requests,
             \/ \E u \in Users : AskForTask(r, u)
             \/ \E t \in Tasks, kind \in Completions \union {"show", "perform"} : LoadTask(r, t, kind)
             \/ Serve(r) /\ ~ UpdateVacols(r) /\ ~ Commit(r)
      PROVE  MovesBounded'
  BY <1>1, <1>2, <1>6, RequestApart, BoundKept
<1>7. ASSUME NEW a \in Appeals, CreateTask(a) \/ Reactivate(a) PROVE MovesBounded'
  BY <1>1, <1>2, <1>7, BoundKept DEF CreateTask, Reactivate, outside
<1>8. CASE NewDay \/ UNCHANGED vars
  BY <1>1, <1>2, <1>8, BoundKept DEF NewDay, vars, outside
<1>9. ASSUME NEW j \in Jobs,
             \/ \E kind \in {"prepare", "reassign"} : StartJob(j, kind)
             \/ \E x \in job[j].batch :
                   PrepareTask(j, x) \/ SkipTask(j, x) \/ Expire(j, x) \/ BreakOff(j, x)
             \/ KillJob(j)
      PROVE  MovesBounded'
  <2>1. moved' = moved /\ request' = request /\ faults' \in {faults, faults + 1}
    BY <1>9 DEF StartJob, PrepareTask, SkipTask, Expire, BreakOff, KillJob, outside
  <2> QED
    BY <1>1, <1>2, <2>1, BoundKept
<1> QED
  BY <1>3, <1>4, <1>5, <1>6, <1>7, <1>8, <1>9 DEF Next

-----------------------------------------------------------------------------
(* Theorems *)

\* The invariant holds in every reachable state, however many users and
\* executions work on the queue at once.
THEOREM InductiveInvariant == Spec => []IInv
BY InitIInv, NextStep, PTL DEF Spec

\* Every row and everything that was loaded has its type.
THEOREM TypeCorrect == Spec => []TypeOK
<1>1. IInv => TypeOK
  BY DEF IInv
<1> QED
  BY <1>1, InductiveInvariant, PTL

\* An appeal has at most one task that is not completed, and a task that
\* expired was created again (Dispatch::Task#expire!, recreate!).
THEOREM OneTaskAtATime == Spec => []OneOpenTask
<1>1. IInv => OneOpenTask
  BY DEF IInv
<1> QED
  BY <1>1, InductiveInvariant, PTL

\* A task whose status says so has moved its appeal in VACOLS and established
\* its end product (complete_with_review!, assign_existing_end_product!).
THEOREM StatusIsTrue == Spec => []RoutedInVacols
<1>1. IInv => RoutedInVacols
  BY DEF IInv
<1> QED
  BY <1>1, InductiveInvariant, PTL

\* An end product that no task refers to is accounted for (perform!).
THEOREM ClaimsHaveTasks == Spec => []ClaimsAccounted
<1>1. IInv => ClaimsAccounted
  BY DEF IInv
<1> QED
  BY <1>1, InductiveInvariant, PTL

\* VACOLS is updated once for a completed task, and again only after a request
\* broke off: two requests never do it (complete_with_review!).
THEOREM MovesCounted == Spec => []MovesBounded
<1>1. Init => MovesBounded
  <2> SUFFICES ASSUME Init, NEW a \in Appeals
      PROVE  moved[a] <= Cardinality(Marked(a)) + Cardinality(Going(a)) + faults
    BY DEF MovesBounded, Marked, Going
  <2>1. TypeOK /\ moved[a] = 0
    BY InitIInv DEF IInv, Init
  <2> QED
    BY <2>1, Counts
<1> QED
  BY <1>1, NextMoves, InductiveInvariant, PTL DEF Spec

\* No stale row is ever saved over a newer one: tasks go through the events of
\* the state machine one at a time (the aasm block of Dispatch::Task).
THEOREM LifecycleFollowed == Spec => FollowsLifecycle
<1>1. IInv /\ [Next]_vars => [\A t \in Tasks : task'[t] = task[t] \/ Event(task[t], task'[t])]_vars
  BY NextStep DEF Steady
<1> QED
  BY <1>1, InductiveInvariant, PTL DEF Spec, FollowsLifecycle
=============================================================================
