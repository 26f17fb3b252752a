------------------------------ MODULE TaskTree ------------------------------
(***************************************************************************)
(* The task tree of one appeal, from intake to its distribution to a       *)
(* judge: app/models/task.rb and the subclasses that change how the tree   *)
(* moves (RootTask, DistributionTask, TimedHoldTask, MailTask,             *)
(* TrackVeteranTask, ColocatedTask), with the controllers and services     *)
(* that drive it.                                                          *)
(*                                                                         *)
(* A task is a row; rows are numbered in creation order and never deleted. *)
(* The ActiveRecord callbacks that run when a row is created or closed     *)
(* (put the parent on hold, release it, close it with its last child,      *)
(* cancel its timed hold) belong to the action that writes the row, as     *)
(* they do to its database transaction.                                    *)
(***************************************************************************)
EXTENDS Naturals, FiniteSets

CONSTANTS
    MaxTasks,           \* bound on the rows of the appeal
    MailTypes,          \* MailTask subclasses in play
    BlockingMailTypes,  \* those whose blocking? is true
    OrdinaryTypes,      \* other task types created by users of the queue
    ColocatedTypes,     \* ordinary types that are ColocatedTasks
    NonCascadingTypes,  \* types whose parent does not close with its child
    AutoAssignTypes,    \* types whose organization picks a member at once
    Representatives,    \* new representatives a sync may find: "vso", "agent"
    StalePages          \* TRUE: holds may be requested from outdated pages

Tasks == 1..MaxTasks
Root  == 1
Distribution == 2
NoTask == 0

BuiltinTypes == {"RootTask", "DistributionTask", "TimedHoldTask",
                 "TrackVeteranTask", "InformalHearingPresentationTask",
                 "JudgeAssignTask"}
TaskTypes == BuiltinTypes \union MailTypes \union OrdinaryTypes

ASSUME MaxTasksAssumption == MaxTasks \in Nat /\ MaxTasks >= 2
ASSUME TypesAssumption ==
    /\ (MailTypes \union OrdinaryTypes) \intersect BuiltinTypes = {}
    /\ MailTypes \intersect OrdinaryTypes = {}
    /\ BlockingMailTypes \subseteq MailTypes
    /\ ColocatedTypes \subseteq OrdinaryTypes
    /\ Representatives \subseteq {"vso", "agent"}
    /\ StalePages \in BOOLEAN

ActiveStatuses == {"assigned", "in_progress"}
OpenStatuses   == ActiveStatuses \union {"on_hold"}
ClosedStatuses == {"completed", "cancelled"}

VARIABLES
    status,   \* status of each row, "none" for a row not yet created
    type,     \* its Task subclass
    parent,   \* its parent_id
    org       \* the rows assigned to an Organization (the others: to a User)

vars == <<status, type, parent, org>>

-----------------------------------------------------------------------------
(* Reading the tree *)

Rows            == {t \in Tasks : status[t] # "none"}
IsOpen(t)       == status[t] \in OpenStatuses
IsClosed(t)     == status[t] \in ClosedStatuses
Children(t)     == {c \in Rows : parent[c] = t}
OpenChildren(t) == {c \in Children(t) : IsOpen(c)}
ActiveHolds(t)  == {h \in OpenChildren(t) : type[h] = "TimedHoldTask"}

\* active_child_timed_hold_task: the first open TimedHoldTask the query
\* returns, or nothing.
ActiveHold(t) == IF ActiveHolds(t) = {} THEN {{}} ELSE {{h} : h \in ActiveHolds(t)}

\* A row and everything below it.
Subtrees(t) == {D \in SUBSET Rows :
                    /\ t \in D
                    /\ \A x \in D : Children(x) \subseteq D
                    /\ \A x \in D \ {t} : parent[x] \in D}

\* A row and the ancestors reached through parents of its own type.
SameTypeChains(t) == {A \in SUBSET Rows :
    /\ t \in A
    /\ \A x \in A \ {t} : \E c \in A : parent[c] = x /\ type[c] = type[x]
    /\ \A c \in A : parent[c] \in Rows /\ type[parent[c]] = type[c] => parent[c] \in A}

\* Appeal#distributed_to_a_judge?
DistributedToAJudge == \E t \in Rows : type[t] = "JudgeAssignTask"

\* actions_available?: an on_hold task offers nothing unless it is on a timed
\* hold; a ColocatedTask only has to be open. Root, distribution, tracking and
\* timed hold tasks offer no status change.
ActionsAvailable(t) ==
    /\ IsOpen(t)
    /\ type[t] \in MailTypes \union OrdinaryTypes
                       \union {"InformalHearingPresentationTask"}
    /\ \/ status[t] # "on_hold"
       \/ ActiveHolds(t) # {}
       \/ type[t] \in ColocatedTypes

-----------------------------------------------------------------------------
(* Creating rows *)

IsNextRow(t) == status[t] = "none" /\ \A u \in Tasks : u < t => status[u] # "none"

\* verify_org_task_unique: mail, tracking and colocated tasks skip it.
UniqueForOrg(k, p) ==
    k \notin MailTypes \union ColocatedTypes =>
        ~ \E c \in OpenChildren(p) : type[c] = k /\ c \in org

\* Fault: RootTask does not override when_child_task_created.
AnyParentOnHold(p) == "on_hold"

\* Fault: a status that is not one of the enum.
MisspelledHold(p) == "on-hold"

\* when_child_task_created: any parent goes on hold, a closed one included;
\* a RootTask only when it was active.
ParentAfterCreate(p) ==
    IF p # Root \/ status[p] \in ActiveStatuses THEN "on_hold" ELSE status[p]

\* The statuses once the rows of "new" exist below p and the holds H of p
\* were cancelled.
AfterCreate(new, p, H) ==
    [x \in Tasks |-> IF x \in DOMAIN new THEN new[x]
                     ELSE IF x = p THEN ParentAfterCreate(p)
                     ELSE IF x \in H THEN "cancelled" ELSE status[x]]

\* The timed holds that a new child of p cancels. RootTask overrides the
\* callback that would cancel one.
HoldsEndedByChild(p) == IF p = Root THEN {{}} ELSE ActiveHold(p)

\* One new row t of type k below p.
Insert(t, k, p, o, s, H) ==
    /\ IsNextRow(t)
    /\ status' = AfterCreate([x \in {t} |-> s], p, H)
    /\ type' = [type EXCEPT ![t] = k]
    /\ parent' = [parent EXCEPT ![t] = p]
    /\ org' = IF o THEN org \union {t} ELSE org

\* Two new rows of type k: an organization's task t below p, and below t a
\* task u that keeps it on hold.
InsertPair(t, u, k, p, uIsOrg, H) ==
    /\ IsNextRow(t)
    /\ u = t + 1
    /\ status' = AfterCreate([x \in {t, u} |-> IF x = t THEN "on_hold" ELSE "assigned"], p, H)
    /\ type' = [type EXCEPT ![t] = k, ![u] = k]
    /\ parent' = [parent EXCEPT ![t] = p, ![u] = t]
    /\ org' = org \union (IF uIsOrg THEN {t, u} ELSE {t})

-----------------------------------------------------------------------------
(* Closing a row, with callbacks *)

\* Fault: siblings of c that are still open are not looked at.
ClosesWithFirst(p, c) ==
    /\ p \in Rows \ {Root}
    /\ status[p] = "on_hold"
    /\ p \in org
    /\ type[p] = type[c]
    /\ type[p] \notin NonCascadingTypes

\* update_status_if_children_tasks_are_closed and
\* cascade_closure_from_child_task?: p closes with its last open child c.
ClosesWith(p, c) ==
    /\ p \in Rows \ {Root}
    /\ status[p] = "on_hold"
    /\ OpenChildren(p) \subseteq {c}
    /\ p \in org
    /\ type[p] = type[c]
    /\ type[p] \notin NonCascadingTypes

\* t and the ancestors that close with it, one after the other.
ClosingChains(t) == {S \in SUBSET Rows :
    /\ t \in S
    /\ \E top \in S :
        /\ ~ ClosesWith(parent[top], top)
        /\ \A c \in S \ {top} : parent[c] \in S /\ ClosesWith(parent[c], c)
        /\ \A p \in S \ {t} : \E c \in S \ {top} : parent[c] = p}

\* Fault: the parents are always completed.
OnlyItself(t, s, S) == {IF s = "cancelled" THEN {t} ELSE {}}

\* Those of them that end up cancelled when t closes with status s
\* (all_children_cancelled_or_completed).
CancelledOf(t, s, S) == {C \in SUBSET S :
    /\ t \in C <=> s = "cancelled"
    /\ \A p \in S \ {t} :
        p \in C <=> \A k \in Children(p) : IF k \in S THEN k \in C ELSE status[k] = "cancelled"}

\* Fault: only the task of an organization leaves its hold.
ReleasedOrganizations(S) == {p \in (Rows \intersect org) \ (S \union {Root}) :
    /\ status[p] = "on_hold"
    /\ \E c \in S : parent[c] = p /\ OpenChildren(p) \subseteq {c}}

\* The parent where the chain stops: it leaves its hold when no other child is
\* open. RootTask overrides when_child_task_completed and does nothing before
\* dispatch.
Released(S) == {p \in Rows \ (S \union {Root}) :
    /\ status[p] = "on_hold"
    /\ \E c \in S : parent[c] = p /\ OpenChildren(p) \subseteq {c}}

AfterClose(S, C, H) ==
    [x \in Tasks |-> IF x \in C \union H THEN "cancelled"
                     ELSE IF x \in S THEN "completed"
                     ELSE IF x \in Released(S) THEN "assigned" ELSE status[x]]

\* t closes with status s, its parents follow and its timed hold is cancelled.
Close(t, s) ==
    /\ \E S \in ClosingChains(t), H \in ActiveHold(t) :
          \E C \in CancelledOf(t, s, S) : status' = AfterClose(S, C, H)
    /\ UNCHANGED <<type, parent, org>>

-----------------------------------------------------------------------------
(* The operations *)

\* InitialTasksFactory: a direct review appeal with no IHP-writing
\* representative is ready for distribution at once.
Init ==
    /\ status = [t \in Tasks |-> IF t = Root THEN "on_hold"
                                 ELSE IF t = Distribution THEN "assigned" ELSE "none"]
    /\ type   = [t \in Tasks |-> IF t = Distribution THEN "DistributionTask" ELSE "RootTask"]
    /\ parent = [t \in Tasks |-> IF t = Distribution THEN Root ELSE NoTask]
    /\ org    = {Root, Distribution}

\* TasksController#create for types other than mail. A user's task gets
\* children of another type only, and an IHP task is assigned to a person. The
\* organization of an AutoAssignTypes task picks one of its members at once.
CreateTask(t, p, k, o) ==
    /\ k \in OrdinaryTypes \union {"InformalHearingPresentationTask"}
    /\ k = "InformalHearingPresentationTask" <=> type[p] = "InformalHearingPresentationTask"
    /\ type[p] \notin {"TimedHoldTask", "TrackVeteranTask", "DistributionTask"} \union MailTypes
    /\ IsOpen(p)
    /\ type[p] = k => p \in org
    /\ o => k # "InformalHearingPresentationTask" /\ UniqueForOrg(k, p)
    /\ \E H \in HoldsEndedByChild(p) :
          IF o /\ k \in AutoAssignTypes
          THEN \E u \in Tasks : InsertPair(t, u, k, p, FALSE, H)
          ELSE Insert(t, k, p, o, "assigned", H)

\* Fault: blocking mail goes below the DistributionTask even when the appeal is
\* with a judge.
CreateMailAlwaysBlocking(t, k, routed, o) ==
    LET p == IF k \in BlockingMailTypes THEN Distribution ELSE Root
    IN  \E H \in HoldsEndedByChild(p) :
            IF routed
            THEN \E u \in Tasks : InsertPair(t, u, k, p, o, H)
            ELSE Insert(t, k, p, TRUE, "assigned", H)

\* MailTask.create_from_params for mail filed on the appeal: a task for the
\* mail team below the RootTask, or below the DistributionTask when the mail
\* blocks distribution, and its child unless the mail team keeps the mail.
CreateMail(t, k, routed, o) ==
    LET p == IF k \in BlockingMailTypes /\ ~ DistributedToAJudge THEN Distribution ELSE Root
    IN  \E H \in HoldsEndedByChild(p) :
            IF routed
            THEN \E u \in Tasks : InsertPair(t, u, k, p, o, H)
            ELSE Insert(t, k, p, TRUE, "assigned", H)

\* MailTask.create_from_params below an organization's mail task, or below the
\* DistributionTask.
AssignMail(t, p, k, o) ==
    /\ k \in MailTypes
    /\ p = Distribution \/ type[p] = k
    /\ IsOpen(p)
    /\ p \in org
    /\ \E H \in HoldsEndedByChild(p) : Insert(t, k, p, o, "assigned", H)

\* Task#update_from_params with status in_progress.
Start(t) ==
    /\ ActionsAvailable(t)
    /\ status' = [status EXCEPT ![t] = "in_progress"]
    /\ UNCHANGED <<type, parent, org>>

\* Task#update_from_params with status completed or cancelled.
UpdateStatus(t, s) == ActionsAvailable(t) /\ Close(t, s)

\* Task#reassign: r takes the place and the open children of t.
Adopted(t, r) == [x \in Tasks |-> IF x = r THEN parent[t]
                                  ELSE IF x \in OpenChildren(t) THEN r ELSE parent[x]]

\* Task#reassign of a user's task to another user: r also takes its status,
\* then t is cancelled.
Reassign(t, r) ==
    /\ ActionsAvailable(t)
    /\ t \notin org
    /\ IsNextRow(r)
    /\ \E H \in HoldsEndedByChild(parent[t]) :
          status' = [AfterCreate([x \in {r} |-> status[t]], parent[t], H)
                        EXCEPT ![t] = "cancelled"]
    /\ type' = [type EXCEPT ![r] = type[t]]
    /\ parent' = Adopted(t, r)
    /\ UNCHANGED org

\* cancel_descendants: the open tasks of the branch D are cancelled, the others
\* are as in st. The callbacks change nothing more: the task above the branch
\* has the twin as an open child.
CancelOpen(D, st) == [x \in Tasks |-> IF x \in D /\ IsOpen(x) THEN "cancelled" ELSE st[x]]

\* The branch of type k that replaces the branch D of a mail task a: the mail
\* team's task n, and u that the team keeps.
TwinOfMail(n, u, k, a, D, H) ==
    /\ u = n + 1
    /\ status' = CancelOpen(D, AfterCreate(
            [x \in {n, u} |-> IF x = n THEN "on_hold" ELSE "assigned"], parent[a], H))
    /\ type' = [type EXCEPT ![n] = k, ![u] = k]
    /\ parent' = [parent EXCEPT ![n] = parent[a], ![u] = n]
    /\ org' = org \union {n, u}

\* The task n that replaces the branch D of a colocated task a.
TwinOfColocated(n, k, a, D, H) ==
    /\ status' = CancelOpen(D, AfterCreate([x \in {n} |-> "assigned"], parent[a], H))
    /\ type' = [type EXCEPT ![n] = k]
    /\ parent' = [parent EXCEPT ![n] = parent[a]]
    /\ org' = org \union {n}

\* Task#update_task_type: a twin branch of type k is created beside the
\* branch of t, then every open task of the old branch is cancelled. The
\* children of t are first given last_descendant_of_type of t itself, which
\* is t, as parent: they do not move, and are cancelled with the branch.
ChangeType(t, n, k) ==
    /\ ActionsAvailable(t)
    /\ k # type[t]
    /\ \/ {k, type[t]} \subseteq MailTypes
       \/ {k, type[t]} \subseteq ColocatedTypes
    /\ ~ \E c \in OpenChildren(t) : type[c] = type[t]
    /\ IsNextRow(n)
    /\ \E A \in SameTypeChains(t) : \E a \in A :
        /\ parent[a] \notin A
        /\ \E D \in Subtrees(a) : \E H \in HoldsEndedByChild(parent[a]) :
              IF k \in MailTypes
              THEN \E u \in Tasks : TwinOfMail(n, u, k, a, D, H)
              ELSE TwinOfColocated(n, k, a, D, H)

\* Fault: the former timed hold is not cancelled.
PlaceSecondHold(h, t) ==
    /\ ActionsAvailable(t) \/ StalePages
    /\ type[t] \in MailTypes \union OrdinaryTypes \union {"InformalHearingPresentationTask"}
    /\ Insert(h, "TimedHoldTask", t, t \in org, "assigned", {})

\* Tasks::PlaceHoldController and TimedHoldTask.create_from_parent. The page
\* offers a hold while the task has actions available, but the controller does
\* not check again: from an outdated page (StalePages) the task may meanwhile
\* be on hold for another child, or closed.
PlaceHold(h, t) ==
    /\ ActionsAvailable(t) \/ StalePages
    /\ type[t] \in MailTypes \union OrdinaryTypes \union {"InformalHearingPresentationTask"}
    /\ t \in org => UniqueForOrg("TimedHoldTask", t)
    /\ Insert(h, "TimedHoldTask", t, t \in org, "assigned", ActiveHolds(t))

\* Tasks::EndHoldController.
EndHold(t) == \E h \in ActiveHolds(t) : Close(h, "cancelled")

\* TimedHoldTask#when_timer_ends.
HoldExpires(h) ==
    /\ type[h] = "TimedHoldTask"
    /\ IsOpen(h)
    /\ Close(h, "completed")

\* JudgeAssignTaskCreator: the appeal's DistributionTask is completed once the
\* judge has a task, a new one or the one of the judge who had it before.
Distribute(t) ==
    /\ status[Distribution] = "assigned"
    /\ IsOpen(Root)
    /\ IsNextRow(t)
    /\ LET given  == {j \in Rows : type[j] = "JudgeAssignTask" /\ IsOpen(j)}
           st(s)  == AfterCreate([x \in {t} |-> s], Root, {})
       IN  \/ /\ given = {}
              /\ status' = [st("assigned") EXCEPT ![Distribution] = "completed"]
              /\ parent' = [parent EXCEPT ![t] = Root]
           \/ \E j \in given :
              /\ status' = [st(status[j]) EXCEPT ![Distribution] = "completed", ![j] = "cancelled"]
              /\ parent' = Adopted(j, t)
    /\ type' = [type EXCEPT ![t] = "JudgeAssignTask"]
    /\ UNCHANGED org

\* TrackVeteranTask.sync_tracking_tasks after the power of attorney changed to
\* one other representative, or to none.
FormerTasks == {t \in Rows \intersect org : IsOpen(t) /\
                    type[t] \in {"TrackVeteranTask", "InformalHearingPresentationTask"}}

\* The new IHP task goes where the former one is, else below the open
\* DistributionTask, else below the RootTask.
IhpParents ==
    LET ihp == {t \in FormerTasks : type[t] = "InformalHearingPresentationTask"}
    IN  IF ihp # {} THEN {parent[t] : t \in ihp}
        ELSE IF IsOpen(Distribution) THEN {Distribution} ELSE {Root}

\* The former tasks are cancelled, and so are their open children with their
\* timed holds.
CancelledWithFormer ==
    LET below == UNION {OpenChildren(t) : t \in FormerTasks}
    IN  FormerTasks \union below \union UNION {ActiveHolds(t) : t \in below}

\* A parent left without an open child leaves its hold, unless it is in kept.
AfterCancelFormer(st, kept) ==
    [x \in Tasks |->
        IF x \in CancelledWithFormer THEN "cancelled"
        ELSE IF /\ x \in Rows \ (kept \union {Root})
                /\ status[x] = "on_hold"
                /\ \E c \in FormerTasks : parent[c] = x
                /\ OpenChildren(x) \subseteq CancelledWithFormer
             THEN "assigned" ELSE st[x]]

NewRepresentative(t, r) ==
    /\ r \in Representatives
    /\ IsNextRow(t)
    /\ IF r = "agent"
       THEN /\ status' = AfterCancelFormer(AfterCreate([x \in {t} |-> "in_progress"], Root, {}), {})
            /\ type'   = [type EXCEPT ![t] = "TrackVeteranTask"]
            /\ parent' = [parent EXCEPT ![t] = Root]
            /\ org'    = org \union {t}
       ELSE \E i \in Tasks, p \in IhpParents :
            /\ i = t + 1
            /\ status' = AfterCancelFormer(AfterCreate(
                  [x \in {t, i} |-> IF x = t THEN "in_progress" ELSE "assigned"], p, {}), {p})
            /\ type'   = [type EXCEPT ![t] = "TrackVeteranTask",
                                      ![i] = "InformalHearingPresentationTask"]
            /\ parent' = [parent EXCEPT ![t] = Root, ![i] = p]
            /\ org'    = org \union {t, i}

NoRepresentative ==
    /\ Representatives # {}
    /\ FormerTasks # {}
    /\ status' = AfterCancelFormer(status, {})
    /\ UNCHANGED <<type, parent, org>>

\* AppealActiveTaskCancellation when no request issue is left: every task,
\* without callbacks.
CancelActiveTasks ==
    /\ IsOpen(Root)
    /\ status' = [t \in Tasks |-> IF IsOpen(t) THEN "cancelled" ELSE status[t]]
    /\ UNCHANGED <<type, parent, org>>

\* AppealActiveTaskCancellation for a withdrawn appeal: what is needed for
\* distribution stays, and the DistributionTask is assigned.
WithdrawAppeal ==
    /\ IsOpen(Root)
    /\ status' = [t \in Tasks |->
                    IF t = Distribution THEN "assigned"
                    ELSE IF IsOpen(t) /\ type[t] \notin {"RootTask", "TrackVeteranTask"}
                    THEN "cancelled" ELSE status[t]]
    /\ UNCHANGED <<type, parent, org>>

UserStep ==
    \/ \E t, p \in Tasks : \/ \E k \in TaskTypes, o \in BOOLEAN : CreateTask(t, p, k, o)
                           \/ \E k \in MailTypes, o \in BOOLEAN : AssignMail(t, p, k, o)
                           \/ PlaceHold(t, p)
                           \/ Reassign(p, t)
                           \/ \E k \in TaskTypes : ChangeType(p, t, k)
    \/ \E t \in Tasks, k \in MailTypes, routed, o \in BOOLEAN : CreateMail(t, k, routed, o)
    \/ \E t \in Rows : \/ Start(t)
                       \/ \E s \in ClosedStatuses : UpdateStatus(t, s)
                       \/ EndHold(t)

SystemStep ==
    \/ \E t \in Rows : HoldExpires(t)
    \/ \E t \in Tasks : Distribute(t)
    \/ \E t \in Tasks, r \in Representatives : NewRepresentative(t, r)
    \/ NoRepresentative
    \/ CancelActiveTasks
    \/ WithdrawAppeal

Next == UserStep \/ SystemStep

Spec == Init /\ [][Next]_vars

\* DocketSwitch::TaskHandler#cancel_old_tasks for a partial grant: every open
\* task without children that is not work of the judge is cancelled, without
\* callbacks.
PostDistribution(t) ==
    \E j \in Rows : type[j] = "JudgeAssignTask" /\ \E D \in Subtrees(j) : t \in D

SwitchableTasks ==
    {t \in Rows : IsOpen(t) /\ Children(t) = {} /\ type[t] \notin {"RootTask", "DistributionTask"}}

GrantPartialDocketSwitch ==
    /\ status' = [t \in Tasks |-> IF t \in SwitchableTasks /\ ~ PostDistribution(t)
                                  THEN "cancelled" ELSE status[t]]
    /\ UNCHANGED <<type, parent, org>>

SpecWithDocketSwitch == Init /\ [][Next \/ GrantPartialDocketSwitch]_vars

-----------------------------------------------------------------------------
(* What must hold *)

TypeOK ==
    /\ status \in [Tasks -> OpenStatuses \union ClosedStatuses \union {"none"}]
    /\ type \in [Tasks -> TaskTypes]
    /\ parent \in [Tasks -> Tasks \union {NoTask}]
    /\ org \subseteq Tasks

\* A task on hold waits for something: one of its children is open. Only the
\* RootTask stays on hold without (AppealsWithNoTasksOrAllTasksOnHoldQuery
\* reports any other as a stuck appeal).
OnHoldHasOpenChild ==
    \A t \in Rows \ {Root} : status[t] = "on_hold" => OpenChildren(t) # {}

\* A task is on at most one timed hold, since a new hold replaces the former one
\* (TimedHoldTask#cancel_active_siblings, reassignment, any other new child), and
\* a hold never outlives the work it suspends: when that is closed, reassigned or
\* cancelled its hold is closed or moved with it.
OneActiveHold ==
    \A t \in Rows : \A g, h \in ActiveHolds(t) : g = h /\ IsOpen(t)

\* No open task is left below a closed one, where nobody waits for it; only
\* what hangs from the RootTask may survive it.
OpenTaskHasOpenParent ==
    \A t \in Rows \ {Root} : IsOpen(t) /\ parent[t] # Root => IsOpen(parent[t])

\* An appeal is ready for distribution only when nothing below its
\* DistributionTask is open, such as blocking mail and IHP tasks, and when it is
\* on no judge's desk, from where the next distribution would take it.
ReadyMeansUnblocked ==
    status[Distribution] = "assigned" =>
        /\ OpenChildren(Distribution) = {}
        /\ ~ \E j \in Rows : type[j] = "JudgeAssignTask" /\ IsOpen(j)

\* When the tree closes an organization's task by itself (the task is on hold,
\* no timed hold lets a user act on it), "completed" means that some child was
\* completed (all_children_cancelled_or_completed).
CompletedWorkWasDone ==
    [][\A p \in Tasks : /\ p \in Rows \ {Root, Distribution}
                        /\ status[p] = "on_hold"
                        /\ ActiveHolds(p) = {}
                        /\ status'[p] = "completed"
                        => \E c \in Children(p) : status'[c] = "completed"]_vars

\* A closed RootTask stays as it is whatever is filed on the appeal later
\* (mail, representatives, tasks): the appeal does not come back to life.
ClosedRootStaysClosed == [][IsClosed(Root) => status'[Root] = status[Root]]_vars
=============================================================================
