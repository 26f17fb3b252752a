-------------------------- MODULE TaskTree_proofs --------------------------
(***************************************************************************)
(* Proofs about TaskTree for every number of rows and every set of types:  *)
(* the type invariant, that no task is left on hold with nothing to wait   *)
(* for, and that a closed RootTask stays closed.                           *)
(***************************************************************************)
EXTENDS TaskTree, TLAPS

-----------------------------------------------------------------------------
(* The inductive invariant.  OnHoldHasOpenChild alone is not inductive: a
   withdrawal leaves the RootTask and the tracking tasks as they are, so no
   tracking task may be on hold; a reassigned task hands its children over, so
   no task may be its own child. *)

\* The first two rows are the RootTask, the only one, and the DistributionTask.
FirstRows ==
    /\ status[Root] # "none"
    /\ status[Distribution] # "none"
    /\ type[Distribution] = "DistributionTask"
    /\ parent[Distribution] = Root
    /\ \A t \in Tasks : type[t] = "RootTask" <=> (t = Root \/ status[t] = "none")

\* The parent of a row is another row, never a tracking task.
ParentsAreRows ==
    \A t \in Rows : /\ parent[t] # t
                    /\ \/ parent[t] = NoTask
                       \/ parent[t] \in Rows /\ type[parent[t]] # "TrackVeteranTask"

\* Rows are numbered in the order of their creation.
RowsInOrder == \A a \in Tasks : \A b \in Rows : a < b => a \in Rows

\* Tracking tasks never wait for a child.
TrackingNeverOnHold ==
    \A t \in Rows : type[t] = "TrackVeteranTask" => status[t] # "on_hold"

IInv ==
    /\ TypeOK
    /\ FirstRows
    /\ ParentsAreRows
    /\ RowsInOrder
    /\ TrackingNeverOnHold
    /\ OnHoldHasOpenChild

Statuses == OpenStatuses \union ClosedStatuses \union {"none"}

-----------------------------------------------------------------------------
(* Lemmas on the operators *)

\* The bounds on the row numbers that the assumption on MaxTasks gives.
LEMMA FirstRowsAreTasks ==
    Root \in Tasks /\ Distribution \in Tasks /\ Root # Distribution /\ NoTask \notin Tasks
BY MaxTasksAssumption DEF Tasks, Root, Distribution, NoTask

\* The holds a new child ends are open children of its parent, whatever the
\* callback picks.
LEMMA HoldsEndedAreChildren ==
    ASSUME NEW p, NEW H \in HoldsEndedByChild(p)
    PROVE  H \subseteq OpenChildren(p)
BY DEF HoldsEndedByChild, ActiveHold, ActiveHolds

\* The hold a closing task ends is one of its open children.
LEMMA ActiveHoldIsChild ==
    ASSUME NEW p, NEW H \in ActiveHold(p)
    PROVE  H \subseteq OpenChildren(p)
BY DEF ActiveHold, ActiveHolds

\* What the creation of rows below p does to the other rows: the parent goes on
\* hold or keeps its status, the ended holds are cancelled.
LEMMA AfterCreateOthers ==
    ASSUME NEW new, NEW p, NEW H, TypeOK, NEW x \in Tasks, x \notin DOMAIN new
    PROVE  /\ AfterCreate(new, p, H)[x] \in {"on_hold", "cancelled", status[x]}
           /\ x \notin H \union {p} => AfterCreate(new, p, H)[x] = status[x]
           /\ x = p => AfterCreate(new, p, H)[x] \in {"on_hold", status[x]}
           /\ AfterCreate(new, p, H)[x] = "on_hold" => x = p \/ status[x] = "on_hold"
BY DEF AfterCreate, ParentAfterCreate

\* Rows are created in order, so neither the next one nor its successor exists.
LEMMA NextRowIsLast ==
    ASSUME RowsInOrder, NEW t \in Tasks, NEW u \in Tasks, u >= t, IsNextRow(t)
    PROVE  u \notin Rows
BY DEF RowsInOrder, IsNextRow, Rows, Tasks

\* Everything before the next row exists.
LEMMA RowsBeforeNext ==
    ASSUME NEW t \in Tasks, IsNextRow(t), NEW a \in Tasks, a < t
    PROVE  a \in Rows
BY DEF IsNextRow, Rows

\* The typing of the statuses after rows of "new" were created below p.
LEMMA AfterCreateType ==
    ASSUME NEW new, NEW p, NEW H, TypeOK, \A x \in DOMAIN new : new[x] \in Statuses
    PROVE  AfterCreate(new, p, H) \in [Tasks -> Statuses]
<1>1. \A x \in Tasks : AfterCreate(new, p, H)[x] \in Statuses
  BY AfterCreateOthers DEF AfterCreate, TypeOK, Statuses, OpenStatuses, ClosedStatuses
<1> QED
  BY <1>1 DEF AfterCreate

\* A step that creates the rows N, and moves others to be children of these at
\* most, keeps the shape of the tree.
LEMMA ShapeStep ==
    ASSUME IInv, NEW N \in SUBSET Tasks,
           N \intersect Rows = {}, Rows' = Rows \union N,
           \A x \in N : \A a \in Tasks : a < x => a \in Rows \union N,
           \A x \in Tasks \ N : type'[x] = type[x],
           \A x \in Rows : parent'[x] = parent[x] \/ parent'[x] \in N,
           parent'[Distribution] = Root,
           \A x \in N : /\ type'[x] # "RootTask"
                        /\ parent'[x] # x
                        /\ parent'[x] \in Rows \union N \union {NoTask},
           \A x \in Rows' : parent'[x] \in Rows' => type'[parent'[x]] # "TrackVeteranTask"
    PROVE  FirstRows' /\ ParentsAreRows' /\ RowsInOrder'
<1>1. Root \in Rows /\ Distribution \in Rows
  BY FirstRowsAreTasks DEF IInv, FirstRows, Rows
<1>2. FirstRows'
  <2>1. \A x \in Tasks : status'[x] # "none" <=> x \in Rows \union N
    BY DEF Rows
  <2>2. \A x \in Rows : type[x] = "RootTask" <=> x = Root
    BY DEF IInv, FirstRows, Rows
  <2>3. \A x \in Tasks : type'[x] = "RootTask" <=> (x = Root \/ status'[x] = "none")
    BY <1>1, <2>1, <2>2 DEF IInv, FirstRows, Rows
  <2> QED
    BY <1>1, <2>1, <2>3, FirstRowsAreTasks DEF IInv, FirstRows
<1>3. ParentsAreRows'
  BY DEF IInv, ParentsAreRows
<1>4. RowsInOrder'
  BY DEF IInv, RowsInOrder
<1> QED
  BY <1>2, <1>3, <1>4

\* A step that writes statuses only, and none of them away.
LEMMA StatusStep ==
    ASSUME IInv, UNCHANGED <<type, parent, org>>,
           status' \in [Tasks -> Statuses],
           \A x \in Tasks : status'[x] = "none" <=> status[x] = "none",
           \A x \in Tasks : status'[x] = "on_hold" => status[x] = "on_hold",
           OnHoldHasOpenChild'
    PROVE  IInv'
<1>1. Rows' = Rows
  BY DEF Rows
<1>2. TypeOK'
  BY DEF IInv, TypeOK, Statuses
<1>3. FirstRows' /\ ParentsAreRows' /\ RowsInOrder' /\ TrackingNeverOnHold'
  BY <1>1, FirstRowsAreTasks DEF IInv, FirstRows, ParentsAreRows, RowsInOrder, TrackingNeverOnHold, Rows
<1> QED
  BY <1>2, <1>3 DEF IInv

-----------------------------------------------------------------------------
(* Creating one row *)

\* A row created below an existing row that is not a tracking task.
LEMMA InsertStep ==
    ASSUME IInv,
           NEW t \in Tasks, NEW k \in TaskTypes, NEW p \in Rows, NEW o \in BOOLEAN,
           NEW s \in ActiveStatuses, NEW H, H \subseteq OpenChildren(p),
           k # "RootTask", type[p] # "TrackVeteranTask",
           Insert(t, k, p, o, s, H)
    PROVE  IInv'
<1> DEFINE new == [x \in {t} |-> s]
<1>1. /\ t \notin Rows /\ t # p /\ t # Root /\ t # Distribution
  BY FirstRowsAreTasks DEF Insert, IsNextRow, Rows, IInv, FirstRows
<1>2. /\ status' = AfterCreate(new, p, H)
      /\ type' = [type EXCEPT ![t] = k]
      /\ parent' = [parent EXCEPT ![t] = p]
  BY DEF Insert
<1>3. status'[t] = s /\ s \in OpenStatuses
  BY <1>2 DEF AfterCreate, OpenStatuses
<1>4. \A x \in Tasks \ {t} : /\ status'[x] \in {"on_hold", "cancelled", status[x]}
                             /\ x \notin H \union {p} => status'[x] = status[x]
                             /\ x = p => status'[x] \in {"on_hold", status[x]}
                             /\ status'[x] = "on_hold" => x = p \/ status[x] = "on_hold"
  BY <1>2, AfterCreateOthers DEF IInv
<1>5. TypeOK'
  <2>1. status' \in [Tasks -> Statuses]
    BY <1>2, AfterCreateType DEF IInv, Statuses, OpenStatuses
  <2>2. type' \in [Tasks -> TaskTypes] /\ parent' \in [Tasks -> Tasks \union {NoTask}] /\ org' \subseteq Tasks
    BY <1>2 DEF Insert, IInv, TypeOK, Rows
  <2> QED
    BY <2>1, <2>2 DEF TypeOK, Statuses
<1>6. Rows' = Rows \union {t}
  <2>1. \A x \in Tasks \ {t} : status[x] # "none" <=> status'[x] # "none"
    BY <1>4 DEF IInv, OpenChildren, Children, Rows
  <2>2. status'[t] # "none"
    BY <1>3 DEF OpenStatuses, ActiveStatuses
  <2> QED
    BY <2>1, <2>2, <1>1 DEF Rows
<1>7. \A x \in Rows : type'[x] = type[x] /\ parent'[x] = parent[x]
  BY <1>1, <1>2 DEF IInv, TypeOK, Rows
<1>8. type'[t] = k /\ parent'[t] = p
  BY <1>2 DEF IInv, TypeOK
<1>9. FirstRows' /\ ParentsAreRows' /\ RowsInOrder'
  <2>1. {t} \in SUBSET Tasks /\ {t} \intersect Rows = {} /\ Rows' = Rows \union {t}
    BY <1>1, <1>6
  <2>2. \A x \in Tasks \ {t} : type'[x] = type[x]
    BY <1>2 DEF IInv, TypeOK
  <2>3. parent'[Distribution] = Root
    BY <1>1, <1>7, FirstRowsAreTasks DEF IInv, FirstRows, Rows
  <2>4. \A x \in Rows' : parent'[x] \in Rows' => type'[parent'[x]] # "TrackVeteranTask"
    BY <1>1, <1>6, <1>7, <1>8, FirstRowsAreTasks DEF IInv, ParentsAreRows, Rows
  <2>5. \A a \in Tasks : a < t => a \in Rows
    BY RowsBeforeNext DEF Insert
  <2>6. \A x \in {t} : \A a \in Tasks : a < x => a \in Rows \union {t}
    BY <2>5
  <2>7. \A x \in {t} : /\ type'[x] # "RootTask"
                      /\ parent'[x] # x
                      /\ parent'[x] \in Rows \union {t} \union {NoTask}
    BY <1>1, <1>8
  <2>8. \A x \in Rows : parent'[x] = parent[x] \/ parent'[x] \in {t}
    BY <1>7
  <2> QED
    BY <2>1, <2>2, <2>3, <2>4, <2>6, <2>7, <2>8, ShapeStep
<1>11. TrackingNeverOnHold'
  BY <1>1, <1>3, <1>4, <1>6, <1>7 DEF IInv, TrackingNeverOnHold, Rows, ActiveStatuses
<1>12. OnHoldHasOpenChild'
  <2> SUFFICES ASSUME NEW x \in Rows', x # Root, status'[x] = "on_hold"
               PROVE  \E c \in Rows' : parent'[c] = x /\ status'[c] \in OpenStatuses
    BY DEF OnHoldHasOpenChild, OpenChildren, Children, IsOpen
  <2>1. CASE x = p
    BY <2>1, <1>3, <1>6, <1>8
  <2>2. CASE x # p
    <3>1. x \in Rows /\ status[x] = "on_hold"
      BY <2>2, <1>3, <1>4, <1>6 DEF Rows, ActiveStatuses
    <3>2. PICK c \in Rows : parent[c] = x /\ status[c] \in OpenStatuses
      BY <3>1 DEF IInv, OnHoldHasOpenChild, OpenChildren, Children, IsOpen
    <3>3. c \notin H
      BY <3>2, <2>2 DEF OpenChildren, Children
    <3>4. status'[c] \in OpenStatuses
      BY <3>2, <3>3, <1>1, <1>4 DEF Rows, OpenStatuses
    <3> QED
      BY <3>2, <3>4, <1>6, <1>7
  <2> QED
    BY <2>1, <2>2
<1> QED
  BY <1>5, <1>9, <1>11, <1>12 DEF IInv

-----------------------------------------------------------------------------
(* Creating two rows *)

\* An organization's task and the task below it that keeps it on hold.
LEMMA InsertPairStep ==
    ASSUME IInv,
           NEW t \in Tasks, NEW u \in Tasks, NEW k \in TaskTypes, NEW p \in Rows,
           NEW uIsOrg \in BOOLEAN, NEW H, H \subseteq OpenChildren(p),
           k \notin {"RootTask", "TrackVeteranTask"}, type[p] # "TrackVeteranTask",
           InsertPair(t, u, k, p, uIsOrg, H)
    PROVE  IInv'
<1> DEFINE new == [x \in {t, u} |-> IF x = t THEN "on_hold" ELSE "assigned"]
<1>1. /\ t \notin Rows /\ u \notin Rows /\ t # u /\ p \notin {t, u}
      /\ Root \notin {t, u} /\ Distribution \notin {t, u}
  <2>1. t \notin Rows /\ u = t + 1
    BY DEF InsertPair, IsNextRow, Rows
  <2>2. u \notin Rows
    BY <2>1, NextRowIsLast DEF InsertPair, IInv, Tasks
  <2> QED
    BY <2>1, <2>2, FirstRowsAreTasks DEF IInv, FirstRows, Rows, Tasks
<1>2. /\ status' = AfterCreate(new, p, H)
      /\ type' = [type EXCEPT ![t] = k, ![u] = k]
      /\ parent' = [parent EXCEPT ![t] = p, ![u] = t]
  BY DEF InsertPair
<1>3. status'[t] = "on_hold" /\ status'[u] = "assigned"
  BY <1>1, <1>2 DEF AfterCreate
<1>4. \A x \in Tasks \ {t, u} : /\ status'[x] \in {"on_hold", "cancelled", status[x]}
                                /\ x \notin H \union {p} => status'[x] = status[x]
                                /\ x = p => status'[x] \in {"on_hold", status[x]}
                                /\ status'[x] = "on_hold" => x = p \/ status[x] = "on_hold"
  BY <1>2, AfterCreateOthers DEF IInv
<1>5. TypeOK'
  <2>1. status' \in [Tasks -> Statuses]
    BY <1>2, AfterCreateType DEF IInv, Statuses, OpenStatuses, ActiveStatuses
  <2>2. type' \in [Tasks -> TaskTypes] /\ parent' \in [Tasks -> Tasks \union {NoTask}] /\ org' \subseteq Tasks
    BY <1>2 DEF InsertPair, IInv, TypeOK, Rows
  <2> QED
    BY <2>1, <2>2 DEF TypeOK, Statuses
<1>6. Rows' = Rows \union {t, u}
  <2>1. \A x \in Tasks \ {t, u} : status[x] # "none" <=> status'[x] # "none"
    BY <1>4 DEF IInv, OpenChildren, Children, Rows
  <2> QED
    BY <2>1, <1>1, <1>3 DEF Rows
<1>7. \A x \in Rows : type'[x] = type[x] /\ parent'[x] = parent[x]
  BY <1>1, <1>2 DEF IInv, TypeOK, Rows
<1>8. /\ type'[t] = k /\ parent'[t] = p
      /\ type'[u] = k /\ parent'[u] = t
  BY <1>1, <1>2 DEF IInv, TypeOK
<1>9. FirstRows' /\ ParentsAreRows' /\ RowsInOrder'
  <2>1. {t, u} \in SUBSET Tasks /\ {t, u} \intersect Rows = {} /\ Rows' = Rows \union {t, u}
    BY <1>1, <1>6
  <2>2. \A x \in Tasks \ {t, u} : type'[x] = type[x]
    BY <1>2 DEF IInv, TypeOK
  <2>3. parent'[Distribution] = Root
    BY <1>1, <1>7, FirstRowsAreTasks DEF IInv, FirstRows, Rows
  <2>4. \A x \in Rows' : parent'[x] \in Rows' => type'[parent'[x]] # "TrackVeteranTask"
    BY <1>1, <1>6, <1>7, <1>8, FirstRowsAreTasks DEF IInv, ParentsAreRows, Rows
  <2>5. \A x \in {t, u} : \A a \in Tasks : a < x => a \in Rows \union {t, u}
    BY RowsBeforeNext DEF InsertPair, Tasks
  <2>6. \A x \in {t, u} : /\ type'[x] # "RootTask"
                           /\ parent'[x] # x
                           /\ parent'[x] \in Rows \union {t, u} \union {NoTask}
    BY <1>1, <1>8
  <2>7. \A x \in Rows : parent'[x] = parent[x] \/ parent'[x] \in {t, u}
    BY <1>7
  <2> HIDE DEF new
  <2> QED
    BY <2>1, <2>2, <2>3, <2>4, <2>5, <2>6, <2>7, ShapeStep
<1>11. TrackingNeverOnHold'
  BY <1>1, <1>3, <1>4, <1>6, <1>7, <1>8 DEF IInv, TrackingNeverOnHold, Rows
<1>12. OnHoldHasOpenChild'
  <2> SUFFICES ASSUME NEW x \in Rows', x # Root, status'[x] = "on_hold"
               PROVE  \E c \in Rows' : parent'[c] = x /\ status'[c] \in OpenStatuses
    BY DEF OnHoldHasOpenChild, OpenChildren, Children, IsOpen
  <2>1. CASE x = p
    BY <2>1, <1>3, <1>6, <1>8 DEF OpenStatuses
  <2>2. CASE x = t
    BY <2>2, <1>3, <1>6, <1>8 DEF OpenStatuses, ActiveStatuses
  <2>3. CASE x \notin {p, t}
    <3>1. x \in Rows /\ status[x] = "on_hold"
      BY <2>3, <1>3, <1>4, <1>6 DEF Rows
    <3>2. PICK c \in Rows : parent[c] = x /\ status[c] \in OpenStatuses
      BY <3>1 DEF IInv, OnHoldHasOpenChild, OpenChildren, Children, IsOpen
    <3>3. c \notin H
      BY <3>2, <2>3 DEF OpenChildren, Children
    <3>4. status'[c] \in OpenStatuses
      BY <3>2, <3>3, <1>1, <1>4 DEF Rows, OpenStatuses
    <3> QED
      BY <3>2, <3>4, <1>6, <1>7
  <2> QED
    BY <2>1, <2>2, <2>3
<1> QED
  BY <1>5, <1>9, <1>11, <1>12 DEF IInv

-----------------------------------------------------------------------------
(* Closing a row *)

\* A row that stays on hold keeps an open child: it loses one at most, the last
\* of the chain, and then it would be released.
LEMMA CloseStep ==
    ASSUME IInv, NEW t \in Rows, NEW s \in ClosedStatuses, Close(t, s)
    PROVE  IInv'
<1>0. PICK S \in ClosingChains(t), H \in ActiveHold(t) :
           \E C \in CancelledOf(t, s, S) : status' = AfterClose(S, C, H)
  BY DEF Close
<1>1. PICK C \in CancelledOf(t, s, S) : status' = AfterClose(S, C, H)
  BY <1>0
<1>2. UNCHANGED <<type, parent, org>>
  BY DEF Close
<1>3. S \subseteq Rows /\ C \subseteq S /\ t \in S /\ H \subseteq OpenChildren(t)
  BY ActiveHoldIsChild DEF ClosingChains, CancelledOf
<1>4. \A x \in Tasks :
        status'[x] = IF x \in C \union H THEN "cancelled"
                     ELSE IF x \in S THEN "completed"
                     ELSE IF x \in Released(S) THEN "assigned" ELSE status[x]
  BY <1>1 DEF AfterClose
<1>5. status' \in [Tasks -> Statuses]
  BY <1>1 DEF AfterClose, IInv, TypeOK, Statuses, OpenStatuses, ClosedStatuses, ActiveStatuses
<1>6. \A x \in Tasks : status'[x] = "none" <=> status[x] = "none"
  BY <1>3, <1>4 DEF Rows, Released, OpenChildren, Children
<1>7. \A x \in Tasks : status'[x] = "on_hold" => status[x] = "on_hold"
  BY <1>4
<1>8. OnHoldHasOpenChild'
  <2> SUFFICES ASSUME NEW x \in Rows, x # Root, status'[x] = "on_hold"
               PROVE  \E c \in Rows : parent[c] = x /\ status'[c] \in OpenStatuses
    BY <1>2, <1>6 DEF OnHoldHasOpenChild, OpenChildren, Children, IsOpen, Rows
  <2>1. x \notin S /\ x \notin Released(S) /\ status[x] = "on_hold"
    BY <1>3, <1>4 DEF Rows
  <2>2. OpenChildren(x) # {}
    BY <2>1 DEF IInv, OnHoldHasOpenChild
  <2>3. OpenChildren(x) \intersect H = {}
    BY <1>3, <2>1 DEF OpenChildren, Children
  <2>4. ~ (OpenChildren(x) \subseteq S)
    <3> SUFFICES ASSUME OpenChildren(x) \subseteq S
                 PROVE  FALSE
      OBVIOUS
    <3>1. PICK top \in S : \A c \in S \ {top} : parent[c] \in S
      BY DEF ClosingChains
    <3>2. OpenChildren(x) \subseteq {top}
      BY <2>1, <3>1 DEF OpenChildren, Children
    <3> QED
      BY <2>1, <2>2, <3>2 DEF Released, OpenChildren, Children
  <2>5. PICK c \in OpenChildren(x) : c \notin S
    BY <2>4
  <2>6. status'[c] \in OpenStatuses
    BY <1>3, <1>4, <2>3, <2>5 DEF OpenChildren, Children, IsOpen, Rows, OpenStatuses, ActiveStatuses
  <2> QED
    BY <2>5, <2>6 DEF OpenChildren, Children
<1> QED
  BY <1>2, <1>5, <1>6, <1>7, <1>8, StatusStep

-----------------------------------------------------------------------------
(* The other steps that write statuses only *)

\* Starting a task changes no other row and leaves it open.
LEMMA StartStep ==
    ASSUME IInv, NEW t \in Rows, Start(t)
    PROVE  IInv'
<1>1. /\ status' = [status EXCEPT ![t] = "in_progress"]
      /\ UNCHANGED <<type, parent, org>>
      /\ t \in Tasks /\ status[t] # "none"
  BY DEF Start, Rows
<1>2. \A x \in Tasks : status'[x] = IF x = t THEN "in_progress" ELSE status[x]
  BY <1>1 DEF IInv, TypeOK
<1>3. status' \in [Tasks -> Statuses]
  BY <1>1 DEF IInv, TypeOK, Statuses, OpenStatuses, ActiveStatuses
<1>4. OnHoldHasOpenChild'
  BY <1>1, <1>2 DEF IInv, OnHoldHasOpenChild, OpenChildren, Children, IsOpen, Rows, OpenStatuses, ActiveStatuses
<1> QED
  BY <1>1, <1>2, <1>3, <1>4, StatusStep

\* Cancelling the tasks of former representatives leaves an open child to every
\* row that stays on hold.
LEMMA CancelFormerKeepsChild ==
    ASSUME IInv, NEW st, NEW kept, NEW x \in Rows, x # Root, x \notin kept,
           status[x] = "on_hold", AfterCancelFormer(st, kept)[x] = "on_hold"
    PROVE  \E c \in OpenChildren(x) : c \notin CancelledWithFormer
<1>1. x \in Tasks
  BY DEF Rows
<1>2. x \notin CancelledWithFormer
  BY <1>1 DEF AfterCancelFormer
<1>3. OpenChildren(x) # {}
  BY DEF IInv, OnHoldHasOpenChild
<1>4. CASE \E c \in FormerTasks : parent[c] = x
  BY <1>1, <1>2, <1>4 DEF AfterCancelFormer
<1>5. CASE ~ \E c \in FormerTasks : parent[c] = x
  <2>1. PICK c \in OpenChildren(x) : TRUE
    BY <1>3
  <2>2. parent[c] = x
    BY <2>1 DEF OpenChildren, Children
  <2>3. c \notin FormerTasks
    BY <2>2, <1>5
  <2>4. ~ \E t \in FormerTasks : c \in OpenChildren(t)
    BY <2>2, <1>2 DEF OpenChildren, Children, CancelledWithFormer
  <2>5. ~ \E t \in UNION {OpenChildren(f) : f \in FormerTasks} : c \in ActiveHolds(t)
    BY <2>2, <1>2 DEF ActiveHolds, OpenChildren, Children, CancelledWithFormer
  <2> QED
    BY <2>1, <2>3, <2>4, <2>5 DEF CancelledWithFormer
<1> QED
  BY <1>4, <1>5

\* What the cancellation does to the statuses st.
LEMMA AfterCancelFormerValues ==
    ASSUME NEW st \in [Tasks -> Statuses], NEW kept
    PROVE  /\ AfterCancelFormer(st, kept) \in [Tasks -> Statuses]
           /\ CancelledWithFormer \subseteq Rows
           /\ \A x \in Tasks :
                /\ AfterCancelFormer(st, kept)[x] \in {"cancelled", "assigned", st[x]}
                /\ x \notin Rows => AfterCancelFormer(st, kept)[x] = st[x]
                /\ x \in kept => AfterCancelFormer(st, kept)[x] \in {"cancelled", st[x]}
                /\ x \notin CancelledWithFormer => AfterCancelFormer(st, kept)[x] \in {"assigned", st[x]}
<1>1. CancelledWithFormer \subseteq Rows
  BY DEF CancelledWithFormer, FormerTasks, OpenChildren, ActiveHolds, Children
<1>2. \A x \in Tasks :
        /\ AfterCancelFormer(st, kept)[x] \in {"cancelled", "assigned", st[x]}
        /\ x \notin Rows => AfterCancelFormer(st, kept)[x] = st[x]
        /\ x \in kept => AfterCancelFormer(st, kept)[x] \in {"cancelled", st[x]}
        /\ x \notin CancelledWithFormer => AfterCancelFormer(st, kept)[x] \in {"assigned", st[x]}
  BY <1>1 DEF AfterCancelFormer
<1>3. AfterCancelFormer(st, kept) \in [Tasks -> Statuses]
  BY DEF AfterCancelFormer, Statuses, OpenStatuses, ClosedStatuses, ActiveStatuses
<1> QED
  BY <1>1, <1>2, <1>3

\* Losing the representative cancels its tasks and releases what waited for
\* nothing else.
LEMMA NoRepresentativeStep ==
    ASSUME IInv, NoRepresentative
    PROVE  IInv'
<1>1. status' = AfterCancelFormer(status, {}) /\ UNCHANGED <<type, parent, org>>
  BY DEF NoRepresentative
<1>2. status \in [Tasks -> Statuses]
  BY DEF IInv, TypeOK, Statuses
<1>3. /\ status' \in [Tasks -> Statuses]
      /\ \A x \in Tasks : /\ status'[x] \in {"cancelled", "assigned", status[x]}
                          /\ x \notin Rows => status'[x] = status[x]
                          /\ x \notin CancelledWithFormer => status'[x] \in {"assigned", status[x]}
  BY <1>1, <1>2, AfterCancelFormerValues
<1>4. \A x \in Tasks : status'[x] = "none" <=> status[x] = "none"
  BY <1>3 DEF Rows
<1>5. OnHoldHasOpenChild'
  <2> SUFFICES ASSUME NEW x \in Rows, x # Root, status'[x] = "on_hold"
               PROVE  \E c \in Rows : parent[c] = x /\ status'[c] \in OpenStatuses
    BY <1>1, <1>4 DEF OnHoldHasOpenChild, OpenChildren, Children, IsOpen, Rows
  <2>1. status[x] = "on_hold"
    BY <1>3 DEF Rows
  <2>2. PICK c \in OpenChildren(x) : c \notin CancelledWithFormer
    BY <1>1, <2>1, CancelFormerKeepsChild
  <2> QED
    BY <1>3, <2>2 DEF OpenChildren, Children, IsOpen, Rows, OpenStatuses, ActiveStatuses
<1> QED
  BY <1>1, <1>3, <1>4, <1>5, StatusStep

\* Cancelling every open task leaves nothing on hold.
LEMMA CancelActiveTasksStep ==
    ASSUME IInv, CancelActiveTasks
    PROVE  IInv'
<1>1. /\ status' = [t \in Tasks |-> IF IsOpen(t) THEN "cancelled" ELSE status[t]]
      /\ UNCHANGED <<type, parent, org>>
  BY DEF CancelActiveTasks
<1>2. status' \in [Tasks -> Statuses]
  BY <1>1 DEF IInv, TypeOK, Statuses, ClosedStatuses
<1>3. \A x \in Tasks : status'[x] = "none" <=> status[x] = "none"
  BY <1>1 DEF IsOpen, OpenStatuses, ActiveStatuses
<1>4. \A x \in Tasks : status'[x] # "on_hold"
  BY <1>1 DEF IsOpen, OpenStatuses
<1>5. OnHoldHasOpenChild'
  BY <1>4 DEF OnHoldHasOpenChild, Rows
<1> QED
  BY <1>1, <1>2, <1>3, <1>4, <1>5, StatusStep

\* A withdrawal leaves only the RootTask and tracking tasks, which are never on
\* hold, and the assigned DistributionTask.
LEMMA WithdrawAppealStep ==
    ASSUME IInv, WithdrawAppeal
    PROVE  IInv'
<1>1. /\ status' = [t \in Tasks |->
                      IF t = Distribution THEN "assigned"
                      ELSE IF IsOpen(t) /\ type[t] \notin {"RootTask", "TrackVeteranTask"}
                      THEN "cancelled" ELSE status[t]]
      /\ UNCHANGED <<type, parent, org>>
  BY DEF WithdrawAppeal
<1>2. status' \in [Tasks -> Statuses]
  BY <1>1 DEF IInv, TypeOK, Statuses, ClosedStatuses, OpenStatuses, ActiveStatuses
<1>3. \A x \in Tasks : status'[x] = "none" <=> status[x] = "none"
  BY <1>1 DEF IsOpen, OpenStatuses, ActiveStatuses, IInv, FirstRows
<1>4. \A x \in Tasks : status'[x] = "on_hold" => status[x] = "on_hold"
  BY <1>1
<1>5. \A x \in Rows \ {Root} : status'[x] # "on_hold"
  BY <1>1 DEF IInv, FirstRows, TrackingNeverOnHold, Rows, IsOpen, OpenStatuses
<1>6. OnHoldHasOpenChild'
  BY <1>3, <1>5 DEF OnHoldHasOpenChild, Rows
<1> QED
  BY <1>1, <1>2, <1>3, <1>4, <1>6, StatusStep

-----------------------------------------------------------------------------
(* Reassigning a task *)

\* The statuses once a row r below p took the place of t, and the rows D were
\* completed.
Replaced(t, r, p, H, D) ==
    [x \in Tasks |-> IF x = t THEN "cancelled"
                     ELSE IF x \in D THEN "completed"
                     ELSE AfterCreate([y \in {r} |-> status[t]], p, H)[x]]

\* A row r takes the place of t: it is created below p, which gains it as an
\* open child, with the status of t and its open children, and t is cancelled.
\* The DistributionTask, which only the RootTask waits for, may be completed.
Replaces(t, r, p, H, D) ==
    /\ t \in Rows
    /\ r \in Tasks
    /\ D \subseteq {Distribution}
    /\ IsNextRow(r)
    /\ IsOpen(t)
    /\ type[t] \notin {"RootTask", "DistributionTask", "TrackVeteranTask"}
    /\ H \subseteq OpenChildren(p)
    /\ p = parent[t] \/ (p = Root /\ H = {})
    /\ status' = Replaced(t, r, p, H, D)
    /\ type' = [type EXCEPT ![r] = type[t]]
    /\ parent' = Adopted(t, r)
    /\ org' = org

\* Such a step keeps the invariant: whoever waited for t now waits for r.
LEMMA ReplaceStep ==
    ASSUME IInv, NEW t, NEW r, NEW p, NEW H, NEW D, Replaces(t, r, p, H, D)
    PROVE  IInv'
<1> DEFINE new == [y \in {r} |-> status[t]]
<1>0. /\ t \in Rows /\ r \in Tasks /\ D \subseteq {Distribution}
      /\ IsNextRow(r) /\ IsOpen(t)
      /\ type[t] \notin {"RootTask", "DistributionTask", "TrackVeteranTask"}
      /\ H \subseteq OpenChildren(p)
      /\ p = parent[t] \/ (p = Root /\ H = {})
      /\ status' = Replaced(t, r, p, H, D)
      /\ type' = [type EXCEPT ![r] = type[t]]
      /\ parent' = Adopted(t, r)
      /\ org' = org
  BY DEF Replaces
<1> USE <1>0
<1>1. /\ r \notin Rows /\ r # t /\ t # Root /\ t # Distribution /\ r # Root /\ r # Distribution
      /\ t \in Tasks /\ status[t] \in OpenStatuses
  BY FirstRowsAreTasks DEF IsNextRow, IsOpen, Rows, IInv, FirstRows
<1>2. /\ parent[t] # t
      /\ parent[t] = NoTask \/ (parent[t] \in Rows /\ type[parent[t]] # "TrackVeteranTask")
      /\ p = NoTask \/ (p \in Rows /\ type[p] # "TrackVeteranTask")
  <2>1. /\ parent[t] # t
        /\ parent[t] = NoTask \/ (parent[t] \in Rows /\ type[parent[t]] # "TrackVeteranTask")
    BY DEF IInv, ParentsAreRows
  <2> QED
    BY <2>1, FirstRowsAreTasks DEF IInv, FirstRows, Rows
<1>3. status'[r] = status[t] /\ status'[t] = "cancelled"
  BY <1>1 DEF AfterCreate, Replaced
<1>4. \A x \in Tasks \ {t, r} :
        /\ x \notin D => status'[x] \in {"on_hold", "cancelled", status[x]}
        /\ x \notin H \union {p} \union D => status'[x] = status[x]
        /\ x = p /\ x \notin D => status'[x] \in {"on_hold", status[x]}
        /\ x \in D => status'[x] = "completed"
        /\ status'[x] = "on_hold" => x = p \/ status[x] = "on_hold"
  <2> SUFFICES ASSUME NEW x \in Tasks \ {t, r}
               PROVE  /\ x \notin D => status'[x] \in {"on_hold", "cancelled", status[x]}
                      /\ x \notin H \union {p} \union D => status'[x] = status[x]
                      /\ x = p /\ x \notin D => status'[x] \in {"on_hold", status[x]}
                      /\ x \in D => status'[x] = "completed"
                      /\ status'[x] = "on_hold" => x = p \/ status[x] = "on_hold"
    OBVIOUS
  <2>1. x \notin DOMAIN new
    OBVIOUS
  <2>2. /\ AfterCreate(new, p, H)[x] \in {"on_hold", "cancelled", status[x]}
        /\ x \notin H \union {p} => AfterCreate(new, p, H)[x] = status[x]
        /\ x = p => AfterCreate(new, p, H)[x] \in {"on_hold", status[x]}
        /\ AfterCreate(new, p, H)[x] = "on_hold" => x = p \/ status[x] = "on_hold"
    BY <2>1, AfterCreateOthers DEF IInv
  <2> QED
    BY <2>2 DEF Replaced
<1>5. TypeOK'
  <2>1. AfterCreate(new, p, H) \in [Tasks -> Statuses]
    BY <1>1, AfterCreateType DEF IInv, Statuses
  <2>2. \A x \in Tasks : status'[x] \in Statuses
    BY <2>1 DEF Statuses, ClosedStatuses, Replaced
  <2>3. status' \in [Tasks -> Statuses]
    BY <2>2 DEF Replaced
  <2>4. type' \in [Tasks -> TaskTypes] /\ org' \subseteq Tasks
    BY <1>1 DEF IInv, TypeOK
  <2>5. parent' \in [Tasks -> Tasks \union {NoTask}]
    BY <1>1 DEF Adopted, IInv, TypeOK
  <2> QED
    BY <2>3, <2>4, <2>5 DEF TypeOK, Statuses
<1>6. Rows' = Rows \union {r}
  <2>1. \A x \in Tasks \ {r} : status[x] # "none" <=> status'[x] # "none"
    <3> SUFFICES ASSUME NEW x \in Tasks \ {r}
                 PROVE  status[x] # "none" <=> status'[x] # "none"
      OBVIOUS
    <3>1. x \in H => status[x] # "none"
      BY DEF OpenChildren, Children, Rows
    <3>2. x \in D => status[x] # "none"
      BY DEF IInv, FirstRows
    <3> QED
      BY <1>1, <1>2, <1>3, <1>4, <3>1, <3>2, FirstRowsAreTasks DEF OpenStatuses, ActiveStatuses, Rows
  <2>2. status'[r] # "none"
    BY <1>1, <1>3 DEF OpenStatuses, ActiveStatuses
  <2> QED
    BY <2>1, <2>2, <1>1 DEF Rows
<1>7. \A x \in Rows : /\ type'[x] = type[x]
                      /\ x \in OpenChildren(t) => parent'[x] = r
                      /\ x \notin OpenChildren(t) => parent'[x] = parent[x]
  BY <1>1 DEF IInv, TypeOK, Rows, Adopted
<1>8. type'[r] = type[t] /\ parent'[r] = parent[t]
  BY <1>1 DEF IInv, TypeOK, Adopted
<1>9. FirstRows' /\ ParentsAreRows' /\ RowsInOrder'
  <2>1. {r} \in SUBSET Tasks /\ {r} \intersect Rows = {} /\ Rows' = Rows \union {r}
    BY <1>1, <1>6
  <2>2. \A x \in Tasks \ {r} : type'[x] = type[x]
    BY DEF IInv, TypeOK
  <2>3. parent'[Distribution] = Root
    BY <1>1, <1>7, FirstRowsAreTasks DEF IInv, FirstRows, Rows, OpenChildren, Children
  <2>4. \A x \in Rows' : parent'[x] \in Rows' => type'[parent'[x]] # "TrackVeteranTask"
    BY <1>1, <1>2, <1>6, <1>7, <1>8, FirstRowsAreTasks DEF IInv, ParentsAreRows, Rows
  <2>5. \A x \in {r} : \A a \in Tasks : a < x => a \in Rows \union {r}
    BY RowsBeforeNext
  <2>6. \A x \in {r} : /\ type'[x] # "RootTask"
                       /\ parent'[x] # x
                       /\ parent'[x] \in Rows \union {r} \union {NoTask}
    BY <1>1, <1>2, <1>8, FirstRowsAreTasks
  <2>7. \A x \in Rows : parent'[x] = parent[x] \/ parent'[x] \in {r}
    BY <1>7
  <2> HIDE DEF new
  <2> QED
    BY <2>1, <2>2, <2>3, <2>4, <2>5, <2>6, <2>7, ShapeStep
<1>10. TrackingNeverOnHold'
  <2> SUFFICES ASSUME NEW x \in Rows', type'[x] = "TrackVeteranTask", status'[x] = "on_hold"
               PROVE  FALSE
    BY DEF TrackingNeverOnHold
  <2>1. x \in Rows /\ x # t
    BY <1>1, <1>3, <1>6, <1>8
  <2>2. type[x] = "TrackVeteranTask" /\ status[x] # "on_hold"
    BY <2>1, <1>7 DEF IInv, TrackingNeverOnHold
  <2> QED
    BY <1>1, <1>2, <1>4, <2>1, <2>2, FirstRowsAreTasks DEF Rows
<1>11. OnHoldHasOpenChild'
  <2> SUFFICES ASSUME NEW x \in Rows', x # Root, status'[x] = "on_hold"
               PROVE  \E c \in Rows' : parent'[c] = x /\ status'[c] \in OpenStatuses
    BY DEF OnHoldHasOpenChild, OpenChildren, Children, IsOpen
  <2>1. x # t /\ x \in Tasks
    BY <1>3 DEF Rows
  <2>2. CASE x = r
    <3>1. PICK c \in OpenChildren(t) : TRUE
      BY <2>2, <1>1, <1>3 DEF IInv, OnHoldHasOpenChild
    <3>2. c \in Rows /\ parent[c] = t /\ status[c] \in OpenStatuses /\ c # t /\ c # r /\ c # Distribution
      BY <3>1, <1>1, <1>2 DEF OpenChildren, Children, IsOpen, IInv, FirstRows
    <3>3. c \notin H
      BY <3>2, <1>2 DEF OpenChildren, Children
    <3>4. status'[c] \in OpenStatuses
      BY <3>2, <3>3, <1>4 DEF Rows, OpenStatuses
    <3> QED
      BY <3>1, <3>2, <3>4, <1>6, <1>7, <2>2
  <2>3. CASE x = parent[t]
    BY <2>3, <1>1, <1>3, <1>6, <1>8
  <2>4. CASE x \notin {r, parent[t]}
    <3>1. x \in Rows /\ status[x] = "on_hold" /\ x # p
      BY <2>1, <2>4, <1>4, <1>6 DEF Rows
    <3>2. PICK c \in Rows : parent[c] = x /\ status[c] \in OpenStatuses
      BY <3>1 DEF IInv, OnHoldHasOpenChild, OpenChildren, Children, IsOpen
    <3>3. c \notin OpenChildren(t) /\ c # t /\ c # r /\ c \notin H
      BY <3>1, <3>2, <2>1, <2>4, <1>1 DEF OpenChildren, Children
    <3>4. c # Distribution
      BY <3>2 DEF IInv, FirstRows
    <3>5. status'[c] \in OpenStatuses
      BY <3>2, <3>3, <3>4, <1>4 DEF Rows, OpenStatuses
    <3> QED
      BY <3>2, <3>3, <3>5, <1>6, <1>7
  <2> QED
    BY <2>2, <2>3, <2>4
<1> QED
  BY <1>5, <1>9, <1>10, <1>11 DEF IInv

\* Reassigning a task replaces it by a row with its children and status.
LEMMA ReassignReplaces ==
    ASSUME IInv, NEW t \in Tasks, NEW r \in Tasks, Reassign(t, r)
    PROVE  \E H \in HoldsEndedByChild(parent[t]) : Replaces(t, r, parent[t], H, {})
<1>1. /\ IsOpen(t) /\ IsNextRow(r)
      /\ type[t] \notin {"RootTask", "DistributionTask", "TrackVeteranTask"}
      /\ type' = [type EXCEPT ![r] = type[t]] /\ parent' = Adopted(t, r) /\ org' = org
  BY TypesAssumption DEF Reassign, ActionsAvailable, BuiltinTypes
<1>2. PICK H \in HoldsEndedByChild(parent[t]) :
          status' = [AfterCreate([x \in {r} |-> status[t]], parent[t], H) EXCEPT ![t] = "cancelled"]
  BY DEF Reassign
<1>3. status' = Replaced(t, r, parent[t], H, {})
  BY <1>2 DEF Replaced, AfterCreate
<1>4. t \in Rows
  BY <1>1 DEF Rows, IsOpen, OpenStatuses, ActiveStatuses
<1>5. H \subseteq OpenChildren(parent[t])
  BY <1>2, HoldsEndedAreChildren
<1>6. {} \subseteq {Distribution}
  OBVIOUS
<1>7. Replaces(t, r, parent[t], H, {})
  BY <1>1, <1>3, <1>4, <1>5, <1>6 DEF Replaces
<1> QED
  BY <1>7

LEMMA ReassignStep ==
    ASSUME IInv, NEW t \in Tasks, NEW r \in Tasks, Reassign(t, r)
    PROVE  IInv'
BY ReassignReplaces, ReplaceStep

-----------------------------------------------------------------------------
(* Distributing the appeal *)

\* A new judge's task takes the appeal: nothing but the RootTask waits for the
\* DistributionTask.
LEMMA DistributeNewStep ==
    ASSUME IInv, NEW t \in Tasks, IsNextRow(t), status[Distribution] = "assigned",
           status' = [AfterCreate([x \in {t} |-> "assigned"], Root, {}) EXCEPT ![Distribution] = "completed"],
           type' = [type EXCEPT ![t] = "JudgeAssignTask"],
           parent' = [parent EXCEPT ![t] = Root],
           org' = org
    PROVE  IInv'
<1> DEFINE new == [x \in {t} |-> "assigned"]
<1>1. /\ t \notin Rows /\ t # Root /\ t # Distribution
      /\ Root \in Rows /\ Distribution \in Rows
  BY FirstRowsAreTasks DEF IsNextRow, Rows, IInv, FirstRows
<1>2. status' \in [Tasks -> Statuses]
  <2>1. AfterCreate(new, Root, {}) \in [Tasks -> Statuses]
    BY AfterCreateType DEF IInv, Statuses, OpenStatuses, ActiveStatuses
  <2> QED
    BY <2>1 DEF Statuses, ClosedStatuses
<1>3. /\ status'[t] = "assigned" /\ status'[Distribution] = "completed"
      /\ \A x \in Tasks \ {t, Root, Distribution} : status'[x] = status[x]
      /\ status'[Root] \in {"on_hold", status[Root]}
  BY <1>1, FirstRowsAreTasks DEF AfterCreate, ParentAfterCreate
<1>4. TypeOK'
  <2>1. type' \in [Tasks -> TaskTypes] /\ parent' \in [Tasks -> Tasks \union {NoTask}] /\ org' \subseteq Tasks
    BY FirstRowsAreTasks DEF IInv, TypeOK, TaskTypes, BuiltinTypes
  <2> QED
    BY <1>2, <2>1 DEF TypeOK, Statuses
<1>5. Rows' = Rows \union {t}
  BY <1>1, <1>3 DEF Rows
<1>6. \A x \in Rows : type'[x] = type[x] /\ parent'[x] = parent[x]
  BY <1>1 DEF IInv, TypeOK, Rows
<1>7. type'[t] = "JudgeAssignTask" /\ parent'[t] = Root
  BY DEF IInv, TypeOK
<1>8. FirstRows' /\ ParentsAreRows' /\ RowsInOrder'
  <2>1. {t} \in SUBSET Tasks /\ {t} \intersect Rows = {}
    BY <1>1
  <2>2. \A x \in Tasks \ {t} : type'[x] = type[x]
    BY DEF IInv, TypeOK
  <2>3. parent'[Distribution] = Root
    BY <1>1, <1>6 DEF IInv, FirstRows
  <2>4. type[Root] # "TrackVeteranTask"
    BY FirstRowsAreTasks DEF IInv, FirstRows
  <2>5. \A x \in Rows' : parent'[x] \in Rows' => type'[parent'[x]] # "TrackVeteranTask"
    BY <1>1, <1>5, <1>6, <1>7, <2>4, FirstRowsAreTasks DEF IInv, ParentsAreRows, Rows
  <2>6. \A x \in {t} : \A a \in Tasks : a < x => a \in Rows \union {t}
    BY RowsBeforeNext
  <2> HIDE DEF new
  <2> QED
    BY <1>1, <1>5, <1>6, <1>7, <2>1, <2>2, <2>3, <2>5, <2>6, ShapeStep
<1>9. TrackingNeverOnHold'
  BY <1>1, <1>3, <1>5, <1>6, <1>7, FirstRowsAreTasks DEF IInv, TrackingNeverOnHold, FirstRows, Rows
<1>10. OnHoldHasOpenChild'
  <2> SUFFICES ASSUME NEW x \in Rows', x # Root, status'[x] = "on_hold"
               PROVE  \E c \in Rows' : parent'[c] = x /\ status'[c] \in OpenStatuses
    BY DEF OnHoldHasOpenChild, OpenChildren, Children, IsOpen
  <2>1. x \in Rows /\ status[x] = "on_hold"
    BY <1>3, <1>5 DEF Rows
  <2>2. PICK c \in Rows : parent[c] = x /\ status[c] \in OpenStatuses
    BY <2>1 DEF IInv, OnHoldHasOpenChild, OpenChildren, Children, IsOpen
  <2>3. c # Distribution
    BY <2>2 DEF IInv, FirstRows
  <2>4. status'[c] \in OpenStatuses
    BY <1>1, <1>3, <2>2, <2>3 DEF Rows, OpenStatuses
  <2> QED
    BY <1>5, <1>6, <2>2, <2>4
<1> QED
  BY <1>4, <1>8, <1>9, <1>10 DEF IInv

\* Distributing the appeal gives the judge a new task, or replaces the one the
\* former judge had.
LEMMA DistributeReplaces ==
    ASSUME IInv, NEW t \in Tasks, Distribute(t)
    PROVE  \/ /\ status' = [AfterCreate([x \in {t} |-> "assigned"], Root, {})
                             EXCEPT ![Distribution] = "completed"]
              /\ parent' = [parent EXCEPT ![t] = Root]
           \/ \E j \in Rows : /\ type[j] = "JudgeAssignTask"
                              /\ IsOpen(j)
                              /\ Replaces(j, t, Root, {}, {Distribution})
<1> DEFINE given == {j \in Rows : type[j] = "JudgeAssignTask" /\ IsOpen(j)}
<1> DEFINE st(s) == AfterCreate([x \in {t} |-> s], Root, {})
<1>1. IsNextRow(t) /\ org' = org /\ type' = [type EXCEPT ![t] = "JudgeAssignTask"]
  BY DEF Distribute
<1>2. ASSUME NEW j \in given,
             status' = [st(status[j]) EXCEPT ![Distribution] = "completed", ![j] = "cancelled"],
             parent' = Adopted(j, t)
      PROVE  Replaces(j, t, Root, {}, {Distribution})
  <2>1. j \in Rows /\ IsOpen(j) /\ type[j] = "JudgeAssignTask"
    OBVIOUS
  <2>2. status' = Replaced(j, t, Root, {}, {Distribution})
    BY <1>2 DEF Replaced, AfterCreate
  <2>3. type' = [type EXCEPT ![t] = type[j]]
    BY <1>1, <2>1
  <2>4. type[j] \notin {"RootTask", "DistributionTask", "TrackVeteranTask"}
    BY <2>1
  <2>5. {} \subseteq OpenChildren(Root) /\ {Distribution} \subseteq {Distribution}
    OBVIOUS
  <2> HIDE DEF st, given
  <2> QED
    BY <1>1, <1>2, <2>1, <2>2, <2>3, <2>4, <2>5 DEF Replaces
<1> QED
  BY <1>2 DEF Distribute

LEMMA DistributeStep ==
    ASSUME IInv, NEW t \in Tasks, Distribute(t)
    PROVE  IInv'
BY DistributeReplaces, DistributeNewStep, ReplaceStep DEF Distribute
-----------------------------------------------------------------------------
(* Changing the type of a task *)

\* A branch of new rows N, its top n beside a, replaces the branch D below a:
\* the parent of a now waits for n, and whoever waited inside D is cancelled.
NewBranch(n, N, new, k, a, D, H) ==
    /\ n \in N
    /\ N \subseteq Tasks \ Rows
    /\ \A x \in N : \A y \in Tasks : y < x => y \in Rows \union N
    /\ DOMAIN new = N
    /\ \A x \in N : /\ new[x] \in OpenStatuses
                    /\ new[x] = "on_hold" <=> x = n /\ N # {n}
    /\ k \in TaskTypes \ {"RootTask", "TrackVeteranTask"}
    /\ a \in Rows
    /\ D \in Subtrees(a)
    /\ H \subseteq OpenChildren(parent[a])
    /\ status' = CancelOpen(D, AfterCreate(new, parent[a], H))
    /\ type' = [x \in Tasks |-> IF x \in N THEN k ELSE type[x]]
    /\ parent' = [x \in Tasks |-> IF x = n THEN parent[a] ELSE IF x \in N THEN n ELSE parent[x]]
    /\ org' = org \union N

\* Such a step keeps the invariant.
LEMMA NewBranchStep ==
    ASSUME IInv, NEW n, NEW N, NEW new, NEW k, NEW a, NEW D, NEW H,
           NewBranch(n, N, new, k, a, D, H)
    PROVE  IInv'
<1> DEFINE p == parent[a]
<1>1. /\ n \in N /\ N \subseteq Tasks /\ N \intersect Rows = {} /\ DOMAIN new = N
      /\ \A x \in N : new[x] \in OpenStatuses /\ (new[x] = "on_hold" => x = n /\ N # {n})
      /\ k \in TaskTypes /\ k # "RootTask" /\ k # "TrackVeteranTask"
      /\ a \in Rows /\ H \subseteq OpenChildren(p)
      /\ D \subseteq Rows /\ \A x \in D \ {a} : parent[x] \in D
      /\ Root \notin N /\ Distribution \notin N
  BY FirstRowsAreTasks DEF NewBranch, Subtrees, IInv, FirstRows, Rows
<1>2. p = NoTask \/ (p \in Rows /\ type[p] # "TrackVeteranTask")
  BY <1>1 DEF IInv, ParentsAreRows
<1>3. \A x \in N : status'[x] = new[x] /\ status'[x] \in OpenStatuses
  BY <1>1 DEF NewBranch, AfterCreate, CancelOpen, Rows
<1>4. \A x \in Tasks \ N : /\ status'[x] \in {"on_hold", "cancelled", status[x]}
                           /\ x \in D /\ IsOpen(x) => status'[x] = "cancelled"
                           /\ x \notin D /\ x \notin H => status'[x] \in {"on_hold", status[x]}
                           /\ x \notin D \union H \union {p} => status'[x] = status[x]
                           /\ status'[x] = "on_hold" => x = p \/ status[x] = "on_hold"
  <2> SUFFICES ASSUME NEW x \in Tasks \ N
               PROVE  /\ status'[x] \in {"on_hold", "cancelled", status[x]}
                      /\ x \in D /\ IsOpen(x) => status'[x] = "cancelled"
                      /\ x \notin D /\ x \notin H => status'[x] \in {"on_hold", status[x]}
                      /\ x \notin D \union H \union {p} => status'[x] = status[x]
                      /\ status'[x] = "on_hold" => x = p \/ status[x] = "on_hold"
    OBVIOUS
  <2>1. status'[x] = IF x \in D /\ IsOpen(x) THEN "cancelled" ELSE AfterCreate(new, p, H)[x]
    BY DEF NewBranch, CancelOpen
  <2>2. /\ AfterCreate(new, p, H)[x] \in {"on_hold", "cancelled", status[x]}
        /\ x \notin H \union {p} => AfterCreate(new, p, H)[x] = status[x]
        /\ x = p => AfterCreate(new, p, H)[x] \in {"on_hold", status[x]}
        /\ AfterCreate(new, p, H)[x] = "on_hold" => x = p \/ status[x] = "on_hold"
    BY <1>1, AfterCreateOthers DEF IInv
  <2> HIDE DEF p
  <2> QED
    BY <2>1, <2>2
<1>5. \A x \in Tasks \ N : status[x] # "none" <=> status'[x] # "none"
  <2> SUFFICES ASSUME NEW x \in Tasks \ N
               PROVE  status[x] # "none" <=> status'[x] # "none"
    OBVIOUS
  <2>1. x \in D \union H => status[x] # "none"
    BY <1>1 DEF OpenChildren, Children, Rows
  <2>2. x = p => status[x] # "none"
    BY <1>2, FirstRowsAreTasks DEF Rows
  <2> HIDE DEF p
  <2> QED
    BY <1>4, <2>1, <2>2
<1>6. Rows' = Rows \union N
  BY <1>1, <1>3, <1>5 DEF Rows, OpenStatuses, ActiveStatuses
<1>7. /\ \A x \in Tasks \ N : type'[x] = type[x] /\ parent'[x] = parent[x]
      /\ \A x \in N : type'[x] = k /\ (x # n => parent'[x] = n)
      /\ parent'[n] = p
  BY <1>1 DEF NewBranch
<1>8. TypeOK'
  <2>1. AfterCreate(new, p, H) \in [Tasks -> Statuses]
    BY <1>1, AfterCreateType DEF IInv, Statuses
  <2>2. status' \in [Tasks -> Statuses]
    BY <2>1 DEF NewBranch, CancelOpen, Statuses, ClosedStatuses
  <2>3. type' \in [Tasks -> TaskTypes] /\ parent' \in [Tasks -> Tasks \union {NoTask}] /\ org' \subseteq Tasks
    BY <1>1 DEF NewBranch, IInv, TypeOK, Rows
  <2> QED
    BY <2>2, <2>3 DEF TypeOK, Statuses
<1>9. FirstRows' /\ ParentsAreRows' /\ RowsInOrder'
  <2>1. \A x \in N : \A y \in Tasks : y < x => y \in Rows \union N
    BY DEF NewBranch
  <2>2. \A x \in Rows : x \in Tasks \ N
    BY <1>1 DEF Rows
  <2>3. parent'[Distribution] = Root
    BY <1>1, <1>7, FirstRowsAreTasks DEF IInv, FirstRows
  <2>4. \A x \in N : /\ type'[x] # "RootTask"
                     /\ parent'[x] # x
                     /\ parent'[x] \in Rows \union N \union {NoTask}
    BY <1>1, <1>2, <1>7, FirstRowsAreTasks DEF Rows
  <2>5. \A x \in Rows' : parent'[x] \in Rows' => type'[parent'[x]] # "TrackVeteranTask"
    BY <1>1, <1>2, <1>6, <1>7, <2>2, FirstRowsAreTasks DEF IInv, ParentsAreRows, Rows
  <2> QED
    BY <1>1, <1>6, <1>7, <2>1, <2>2, <2>3, <2>4, <2>5, ShapeStep
<1>10. TrackingNeverOnHold'
  <2> SUFFICES ASSUME NEW x \in Rows', type'[x] = "TrackVeteranTask", status'[x] = "on_hold"
               PROVE  FALSE
    BY DEF TrackingNeverOnHold
  <2>1. x \in Rows /\ x \in Tasks \ N
    BY <1>1, <1>6, <1>7 DEF Rows
  <2>2. type[x] = "TrackVeteranTask" /\ status[x] # "on_hold"
    BY <2>1, <1>7 DEF IInv, TrackingNeverOnHold
  <2> QED
    BY <1>2, <1>4, <2>1, <2>2, FirstRowsAreTasks
<1>11. OnHoldHasOpenChild'
  <2> SUFFICES ASSUME NEW x \in Rows', x # Root, status'[x] = "on_hold"
               PROVE  \E c \in Rows' : parent'[c] = x /\ status'[c] \in OpenStatuses
    BY DEF OnHoldHasOpenChild, OpenChildren, Children, IsOpen
  <2>1. CASE x \in N
    <3>1. PICK u \in N : u # n
      BY <2>1, <1>1, <1>3
    <3> QED
      BY <2>1, <3>1, <1>1, <1>3, <1>6, <1>7
  <2>2. CASE x = p
    BY <2>2, <1>1, <1>3, <1>6, <1>7
  <2>3. CASE x \in Rows /\ x # p
    <3>1. x \in Tasks \ N /\ status[x] = "on_hold"
      BY <2>3, <1>1, <1>4 DEF Rows
    <3>2. x \notin D
      BY <3>1, <1>4 DEF IsOpen, OpenStatuses
    <3>3. PICK c \in Rows : parent[c] = x /\ status[c] \in OpenStatuses
      BY <2>3, <3>1 DEF IInv, OnHoldHasOpenChild, OpenChildren, Children, IsOpen
    <3>4. c \notin H /\ c \notin D /\ c \in Tasks \ N
      BY <3>2, <3>3, <2>3, <1>1 DEF OpenChildren, Children, Rows
    <3>5. status'[c] \in OpenStatuses
      BY <3>3, <3>4, <1>4 DEF OpenStatuses
    <3> QED
      BY <3>3, <3>4, <3>5, <1>6, <1>7
  <2> QED
    BY <2>1, <2>2, <2>3, <1>6
<1> QED
  BY <1>8, <1>9, <1>10, <1>11 DEF IInv

\* A change of type replaces the branch below the top of a chain.
LEMMA ChangeTypeBranch ==
    ASSUME NEW t, NEW n, NEW k, ChangeType(t, n, k)
    PROVE  \E A \in SameTypeChains(t) : \E a \in A :
              /\ parent[a] \notin A
              /\ \E D \in Subtrees(a) : \E H \in HoldsEndedByChild(parent[a]) :
                    IF k \in MailTypes
                    THEN \E u \in Tasks : TwinOfMail(n, u, k, a, D, H)
                    ELSE TwinOfColocated(n, k, a, D, H)
BY DEF ChangeType

\* Both forms of a change of type create a branch: mail gets a task of the mail
\* team on hold for a second one, a colocated task a single new one.
LEMMA ChangeTypeIsNewBranch ==
    ASSUME IInv, NEW t \in Tasks, NEW n \in Tasks, NEW k \in TaskTypes, ChangeType(t, n, k)
    PROVE  \E A \in SameTypeChains(t) : \E a \in A : \E H \in HoldsEndedByChild(parent[a]) :
              parent[a] \notin A /\ \E N, new, D : NewBranch(n, N, new, k, a, D, H)
<1>0. PICK A \in SameTypeChains(t) : \E a \in A :
              /\ parent[a] \notin A
              /\ \E D \in Subtrees(a) : \E H \in HoldsEndedByChild(parent[a]) :
                    IF k \in MailTypes
                    THEN \E u \in Tasks : TwinOfMail(n, u, k, a, D, H)
                    ELSE TwinOfColocated(n, k, a, D, H)
  BY ChangeTypeBranch
<1>1. PICK a \in A :
              /\ parent[a] \notin A
              /\ \E D \in Subtrees(a) : \E H \in HoldsEndedByChild(parent[a]) :
                    IF k \in MailTypes
                    THEN \E u \in Tasks : TwinOfMail(n, u, k, a, D, H)
                    ELSE TwinOfColocated(n, k, a, D, H)
  BY <1>0
<1>2. PICK D \in Subtrees(a) : \E H \in HoldsEndedByChild(parent[a]) :
              IF k \in MailTypes
              THEN \E u \in Tasks : TwinOfMail(n, u, k, a, D, H)
              ELSE TwinOfColocated(n, k, a, D, H)
  BY <1>1
<1>4. PICK H \in HoldsEndedByChild(parent[a]) :
              IF k \in MailTypes
              THEN \E u \in Tasks : TwinOfMail(n, u, k, a, D, H)
              ELSE TwinOfColocated(n, k, a, D, H)
  BY <1>2
<1>5. a \in Rows /\ H \subseteq OpenChildren(parent[a])
  BY HoldsEndedAreChildren DEF SameTypeChains
<1>6. k \in TaskTypes \ {"RootTask", "TrackVeteranTask"}
  BY TypesAssumption DEF ChangeType, BuiltinTypes
<1>7. n \notin Rows /\ IsNextRow(n)
  BY DEF ChangeType, IsNextRow, Rows
<1>8. type \in [Tasks -> TaskTypes] /\ parent \in [Tasks -> Tasks \union {NoTask}]
  BY DEF IInv, TypeOK
<1>9. CASE k \in MailTypes
  <2>1. PICK u \in Tasks : TwinOfMail(n, u, k, a, D, H)
    BY <1>4, <1>9
  <2> DEFINE new == [y \in {n, u} |-> IF y = n THEN "on_hold" ELSE "assigned"]
  <2>2. u \notin Rows /\ u # n
    BY <1>7, <2>1, NextRowIsLast DEF TwinOfMail, IInv, Tasks
  <2>3. \A x \in {n, u} : \A y \in Tasks : y < x => y \in Rows \union {n, u}
    BY <1>7, <2>1, RowsBeforeNext DEF TwinOfMail, Tasks
  <2>4. \A x \in {n, u} : /\ new[x] \in OpenStatuses
                          /\ new[x] = "on_hold" <=> x = n /\ {n, u} # {n}
    BY <2>2 DEF OpenStatuses, ActiveStatuses
  <2>5. DOMAIN new = {n, u}
    OBVIOUS
  <2>6. /\ type' = [x \in Tasks |-> IF x \in {n, u} THEN k ELSE type[x]]
        /\ parent' = [x \in Tasks |-> IF x = n THEN parent[a] ELSE IF x \in {n, u} THEN n ELSE parent[x]]
    BY <1>8, <2>1, <2>2 DEF TwinOfMail
  <2>7. status' = CancelOpen(D, AfterCreate(new, parent[a], H)) /\ org' = org \union {n, u}
    BY <2>1 DEF TwinOfMail
  <2> HIDE DEF new
  <2>8. NewBranch(n, {n, u}, new, k, a, D, H)
    BY <1>6, <1>7, <1>5, <2>2, <2>3, <2>4, <2>5, <2>6, <2>7 DEF NewBranch
  <2> QED
    BY <1>1, <2>8
<1>10. CASE k \notin MailTypes
  <2> DEFINE new == [y \in {n} |-> "assigned"]
  <2>1. status' = CancelOpen(D, AfterCreate(new, parent[a], H)) /\ org' = org \union {n}
    BY <1>10, <1>4 DEF TwinOfColocated
  <2>2. /\ type' = [x \in Tasks |-> IF x \in {n} THEN k ELSE type[x]]
        /\ parent' = [x \in Tasks |-> IF x = n THEN parent[a] ELSE IF x \in {n} THEN n ELSE parent[x]]
    BY <1>8, <1>10, <1>4 DEF TwinOfColocated
  <2>3. \A x \in {n} : \A y \in Tasks : y < x => y \in Rows \union {n}
    BY <1>7, RowsBeforeNext
  <2>4. \A x \in {n} : /\ new[x] \in OpenStatuses
                       /\ new[x] = "on_hold" <=> x = n /\ {n} # {n}
    BY DEF OpenStatuses, ActiveStatuses
  <2>5. DOMAIN new = {n}
    OBVIOUS
  <2> HIDE DEF new
  <2>6. NewBranch(n, {n}, new, k, a, D, H)
    BY <1>6, <1>7, <1>5, <2>1, <2>2, <2>3, <2>4, <2>5 DEF NewBranch
  <2> QED
    BY <1>1, <2>6
<1> QED
  BY <1>9, <1>10

LEMMA ChangeTypeStep ==
    ASSUME IInv, NEW t \in Tasks, NEW n \in Tasks, NEW k \in TaskTypes, ChangeType(t, n, k)
    PROVE  IInv'
BY ChangeTypeIsNewBranch, NewBranchStep

-----------------------------------------------------------------------------
(* A new representative *)

\* Only the tracking task t and IHP tasks, the rows N, are created, while those
\* of the former representative are cancelled: the parent p of a new IHP task is
\* kept on hold.
NewTracking(t, N, new, p, kept) ==
    /\ t \in N
    /\ N \subseteq Tasks \ Rows
    /\ \A x \in N : \A y \in Tasks : y < x => y \in Rows \union N
    /\ new \in [N -> ActiveStatuses]
    /\ p = NoTask \/ (p \in Rows /\ type[p] # "TrackVeteranTask")
    /\ \/ p = Root /\ kept = {}
       \/ kept = {p} /\ N # {t}
    /\ status' = AfterCancelFormer(AfterCreate(new, p, {}), kept)
    /\ \A x \in Tasks \ N : type'[x] = type[x] /\ parent'[x] = parent[x]
    /\ \A x \in N : type'[x] \in {"TrackVeteranTask", "InformalHearingPresentationTask"}
    /\ parent'[t] = Root
    /\ \A x \in N \ {t} : parent'[x] = p
    /\ org' = org \union N
    /\ type' \in [Tasks -> TaskTypes]
    /\ parent' \in [Tasks -> Tasks \union {NoTask}]

\* Such a step keeps the invariant: p has the new IHP task to wait for, every
\* other row on hold keeps a child.
LEMMA NewTrackingStep ==
    ASSUME IInv, NEW t, NEW N, NEW new, NEW p, NEW kept, NewTracking(t, N, new, p, kept)
    PROVE  IInv'
<1>1. /\ t \in N /\ N \subseteq Tasks /\ N \intersect Rows = {}
      /\ \A x \in N : \A y \in Tasks : y < x => y \in Rows \union N
      /\ new \in [N -> ActiveStatuses]
      /\ p = NoTask \/ (p \in Rows /\ type[p] # "TrackVeteranTask")
      /\ (p = Root /\ kept = {}) \/ (kept = {p} /\ N # {t})
      /\ status' = AfterCancelFormer(AfterCreate(new, p, {}), kept)
      /\ \A x \in Tasks \ N : type'[x] = type[x] /\ parent'[x] = parent[x]
      /\ \A x \in N : type'[x] \in {"TrackVeteranTask", "InformalHearingPresentationTask"}
      /\ parent'[t] = Root
      /\ \A x \in N \ {t} : parent'[x] = p
      /\ org' = org \union N
      /\ type' \in [Tasks -> TaskTypes]
      /\ parent' \in [Tasks -> Tasks \union {NoTask}]
  BY DEF NewTracking
<1> DEFINE st == AfterCreate(new, p, {})
<1>2. /\ Root \in Rows /\ Distribution \in Rows
      /\ type[Root] # "TrackVeteranTask"
      /\ \A x \in Rows : x \in Tasks \ N
      /\ DOMAIN new = N /\ \A x \in N : new[x] \in ActiveStatuses
  BY <1>1, FirstRowsAreTasks DEF IInv, FirstRows, Rows
<1>3. \A x \in N : st[x] = new[x]
  BY <1>1, <1>2 DEF AfterCreate
<1>4. \A x \in Tasks \ N : /\ st[x] \in {"on_hold", status[x]}
                           /\ x # p => st[x] = status[x]
  BY <1>2 DEF AfterCreate, ParentAfterCreate
<1>5. st \in [Tasks -> Statuses]
  BY <1>2, AfterCreateType DEF IInv, Statuses, OpenStatuses
<1> HIDE DEF st
<1>6. /\ status' \in [Tasks -> Statuses]
      /\ CancelledWithFormer \subseteq Rows
      /\ \A x \in Tasks :
           /\ status'[x] \in {"cancelled", "assigned", st[x]}
           /\ x \notin Rows => status'[x] = st[x]
           /\ x \notin CancelledWithFormer => status'[x] \in {"assigned", st[x]}
  BY <1>1, <1>5, AfterCancelFormerValues DEF st
<1>7. \A x \in N : status'[x] \in ActiveStatuses
  BY <1>1, <1>2, <1>3, <1>6
<1>8. \A x \in Tasks \ N : status[x] # "none" <=> status'[x] # "none"
  BY <1>1, <1>4, <1>6, FirstRowsAreTasks DEF Rows
<1>9. Rows' = Rows \union N
  BY <1>1, <1>7, <1>8 DEF Rows, ActiveStatuses
<1>10. TypeOK'
  BY <1>1, <1>6 DEF IInv, TypeOK, Statuses
<1>11. FirstRows' /\ ParentsAreRows' /\ RowsInOrder'
  <2>1. parent'[Distribution] = Root
    BY <1>1, <1>2 DEF IInv, FirstRows
  <2>2. \A x \in N : /\ type'[x] # "RootTask"
                     /\ parent'[x] # x
                     /\ parent'[x] \in Rows \union N \union {NoTask}
    BY <1>1, <1>2, FirstRowsAreTasks
  <2>3. \A x \in Rows' : parent'[x] \in Rows' => type'[parent'[x]] # "TrackVeteranTask"
    BY <1>1, <1>2, <1>9, FirstRowsAreTasks DEF IInv, ParentsAreRows, Rows
  <2> QED
    BY <1>1, <1>2, <1>9, <2>1, <2>2, <2>3, ShapeStep
<1>12. TrackingNeverOnHold'
  <2> SUFFICES ASSUME NEW x \in Rows', type'[x] = "TrackVeteranTask", status'[x] = "on_hold"
               PROVE  FALSE
    BY DEF TrackingNeverOnHold
  <2>1. x \in Rows /\ x \in Tasks \ N
    BY <1>2, <1>7, <1>9 DEF ActiveStatuses
  <2>2. type[x] = "TrackVeteranTask" /\ status[x] # "on_hold"
    BY <2>1, <1>1 DEF IInv, TrackingNeverOnHold
  <2> QED
    BY <1>1, <1>4, <1>6, <2>1, <2>2, FirstRowsAreTasks
<1>13. OnHoldHasOpenChild'
  <2> SUFFICES ASSUME NEW x \in Rows', x # Root, status'[x] = "on_hold"
               PROVE  \E c \in Rows' : parent'[c] = x /\ status'[c] \in OpenStatuses
    BY DEF OnHoldHasOpenChild, OpenChildren, Children, IsOpen
  <2>1. x \in Rows /\ x \in Tasks \ N
    BY <1>2, <1>7, <1>9 DEF ActiveStatuses
  <2>2. CASE x = p
    <3>1. PICK i \in N : i # t
      BY <2>2, <1>1
    <3> QED
      BY <2>2, <3>1, <1>1, <1>7, <1>9 DEF OpenStatuses
  <2>3. CASE x # p
    <3>1. status[x] = "on_hold" /\ x \notin kept
      BY <2>1, <2>3, <1>1, <1>4, <1>6
    <3>2. PICK c \in OpenChildren(x) : c \notin CancelledWithFormer
      BY <2>1, <3>1, <1>1, CancelFormerKeepsChild
    <3>3. c \in Rows /\ parent[c] = x /\ status[c] \in OpenStatuses
      BY <3>2 DEF OpenChildren, Children, IsOpen
    <3>4. status'[c] \in OpenStatuses
      BY <3>2, <3>3, <1>2, <1>4, <1>6 DEF OpenStatuses, ActiveStatuses
    <3> QED
      BY <3>3, <3>4, <1>1, <1>2, <1>9
  <2> QED
    BY <2>2, <2>3
<1> QED
  BY <1>10, <1>11, <1>12, <1>13 DEF IInv

\* An agent gets a tracking task, a service organization an IHP task as well.
LEMMA NewRepresentativeTracks ==
    ASSUME IInv, NEW t \in Tasks, NEW r \in Representatives, NewRepresentative(t, r)
    PROVE  \E N, new, p, kept :
              /\ NewTracking(t, N, new, p, kept)
              /\ p = Root \/ p \in IhpParents
              /\ type'[t] = "TrackVeteranTask"
              /\ \A x \in N \ {t} : type'[x] = "InformalHearingPresentationTask"
<1>0. /\ type \in [Tasks -> TaskTypes] /\ parent \in [Tasks -> Tasks \union {NoTask}]
      /\ Root \in Rows /\ Distribution \in Rows
      /\ type[Root] # "TrackVeteranTask" /\ type[Distribution] # "TrackVeteranTask"
      /\ IsNextRow(t) /\ t \notin Rows
      /\ "TrackVeteranTask" \in TaskTypes /\ "InformalHearingPresentationTask" \in TaskTypes
  BY FirstRowsAreTasks DEF IInv, TypeOK, FirstRows, Rows, NewRepresentative, IsNextRow, TaskTypes, BuiltinTypes
<1>1. CASE r = "agent"
  <2> DEFINE new == [x \in {t} |-> "in_progress"]
  <2>1. /\ status' = AfterCancelFormer(AfterCreate(new, Root, {}), {})
        /\ type' = [type EXCEPT ![t] = "TrackVeteranTask"]
        /\ parent' = [parent EXCEPT ![t] = Root]
        /\ org' = org \union {t}
    BY <1>1 DEF NewRepresentative
  <2>2. \A x \in {t} : \A y \in Tasks : y < x => y \in Rows \union {t}
    BY <1>0, RowsBeforeNext
  <2>3. new \in [{t} -> ActiveStatuses]
    BY DEF ActiveStatuses
  <2>4. /\ \A x \in Tasks \ {t} : type'[x] = type[x] /\ parent'[x] = parent[x]
        /\ type'[t] = "TrackVeteranTask" /\ parent'[t] = Root
        /\ type' \in [Tasks -> TaskTypes] /\ parent' \in [Tasks -> Tasks \union {NoTask}]
    BY <1>0, <2>1, FirstRowsAreTasks
  <2> HIDE DEF new
  <2>5. NewTracking(t, {t}, new, Root, {})
    BY <1>0, <2>1, <2>2, <2>3, <2>4 DEF NewTracking
  <2> QED
    BY <2>4, <2>5
<1>2. CASE r # "agent"
  <2>1. PICK i \in Tasks, p \in IhpParents :
          /\ i = t + 1
          /\ status' = AfterCancelFormer(AfterCreate(
                [x \in {t, i} |-> IF x = t THEN "in_progress" ELSE "assigned"], p, {}), {p})
          /\ type'   = [type EXCEPT ![t] = "TrackVeteranTask",
                                    ![i] = "InformalHearingPresentationTask"]
          /\ parent' = [parent EXCEPT ![t] = Root, ![i] = p]
          /\ org'    = org \union {t, i}
    BY <1>2 DEF NewRepresentative
  <2> DEFINE new == [x \in {t, i} |-> IF x = t THEN "in_progress" ELSE "assigned"]
  <2>2. i \notin Rows /\ i # t
    BY <1>0, <2>1, NextRowIsLast DEF IInv, Tasks
  <2>3. \A x \in {t, i} : \A y \in Tasks : y < x => y \in Rows \union {t, i}
    BY <1>0, <2>1, RowsBeforeNext DEF Tasks
  <2>4. new \in [{t, i} -> ActiveStatuses]
    BY DEF ActiveStatuses
  <2>5. p \in Rows \union {NoTask} /\ (p # NoTask => type[p] # "TrackVeteranTask")
    BY <1>0 DEF IhpParents, FormerTasks, IInv, ParentsAreRows
  <2>6. /\ \A x \in Tasks \ {t, i} : type'[x] = type[x] /\ parent'[x] = parent[x]
        /\ type'[t] = "TrackVeteranTask" /\ type'[i] = "InformalHearingPresentationTask"
        /\ parent'[t] = Root /\ parent'[i] = p
        /\ type' \in [Tasks -> TaskTypes]
    BY <1>0, <2>1, <2>2
  <2>7. parent' \in [Tasks -> Tasks \union {NoTask}]
    BY <1>0, <2>1, <2>5, FirstRowsAreTasks DEF Rows
  <2>8. status' = AfterCancelFormer(AfterCreate(new, p, {}), {p}) /\ org' = org \union {t, i}
    BY <2>1
  <2> HIDE DEF new
  <2>9. NewTracking(t, {t, i}, new, p, {p})
    BY <1>0, <2>2, <2>3, <2>4, <2>5, <2>6, <2>7, <2>8 DEF NewTracking
  <2> QED
    BY <2>1, <2>6, <2>9
<1> QED
  BY <1>1, <1>2

LEMMA NewRepresentativeStep ==
    ASSUME IInv, NEW t \in Tasks, NEW r \in Representatives, NewRepresentative(t, r)
    PROVE  IInv'
BY NewRepresentativeTracks, NewTrackingStep
-----------------------------------------------------------------------------
(* The specification *)

\* An open task is a row of the tree.
LEMMA OpenIsRow ==
    ASSUME NEW t \in Tasks, IsOpen(t)
    PROVE  t \in Rows
BY DEF Rows, IsOpen, OpenStatuses, ActiveStatuses

\* A task created by a user below an open one, alone or as a pair.
LEMMA CreateTaskStep ==
    ASSUME IInv, NEW t \in Tasks, NEW p \in Tasks, NEW k \in TaskTypes, NEW o \in BOOLEAN,
           CreateTask(t, p, k, o)
    PROVE  IInv'
<1>1. /\ p \in Rows /\ type[p] # "TrackVeteranTask"
      /\ k \notin {"RootTask", "TrackVeteranTask"}
      /\ "assigned" \in ActiveStatuses
  BY OpenIsRow, TypesAssumption DEF CreateTask, BuiltinTypes, ActiveStatuses
<1>2. PICK H \in HoldsEndedByChild(p) :
          IF o /\ k \in AutoAssignTypes
          THEN \E u \in Tasks : InsertPair(t, u, k, p, FALSE, H)
          ELSE Insert(t, k, p, o, "assigned", H)
  BY DEF CreateTask
<1>3. H \subseteq OpenChildren(p)
  BY HoldsEndedAreChildren
<1>4. CASE o /\ k \in AutoAssignTypes
  <2>1. PICK u \in Tasks : InsertPair(t, u, k, p, FALSE, H)
    BY <1>2, <1>4
  <2> QED
    BY <1>1, <1>3, <2>1, InsertPairStep
<1>5. CASE ~ (o /\ k \in AutoAssignTypes)
  <2>1. Insert(t, k, p, o, "assigned", H)
    BY <1>2, <1>5
  <2> QED
    BY <1>1, <1>3, <2>1, InsertStep
<1> QED
  BY <1>4, <1>5

\* New mail hangs from the RootTask or the DistributionTask, alone or as a pair.
LEMMA CreateMailStep ==
    ASSUME IInv, NEW t \in Tasks, NEW k \in MailTypes, NEW routed \in BOOLEAN, NEW o \in BOOLEAN,
           CreateMail(t, k, routed, o)
    PROVE  IInv'
<1>1. /\ k \in TaskTypes /\ k \notin {"RootTask", "TrackVeteranTask"}
      /\ "assigned" \in ActiveStatuses
  BY TypesAssumption DEF TaskTypes, BuiltinTypes, ActiveStatuses
<1>2. PICK p \in {Root, Distribution} : \E H \in HoldsEndedByChild(p) :
          IF routed
          THEN \E u \in Tasks : InsertPair(t, u, k, p, o, H)
          ELSE Insert(t, k, p, TRUE, "assigned", H)
  BY DEF CreateMail
<1>3. p \in Rows /\ type[p] # "TrackVeteranTask"
  BY FirstRowsAreTasks DEF IInv, FirstRows, Rows
<1>4. PICK H \in HoldsEndedByChild(p) :
          IF routed
          THEN \E u \in Tasks : InsertPair(t, u, k, p, o, H)
          ELSE Insert(t, k, p, TRUE, "assigned", H)
  BY <1>2
<1>5. H \subseteq OpenChildren(p)
  BY HoldsEndedAreChildren
<1>6. CASE routed
  <2>1. PICK u \in Tasks : InsertPair(t, u, k, p, o, H)
    BY <1>4, <1>6
  <2> QED
    BY <1>1, <1>3, <1>5, <2>1, InsertPairStep
<1>7. CASE ~ routed
  <2>1. Insert(t, k, p, TRUE, "assigned", H)
    BY <1>4, <1>7
  <2> QED
    BY <1>1, <1>3, <1>5, <2>1, InsertStep
<1> QED
  BY <1>6, <1>7

\* A mail task below an open mail task or the DistributionTask.
LEMMA AssignMailStep ==
    ASSUME IInv, NEW t \in Tasks, NEW p \in Tasks, NEW k \in MailTypes, NEW o \in BOOLEAN,
           AssignMail(t, p, k, o)
    PROVE  IInv'
<1>1. /\ p \in Rows /\ type[p] # "TrackVeteranTask"
      /\ k \in TaskTypes /\ k \notin {"RootTask", "TrackVeteranTask"}
      /\ "assigned" \in ActiveStatuses
  BY OpenIsRow, TypesAssumption
     DEF AssignMail, TaskTypes, BuiltinTypes, ActiveStatuses, IInv, FirstRows
<1>2. PICK H \in HoldsEndedByChild(p) : Insert(t, k, p, o, "assigned", H)
  BY DEF AssignMail
<1>3. H \subseteq OpenChildren(p)
  BY HoldsEndedAreChildren
<1> QED
  BY <1>1, <1>2, <1>3, InsertStep

\* A hold is placed on a row: what is not created yet has the type RootTask.
LEMMA PlaceHoldStep ==
    ASSUME IInv, NEW h \in Tasks, NEW t \in Tasks, PlaceHold(h, t)
    PROVE  IInv'
<1>1. /\ type[t] \notin {"RootTask", "TrackVeteranTask"}
      /\ "TimedHoldTask" \in TaskTypes /\ "assigned" \in ActiveStatuses
      /\ (t \in org) \in BOOLEAN
  BY TypesAssumption DEF PlaceHold, TaskTypes, BuiltinTypes, ActiveStatuses
<1>2. t \in Rows
  BY <1>1 DEF IInv, FirstRows, Rows
<1>3. Insert(h, "TimedHoldTask", t, t \in org, "assigned", ActiveHolds(t))
  BY DEF PlaceHold
<1>4. ActiveHolds(t) \subseteq OpenChildren(t)
  BY DEF ActiveHolds
<1> QED
  BY <1>1, <1>2, <1>3, <1>4, InsertStep

\* The invariant holds at intake.
LEMMA InitIInv == Init => IInv
<1> SUFFICES ASSUME Init
             PROVE  IInv
  OBVIOUS
<1> USE FirstRowsAreTasks DEF Init
<1>1. TypeOK
  BY DEF TypeOK, TaskTypes, BuiltinTypes, OpenStatuses, ActiveStatuses
<1>2. FirstRows
  BY DEF FirstRows
<1>3. Rows = {Root, Distribution}
  BY DEF Rows
<1>4. ParentsAreRows /\ TrackingNeverOnHold
  BY <1>3 DEF ParentsAreRows, TrackingNeverOnHold
<1>5. RowsInOrder
  BY <1>3, MaxTasksAssumption DEF RowsInOrder, Tasks, Root, Distribution
<1>6. OnHoldHasOpenChild
  BY <1>3 DEF OnHoldHasOpenChild
<1> QED
  BY <1>1, <1>2, <1>4, <1>5, <1>6 DEF IInv

\* Every step keeps it.
LEMMA NextIInv == IInv /\ [Next]_vars => IInv'
<1> SUFFICES ASSUME IInv, [Next]_vars
             PROVE  IInv'
  OBVIOUS
<1>1. CASE UNCHANGED vars
  BY <1>1 DEF vars, IInv, TypeOK, FirstRows, ParentsAreRows, RowsInOrder, TrackingNeverOnHold,
              OnHoldHasOpenChild, OpenChildren, Children, IsOpen, Rows
<1>2. CASE UserStep
  <2>1. CASE \E t, p \in Tasks : \E k \in TaskTypes, o \in BOOLEAN : CreateTask(t, p, k, o)
    BY <2>1, CreateTaskStep
  <2>2. CASE \E t, p \in Tasks : \E k \in MailTypes, o \in BOOLEAN : AssignMail(t, p, k, o)
    BY <2>2, AssignMailStep
  <2>3. CASE \E t, p \in Tasks : PlaceHold(t, p)
    BY <2>3, PlaceHoldStep
  <2>4. CASE \E t, p \in Tasks : Reassign(p, t)
    BY <2>4, ReassignStep
  <2>5. CASE \E t, p \in Tasks : \E k \in TaskTypes : ChangeType(p, t, k)
    BY <2>5, ChangeTypeStep
  <2>6. CASE \E t \in Tasks, k \in MailTypes, routed, o \in BOOLEAN : CreateMail(t, k, routed, o)
    BY <2>6, CreateMailStep
  <2>7. CASE \E t \in Rows : Start(t)
    BY <2>7, StartStep
  <2>8. CASE \E t \in Rows : \E s \in ClosedStatuses : UpdateStatus(t, s)
    BY <2>8, CloseStep DEF UpdateStatus
  <2>9. CASE \E t \in Rows : EndHold(t)
    <3>1. PICK t \in Rows : \E h \in ActiveHolds(t) : Close(h, "cancelled")
      BY <2>9 DEF EndHold
    <3>2. PICK h \in ActiveHolds(t) : Close(h, "cancelled")
      BY <3>1
    <3>3. h \in Rows /\ "cancelled" \in ClosedStatuses
      BY DEF ActiveHolds, OpenChildren, Children, ClosedStatuses
    <3> QED
      BY <3>2, <3>3, CloseStep
  <2> QED
    BY <1>2, <2>1, <2>2, <2>3, <2>4, <2>5, <2>6, <2>7, <2>8, <2>9 DEF UserStep
<1>3. CASE SystemStep
  <2>1. CASE \E t \in Rows : HoldExpires(t)
    <3>1. PICK t \in Rows : Close(t, "completed")
      BY <2>1 DEF HoldExpires
    <3>2. "completed" \in ClosedStatuses
      BY DEF ClosedStatuses
    <3> QED
      BY <3>1, <3>2, CloseStep
  <2>2. CASE \E t \in Tasks : Distribute(t)
    BY <2>2, DistributeStep
  <2>3. CASE \E t \in Tasks, r \in Representatives : NewRepresentative(t, r)
    BY <2>3, NewRepresentativeStep
  <2>4. CASE NoRepresentative
    BY <2>4, NoRepresentativeStep
  <2>5. CASE CancelActiveTasks
    BY <2>5, CancelActiveTasksStep
  <2>6. CASE WithdrawAppeal
    BY <2>6, WithdrawAppealStep
  <2> QED
    BY <1>3, <2>1, <2>2, <2>3, <2>4, <2>5, <2>6 DEF SystemStep
<1> QED
  BY <1>1, <1>2, <1>3 DEF Next

\* The inductive invariant holds in every reachable state.
THEOREM InductiveInvariant == Spec => []IInv
BY InitIInv, NextIInv, PTL DEF Spec

\* Whatever the users and the system do, statuses, types, parents and
\* assignments stay within their ranges.
THEOREM TypeCorrect == Spec => []TypeOK
<1>1. IInv => TypeOK
  BY DEF IInv
<1> QED
  BY <1>1, InductiveInvariant, PTL

\* No task of an appeal is ever stuck on hold with nothing to wait for,
\* whatever the number of tasks and the task types in play, holds requested
\* from outdated pages included.
THEOREM NoTaskStuckOnHold == Spec => []OnHoldHasOpenChild
<1>1. IInv => OnHoldHasOpenChild
  BY DEF IInv
<1> QED
  BY <1>1, InductiveInvariant, PTL
-----------------------------------------------------------------------------
(* A closed RootTask *)

\* New rows leave a closed RootTask as it is: it does not go on hold for them,
\* and a closed task is no hold that they end.
LEMMA AfterCreateRoot ==
    ASSUME IsClosed(Root), NEW new, Root \notin DOMAIN new, NEW p, NEW H, H \subseteq OpenChildren(p)
    PROVE  AfterCreate(new, p, H)[Root] = status[Root]
<1>1. ~ IsOpen(Root) /\ status[Root] \notin ActiveStatuses
  BY DEF IsOpen, IsClosed, OpenStatuses, ActiveStatuses, ClosedStatuses
<1>2. Root \notin H
  BY <1>1 DEF OpenChildren
<1> QED
  BY <1>1, <1>2, FirstRowsAreTasks DEF AfterCreate, ParentAfterCreate

\* The chain of a closing task stops below the RootTask.
LEMMA CloseRoot ==
    ASSUME IInv, IsClosed(Root), NEW t \in Rows, t # Root, NEW s, Close(t, s)
    PROVE  status'[Root] = status[Root]
<1>1. PICK S \in ClosingChains(t), H \in ActiveHold(t) :
           \E C \in CancelledOf(t, s, S) : status' = AfterClose(S, C, H)
  BY DEF Close
<1>2. PICK C \in CancelledOf(t, s, S) : status' = AfterClose(S, C, H)
  BY <1>1
<1>3. Root \notin S
  BY DEF ClosingChains, ClosesWith
<1>4. Root \notin H
  BY ActiveHoldIsChild DEF OpenChildren, IsOpen, IsClosed, OpenStatuses, ActiveStatuses, ClosedStatuses
<1>5. Root \notin C /\ Root \notin Released(S)
  BY <1>3 DEF CancelledOf, Released
<1> QED
  BY <1>2, <1>3, <1>4, <1>5, FirstRowsAreTasks DEF AfterClose

\* Neither is it among the tasks cancelled with those of a former representative.
LEMMA CancelFormerRoot ==
    ASSUME IsClosed(Root), NEW st, NEW kept
    PROVE  AfterCancelFormer(st, kept)[Root] = st[Root]
<1>1. ~ IsOpen(Root)
  BY DEF IsOpen, IsClosed, OpenStatuses, ActiveStatuses, ClosedStatuses
<1>2. Root \notin CancelledWithFormer
  BY <1>1 DEF CancelledWithFormer, FormerTasks, ActiveHolds, OpenChildren
<1> QED
  BY <1>2, FirstRowsAreTasks DEF AfterCancelFormer

\* Once closed, the RootTask keeps its status in every step.
LEMMA ClosedRootStep ==
    ASSUME IInv, Next, IsClosed(Root)
    PROVE  status'[Root] = status[Root]
<1>1. /\ ~ IsOpen(Root) /\ Root \in Tasks /\ Root # Distribution /\ type[Root] = "RootTask"
      /\ status \in [Tasks -> Statuses] /\ status[Root] # "none"
  BY FirstRowsAreTasks DEF IInv, TypeOK, FirstRows, IsOpen, IsClosed, OpenStatuses, ActiveStatuses, ClosedStatuses, Statuses
<1>2. \A t \in Tasks : IsNextRow(t) => t # Root
  BY <1>1 DEF IsNextRow
<1>3. \A t \in Tasks : ActionsAvailable(t) => t # Root
  BY <1>1 DEF ActionsAvailable
<1>4. ASSUME NEW t \in Tasks, NEW k, NEW p, NEW o, NEW s, NEW H, H \subseteq OpenChildren(p), Insert(t, k, p, o, s, H)
      PROVE  status'[Root] = status[Root]
  <2> DEFINE new == [x \in {t} |-> s]
  <2>1. status' = AfterCreate(new, p, H) /\ Root \notin DOMAIN new
    BY <1>2, <1>4 DEF Insert
  <2> HIDE DEF new
  <2> QED
    BY <1>4, <2>1, AfterCreateRoot
<1>5. ASSUME NEW t \in Tasks, NEW u \in Tasks, NEW k, NEW p, NEW o, NEW H, H \subseteq OpenChildren(p), InsertPair(t, u, k, p, o, H)
      PROVE  status'[Root] = status[Root]
  <2> DEFINE new == [x \in {t, u} |-> IF x = t THEN "on_hold" ELSE "assigned"]
  <2>1. status' = AfterCreate(new, p, H) /\ t # Root /\ u = t + 1
    BY <1>2, <1>5 DEF InsertPair
  <2>2. Root \notin DOMAIN new
    BY <2>1 DEF Tasks, Root
  <2> HIDE DEF new
  <2> QED
    BY <1>5, <2>1, <2>2, AfterCreateRoot
<1>6. CASE UserStep
  <2>1. CASE \E t, p \in Tasks : \E k \in TaskTypes, o \in BOOLEAN : CreateTask(t, p, k, o)
    <3>1. PICK t \in Tasks, p \in Tasks, k \in TaskTypes, o \in BOOLEAN : CreateTask(t, p, k, o)
      BY <2>1
    <3>2. PICK H \in HoldsEndedByChild(p) :
              IF o /\ k \in AutoAssignTypes
              THEN \E u \in Tasks : InsertPair(t, u, k, p, FALSE, H)
              ELSE Insert(t, k, p, o, "assigned", H)
      BY <3>1 DEF CreateTask
    <3>3. H \subseteq OpenChildren(p)
      BY HoldsEndedAreChildren
    <3> QED
      BY <1>4, <1>5, <3>2, <3>3
  <2>2. CASE \E t, p \in Tasks : \E k \in MailTypes, o \in BOOLEAN : AssignMail(t, p, k, o)
    <3>1. PICK t \in Tasks, p \in Tasks, k \in MailTypes, o \in BOOLEAN : AssignMail(t, p, k, o)
      BY <2>2
    <3>2. PICK H \in HoldsEndedByChild(p) : Insert(t, k, p, o, "assigned", H)
      BY <3>1 DEF AssignMail
    <3> QED
      BY <1>4, <3>2, HoldsEndedAreChildren
  <2>3. CASE \E t, p \in Tasks : PlaceHold(t, p)
    <3>1. PICK t \in Tasks, p \in Tasks : Insert(t, "TimedHoldTask", p, p \in org, "assigned", ActiveHolds(p))
      BY <2>3 DEF PlaceHold
    <3>2. ActiveHolds(p) \subseteq OpenChildren(p)
      BY DEF ActiveHolds
    <3> QED
      BY <1>4, <3>1, <3>2
  <2>4. CASE \E t, p \in Tasks : Reassign(p, t)
    <3>1. PICK r \in Tasks, t \in Tasks : Reassign(t, r)
      BY <2>4
    <3>2. PICK H \in HoldsEndedByChild(parent[t]) :
            status' = [AfterCreate([x \in {r} |-> status[t]], parent[t], H) EXCEPT ![t] = "cancelled"]
      BY <3>1 DEF Reassign
    <3> DEFINE new == [x \in {r} |-> status[t]]
    <3>3. t # Root /\ Root \notin DOMAIN new
      BY <1>2, <1>3, <3>1 DEF Reassign
    <3>4. AfterCreate(new, parent[t], H)[Root] = status[Root]
      BY <3>3, HoldsEndedAreChildren, AfterCreateRoot
    <3>5. AfterCreate(new, parent[t], H) = [x \in Tasks |-> AfterCreate(new, parent[t], H)[x]]
      BY DEF AfterCreate
    <3> HIDE DEF new
    <3> QED
      BY <1>1, <3>2, <3>3, <3>4, <3>5 DEF new
  <2>5. CASE \E t, p \in Tasks : \E k \in TaskTypes : ChangeType(p, t, k)
    <3>1. PICK n \in Tasks, t \in Tasks, k \in TaskTypes : ChangeType(t, n, k)
      BY <2>5
    <3>2. PICK a : \E D \in Subtrees(a) : \E H \in HoldsEndedByChild(parent[a]) :
              IF k \in MailTypes
              THEN \E u \in Tasks : TwinOfMail(n, u, k, a, D, H)
              ELSE TwinOfColocated(n, k, a, D, H)
      BY <3>1, ChangeTypeBranch
    <3>3. PICK D \in Subtrees(a) : \E H \in HoldsEndedByChild(parent[a]) :
              IF k \in MailTypes
              THEN \E u \in Tasks : TwinOfMail(n, u, k, a, D, H)
              ELSE TwinOfColocated(n, k, a, D, H)
      BY <3>2
    <3>4. PICK H \in HoldsEndedByChild(parent[a]) :
              IF k \in MailTypes
              THEN \E u \in Tasks : TwinOfMail(n, u, k, a, D, H)
              ELSE TwinOfColocated(n, k, a, D, H)
      BY <3>3
    <3>5. H \subseteq OpenChildren(parent[a]) /\ n # Root
      BY <1>2, <3>1, HoldsEndedAreChildren DEF ChangeType
    <3>6. CASE k \in MailTypes
      <4>1. PICK u \in Tasks : TwinOfMail(n, u, k, a, D, H)
        BY <3>4, <3>6
      <4> DEFINE new == [x \in {n, u} |-> IF x = n THEN "on_hold" ELSE "assigned"]
      <4>2. Root \notin DOMAIN new
        BY <3>5, <4>1 DEF TwinOfMail, Tasks, Root
      <4>3. status' = CancelOpen(D, AfterCreate(new, parent[a], H))
        BY <4>1 DEF TwinOfMail
      <4> HIDE DEF new
      <4> QED
        BY <1>1, <3>5, <4>2, <4>3, AfterCreateRoot DEF CancelOpen
    <3>7. CASE k \notin MailTypes
      <4> DEFINE new == [x \in {n} |-> "assigned"]
      <4>1. status' = CancelOpen(D, AfterCreate(new, parent[a], H)) /\ Root \notin DOMAIN new
        BY <3>4, <3>5, <3>7 DEF TwinOfColocated
      <4> HIDE DEF new
      <4> QED
        BY <1>1, <3>5, <4>1, AfterCreateRoot DEF CancelOpen
    <3> QED
      BY <3>6, <3>7
  <2>6. CASE \E t \in Tasks, k \in MailTypes, routed, o \in BOOLEAN : CreateMail(t, k, routed, o)
    <3>1. PICK t \in Tasks, p \in {Root, Distribution}, k \in MailTypes, routed \in BOOLEAN, o \in BOOLEAN :
            \E H \in HoldsEndedByChild(p) :
              IF routed
              THEN \E u \in Tasks : InsertPair(t, u, k, p, o, H)
              ELSE Insert(t, k, p, TRUE, "assigned", H)
      BY <2>6 DEF CreateMail
    <3>2. PICK H \in HoldsEndedByChild(p) :
              IF routed
              THEN \E u \in Tasks : InsertPair(t, u, k, p, o, H)
              ELSE Insert(t, k, p, TRUE, "assigned", H)
      BY <3>1
    <3>3. H \subseteq OpenChildren(p)
      BY HoldsEndedAreChildren
    <3> QED
      BY <1>4, <1>5, <3>2, <3>3
  <2>7. CASE \E t \in Rows : Start(t)
    BY <1>1, <1>3, <2>7 DEF Start, Rows
  <2>8. CASE \E t \in Rows : \E s \in ClosedStatuses : UpdateStatus(t, s)
    BY <1>3, <2>8, CloseRoot DEF UpdateStatus, Rows
  <2>9. CASE \E t \in Rows : EndHold(t)
    <3>1. PICK t \in Rows : \E h \in ActiveHolds(t) : Close(h, "cancelled")
      BY <2>9 DEF EndHold
    <3>2. PICK h \in ActiveHolds(t) : Close(h, "cancelled")
      BY <3>1
    <3>3. h \in Rows /\ h # Root
      BY <1>1 DEF ActiveHolds, OpenChildren, Children
    <3> QED
      BY <3>2, <3>3, CloseRoot
  <2> QED
    BY <1>6, <2>1, <2>2, <2>3, <2>4, <2>5, <2>6, <2>7, <2>8, <2>9 DEF UserStep
<1>7. CASE SystemStep
  <2>1. CASE \E t \in Rows : HoldExpires(t)
    BY <1>1, <2>1, CloseRoot DEF HoldExpires
  <2>2. CASE \E t \in Tasks : Distribute(t)
    BY <1>1, <2>2 DEF Distribute
  <2>3. CASE \E t \in Tasks, r \in Representatives : NewRepresentative(t, r)
    <3>1. PICK t \in Tasks, r \in Representatives : NewRepresentative(t, r)
      BY <2>3
    <3>2. t # Root
      BY <1>2, <3>1 DEF NewRepresentative
    <3>3. CASE r = "agent"
      <4> DEFINE new == [x \in {t} |-> "in_progress"]
      <4>1. status' = AfterCancelFormer(AfterCreate(new, Root, {}), {}) /\ Root \notin DOMAIN new
        BY <3>1, <3>2, <3>3 DEF NewRepresentative
      <4> HIDE DEF new
      <4> QED
        BY <4>1, AfterCreateRoot, CancelFormerRoot
    <3>4. CASE r # "agent"
      <4>1. PICK i \in Tasks, p \in IhpParents :
              /\ i = t + 1
              /\ status' = AfterCancelFormer(AfterCreate(
                    [x \in {t, i} |-> IF x = t THEN "in_progress" ELSE "assigned"], p, {}), {p})
        BY <3>1, <3>4 DEF NewRepresentative
      <4> DEFINE new == [x \in {t, i} |-> IF x = t THEN "in_progress" ELSE "assigned"]
      <4>2. Root \notin DOMAIN new
        BY <3>2, <4>1 DEF Tasks, Root
      <4>3. status' = AfterCancelFormer(AfterCreate(new, p, {}), {p})
        BY <4>1
      <4> HIDE DEF new
      <4> QED
        BY <4>2, <4>3, AfterCreateRoot, CancelFormerRoot
    <3> QED
      BY <3>3, <3>4
  <2>4. CASE NoRepresentative
    BY <2>4, CancelFormerRoot DEF NoRepresentative
  <2>5. CASE CancelActiveTasks
    BY <1>1, <2>5 DEF CancelActiveTasks
  <2>6. CASE WithdrawAppeal
    BY <1>1, <2>6 DEF WithdrawAppeal
  <2> QED
    BY <1>7, <2>1, <2>2, <2>3, <2>4, <2>5, <2>6 DEF SystemStep
<1> QED
  BY <1>6, <1>7 DEF Next

\* A closed appeal is never reopened by what is filed on it later, by users or
\* by the system.
THEOREM ClosedRootNeverReopens == Spec => ClosedRootStaysClosed
<1>1. IInv /\ [Next]_vars => [IsClosed(Root) => status'[Root] = status[Root]]_vars
  BY ClosedRootStep
<1> QED
  BY <1>1, InductiveInvariant, PTL DEF Spec, ClosedRootStaysClosed
=============================================================================
