----------------------- MODULE TaskTreeShape_proofs ------------------------
(***************************************************************************)
(* More proofs about TaskTree, for every number of rows and every set of   *)
(* types. A task is on one timed hold at most, whatever pages users act    *)
(* from. When nobody acts from an outdated page and no colocated work is   *)
(* closed before what it waits for, work is never left below a closed      *)
(* task, an appeal that is ready for distribution is blocked by nothing,   *)
(* and what the tree completes by itself was done.                         *)
(***************************************************************************)
EXTENDS TaskTree_proofs

-----------------------------------------------------------------------------
(* What is below what *)

Ihp == "InformalHearingPresentationTask"

\* The types of the tasks that users may put on a timed hold.
Holdable == MailTypes \union OrdinaryTypes \union {Ihp}

IsHold(t) == type[t] = "TimedHoldTask"

\* Holds are below such tasks and have nothing below them; tracking tasks, the
\* tasks of judges and the IHP tasks of representatives are where the system
\* creates them, and below the latter are IHP tasks of persons and holds.
Fits(x) ==
    /\ parent[x] \in Rows
    /\ ~ IsHold(parent[x])
    /\ IsHold(x) => type[parent[x]] \in Holdable
    /\ type[x] \in {"TrackVeteranTask", "JudgeAssignTask"} => parent[x] = Root
    /\ type[x] = Ihp /\ x \in org => parent[x] \in {Root, Distribution}
    /\ type[parent[x]] = Ihp /\ ~ IsHold(x) =>
         type[x] = Ihp /\ x \notin org /\ parent[x] \in org

Shape ==
    /\ org \subseteq Rows
    /\ parent[Root] = NoTask
    /\ \A x \in Rows \ {Root} : Fits(x)

\* No row is below itself: of any rows, one hangs from none of the others, and
\* from one hangs none of the others.
NoCycle ==
    \A D \in SUBSET Rows : D # {} =>
        /\ \E x \in D : parent[x] \notin D
        /\ \E x \in D : \A y \in D : parent[y] # x

HInv == IInv /\ Shape /\ NoCycle /\ OneActiveHold

\* A task waits for every open child that is not its hold, and then it is on no
\* hold.
WaitsForOthers ==
    \A t \in Rows \ {Root} : \A c \in OpenChildren(t) :
        ~ IsHold(c) => status[t] = "on_hold" /\ ActiveHolds(t) = {}

\* While a judge has the appeal it is not to be distributed.
JudgeHasAppeal ==
    \A j \in Rows : type[j] = "JudgeAssignTask" /\ IsOpen(j) => ~ IsOpen(Distribution)

WInv == HInv /\ WaitsForOthers /\ JudgeHasAppeal

\* Nobody acts from an outdated page, and there is no colocated work, which may
\* be closed while it is on hold.
InOrder == StalePages = FALSE /\ ColocatedTypes = {}

-----------------------------------------------------------------------------
(* A step that creates the rows N and closes the rows Gone *)

\* New holds are below p, whose former holds end. What is closed takes its
\* holds with it, what is reopened is no hold.
Grows(N, p, Gone) ==
    /\ N \subseteq Tasks \ Rows /\ Rows' = Rows \union N
    /\ Gone \subseteq Rows
    /\ \A x \in Rows : /\ type'[x] = type[x] /\ parent'[x] = parent[x]
                       /\ x \in org' <=> x \in org
    /\ org' \subseteq Rows'
    /\ \A x \in Gone : status'[x] \in ClosedStatuses /\ ActiveHolds(x) \subseteq Gone
    /\ \A x \in Rows \ Gone : IsOpen(x) => IsOpen(x)'
    /\ \A x \in Rows \ Gone : IsOpen(x)' /\ ~ IsOpen(x) => ~ IsHold(x)
    /\ \A x \in N : IsHold(x)' => /\ parent'[x] = p /\ N = {x}
                                  /\ ActiveHolds(p) \subseteq Gone /\ IsOpen(p)'
    /\ \A x \in N : Fits(x)' /\ (parent'[x] \in N => parent'[parent'[x]] \notin N)

\* The new rows are below p, which then waits for them and is on no hold, below
\* the RootTask, or below each other. What is closed takes with it whatever it
\* waits for, and what leaves its hold waits for nothing else.
InTurn(N, p, Gone) ==
    /\ \A x \in Gone : OpenChildren(x) \subseteq Gone
    /\ \A x \in Rows \ (Gone \union {Root}) :
         \/ status'[x] = status[x]
         \/ x = p /\ status'[x] = "on_hold"
         \/ \A c \in OpenChildren(x) \ Gone : IsHold(c)
    /\ \A x \in N :
         /\ parent'[x] \in {Root, p} \union N
         /\ parent'[x] \in N => status'[parent'[x]] = "on_hold"
         /\ parent'[x] = p /\ p # Root =>
              status'[p] = "on_hold" /\ p \in Rows \ Gone /\ ActiveHolds(p) \subseteq Gone
         /\ IsHold(x)' => \A c \in OpenChildren(p) \ Gone : IsHold(c)
         /\ type'[x] = "JudgeAssignTask" => ~ IsOpen(Distribution)'
    /\ \A x \in Rows \ Gone : IsOpen(x)' /\ ~ IsOpen(x) =>
         parent[x] \in {Root, NoTask} /\ type[x] # "JudgeAssignTask"
    /\ IsOpen(Distribution)' => \/ IsOpen(Distribution)
                                \/ \A j \in Rows \ Gone : type[j] = "JudgeAssignTask" => ~ IsOpen(j)

\* Such a step, in order when the tree is.
Growth == \E N, p, Gone : Grows(N, p, Gone) /\ (InOrder /\ WInv => InTurn(N, p, Gone))

\* Where the first rows are, and what no row is.
LEMMA RootIsRow ==
    ASSUME HInv
    PROVE  /\ Root \in Rows /\ Distribution \in Rows /\ Root # Distribution /\ NoTask \notin Rows
           /\ type[Root] = "RootTask" /\ type[Distribution] = "DistributionTask"
           /\ parent[Distribution] = Root /\ parent[Root] = NoTask
           /\ \A x \in Rows : type[x] = "RootTask" => x = Root
           /\ Rows \subseteq Tasks
BY FirstRowsAreTasks DEF HInv, IInv, FirstRows, Shape, Rows

\* No row but new ones has to be looked at.
LEMMA ShapeKept ==
    ASSUME HInv, NEW N, NEW p, NEW Gone, Grows(N, p, Gone)
    PROVE  Shape'
<1>1. \A x \in Rows \ {Root} : Fits(x)'
  BY DEF Grows, HInv, Shape, Fits, IsHold
<1>2. parent'[Root] = NoTask
  BY RootIsRow DEF Grows
<1> QED
  BY <1>1, <1>2 DEF Grows, Shape

\* The holds of a row are those it had and that did not end, or a new one.
LEMMA HoldsAfter ==
    ASSUME HInv, NEW N, NEW p, NEW Gone, Grows(N, p, Gone),
           NEW x \in Rows', NEW h \in ActiveHolds(x)'
    PROVE  \/ h \in N /\ x = p /\ N = {h} /\ ActiveHolds(p) \subseteq Gone /\ IsOpen(p)'
           \/ h \in ActiveHolds(x) \ Gone /\ x \in Rows
<1>1. h \in Rows' /\ parent'[h] = x /\ IsOpen(h)' /\ IsHold(h)'
  BY DEF ActiveHolds, OpenChildren, Children, IsHold
<1>2. CASE h \in N
  BY <1>1, <1>2 DEF Grows
<1>3. CASE h \notin N
  <2>1. h \in Rows \ Gone /\ parent[h] = x /\ IsHold(h) /\ IsOpen(h)
    BY <1>1, <1>3 DEF Grows, IsHold, IsOpen, ClosedStatuses, OpenStatuses, ActiveStatuses
  <2>2. h # Root
    BY <2>1, RootIsRow DEF IsHold
  <2> QED
    BY <2>1, <2>2 DEF HInv, Shape, Fits, ActiveHolds, OpenChildren, Children, IsHold
<1> QED
  BY <1>2, <1>3

LEMMA OneHoldKept ==
    ASSUME HInv, NEW N, NEW p, NEW Gone, Grows(N, p, Gone)
    PROVE  OneActiveHold'
<1> SUFFICES ASSUME NEW x \in Rows', NEW g \in ActiveHolds(x)', NEW h \in ActiveHolds(x)'
             PROVE  g = h /\ IsOpen(x)'
  BY DEF OneActiveHold
<1>1. \A f \in {g, h} :
        \/ f \in N /\ x = p /\ N = {f} /\ ActiveHolds(p) \subseteq Gone /\ IsOpen(p)'
        \/ f \in ActiveHolds(x) \ Gone /\ x \in Rows
  BY HoldsAfter
<1>2. CASE \E f \in {g, h} : f \in N
  BY <1>1, <1>2 DEF Grows, ActiveHolds, OpenChildren, Children
<1>3. CASE \A f \in {g, h} : f \notin N
  <2>1. /\ g \in ActiveHolds(x) /\ h \in ActiveHolds(x) /\ g \notin Gone /\ x \in Rows
    BY <1>1, <1>3
  <2>2. g = h /\ IsOpen(x)
    BY <2>1 DEF HInv, OneActiveHold
  <2>3. x \notin Gone
    BY <2>1 DEF Grows
  <2> QED
    BY <2>1, <2>2, <2>3 DEF Grows
<1> QED
  BY <1>2, <1>3

LEMMA NoCycleKept ==
    ASSUME HInv, NEW N, NEW p, NEW Gone, Grows(N, p, Gone)
    PROVE  NoCycle'
<1> SUFFICES ASSUME NEW D \in SUBSET Rows', D # {}
             PROVE  /\ \E x \in D : parent'[x] \notin D
                    /\ \E x \in D : \A y \in D : parent'[y] # x
  BY DEF NoCycle
<1>1. NoCycle
  BY DEF HInv
<1>2. \A x \in Rows : parent'[x] = parent[x] /\ parent[x] \in Rows \union {NoTask}
  BY RootIsRow DEF Grows, HInv, Shape, Fits
<1>3. N \intersect Rows = {} /\ NoTask \notin N /\ D \subseteq Rows \union N
  BY FirstRowsAreTasks DEF Grows
<1>4. \A x \in N : parent'[x] \in N => parent'[parent'[x]] \notin N
  BY DEF Grows
<1>5. \E x \in D : parent'[x] \notin D
  <2>1. CASE D \intersect Rows # {}
    <3>1. PICK x \in D \intersect Rows : parent[x] \notin D \intersect Rows
      BY <1>1, <2>1 DEF NoCycle
    <3> QED
      BY <1>2, <1>3, <3>1
  <2>2. CASE D \intersect Rows = {}
    BY <1>3, <1>4, <2>2
  <2> QED
    BY <2>1, <2>2
<1>6. \E x \in D : \A y \in D : parent'[y] # x
  <2>1. CASE D \intersect N = {}
    <3>1. PICK x \in D : \A y \in D : parent[y] # x
      BY <1>1, <1>3, <2>1 DEF NoCycle
    <3> QED
      BY <1>2, <1>3, <2>1, <3>1
  <2>2. CASE D \intersect N # {}
    <3>1. PICK x \in D : x \in N
      BY <2>2
    <3>2. CASE \A y \in D : parent'[y] # x
      BY <3>1, <3>2
    <3>3. CASE ~ \A y \in D : parent'[y] # x
      <4>1. PICK y \in D : parent'[y] = x
        BY <3>3
      <4>2. y \in N
        BY <1>2, <1>3, <3>1, <4>1
      <4>3. \A z \in D : parent'[z] # y
        BY <1>2, <1>3, <1>4, <3>1, <4>1, <4>2
      <4> QED
        BY <4>3
    <3> QED
      BY <3>2, <3>3
  <2> QED
    BY <2>1, <2>2
<1> QED
  BY <1>5, <1>6

-----------------------------------------------------------------------------
(* What such a step keeps when it is in order *)

LEMMA WaitsKept ==
    ASSUME WInv, NEW N, NEW p, NEW Gone, Grows(N, p, Gone), InTurn(N, p, Gone)
    PROVE  WaitsForOthers'
<1> SUFFICES ASSUME NEW t \in Rows', t # Root, NEW c \in OpenChildren(t)', ~ IsHold(c)'
             PROVE  status'[t] = "on_hold" /\ \A h \in ActiveHolds(t)' : FALSE
  BY DEF WaitsForOthers
<1>1. HInv
  BY DEF WInv
<1>2. c \in Rows' /\ parent'[c] = t /\ IsOpen(c)'
  BY DEF OpenChildren, Children
<1>3. \A h \in ActiveHolds(t)' :
        \/ h \in N /\ t = p /\ N = {h} /\ IsHold(h)'
        \/ h \in ActiveHolds(t) \ Gone /\ t \in Rows
  BY <1>1, HoldsAfter DEF ActiveHolds, IsHold
<1>4. CASE c \in N
  <2>1. CASE t \in N
    <3>1. status'[t] = "on_hold" /\ parent'[t] \notin N /\ t \notin Rows
      BY <1>2, <1>4, <2>1 DEF InTurn, Grows
    <3>2. ~ (N = {t})
      BY <1>2, <1>4, <3>1
    <3> QED
      BY <1>2, <1>3, <1>4, <3>1, <3>2
  <2>2. CASE t \notin N
    <3>1. t = p /\ status'[p] = "on_hold" /\ ActiveHolds(p) \subseteq Gone
      BY <1>2, <1>4, <2>2 DEF InTurn
    <3> QED
      BY <1>3, <1>4, <3>1
  <2> QED
    BY <2>1, <2>2
<1>5. CASE c \notin N
  <2>1. c \in Rows /\ parent[c] = t /\ c \notin Gone /\ ~ IsHold(c) /\ c # Root
    BY <1>1, <1>2, <1>5, RootIsRow, FirstRowsAreTasks
       DEF Grows, IsHold, IsOpen, ClosedStatuses, OpenStatuses, ActiveStatuses
  <2>2. t \in Rows /\ t # NoTask
    BY <1>1, <2>1, RootIsRow DEF HInv, Shape, Fits
  <2>3. IsOpen(c)
    BY <1>2, <2>1, <2>2 DEF InTurn
  <2>4. c \in OpenChildren(t)
    BY <2>1, <2>3 DEF OpenChildren, Children
  <2>5. status[t] = "on_hold" /\ ActiveHolds(t) = {}
    BY <2>1, <2>2, <2>4 DEF WInv, WaitsForOthers
  <2>6. t \notin Gone
    BY <2>1, <2>4 DEF InTurn
  <2>7. status'[t] = "on_hold"
    BY <2>1, <2>2, <2>4, <2>5, <2>6 DEF InTurn
  <2>8. \A h \in N : IsHold(h)' => t # p
    BY <2>1, <2>4 DEF InTurn
  <2> QED
    BY <1>3, <2>5, <2>7, <2>8
<1> QED
  BY <1>4, <1>5

LEMMA JudgeKept ==
    ASSUME WInv, NEW N, NEW p, NEW Gone, Grows(N, p, Gone), InTurn(N, p, Gone)
    PROVE  JudgeHasAppeal'
<1> SUFFICES ASSUME NEW j \in Rows', type'[j] = "JudgeAssignTask", IsOpen(j)', IsOpen(Distribution)'
             PROVE  FALSE
  BY DEF JudgeHasAppeal
<1>1. j \notin N
  BY DEF InTurn
<1>2. j \in Rows \ Gone /\ type[j] = "JudgeAssignTask"
  BY <1>1 DEF Grows, IsOpen, ClosedStatuses, OpenStatuses, ActiveStatuses
<1>3. IsOpen(j)
  BY <1>2 DEF InTurn
<1>4. ~ IsOpen(Distribution)
  BY <1>2, <1>3 DEF WInv, JudgeHasAppeal
<1> QED
  BY <1>2, <1>3, <1>4 DEF InTurn

\* Growth keeps both invariants.
LEMMA GrowthKeepsHInv ==
    ASSUME HInv, IInv', Growth
    PROVE  HInv'
BY ShapeKept, OneHoldKept, NoCycleKept DEF Growth, HInv

LEMMA GrowthKeepsWInv ==
    ASSUME WInv, HInv', InOrder, Growth
    PROVE  WInv'
BY WaitsKept, JudgeKept DEF Growth, WInv

-----------------------------------------------------------------------------
(* Holds and what they are below *)

LEMMA NoHoldBelow ==
    ASSUME HInv, NEW p \in Rows, type[p] \notin Holdable
    PROVE  ActiveHolds(p) = {}
BY RootIsRow DEF ActiveHolds, OpenChildren, Children, HInv, Shape, Fits, IsHold

LEMMA NothingBelowHolds ==
    ASSUME HInv, NEW h \in Rows, IsHold(h)
    PROVE  Children(h) = {}
BY RootIsRow DEF Children, HInv, Shape, Fits

\* The first rows are put on no hold.
LEMMA FirstRowsHoldFree ==
    ASSUME HInv
    PROVE  /\ ActiveHolds(Root) = {} /\ ActiveHolds(Distribution) = {}
           /\ type[Root] \notin Holdable /\ type[Distribution] \notin Holdable
<1>1. type[Root] \notin Holdable /\ type[Distribution] \notin Holdable
  BY RootIsRow, TypesAssumption DEF Holdable, Ihp, BuiltinTypes
<1> QED
  BY <1>1, RootIsRow, NoHoldBelow

\* As there is one at most, the hold that a closing task ends is the one it is
\* on, and so is the hold that a new child ends.
LEMMA HoldEnded ==
    ASSUME HInv, NEW p \in Rows, NEW H \in ActiveHold(p)
    PROVE  H = ActiveHolds(p)
BY DEF ActiveHold, HInv, OneActiveHold

LEMMA HoldsEnded ==
    ASSUME HInv, NEW p \in Rows, NEW H \in HoldsEndedByChild(p)
    PROVE  H = ActiveHolds(p)
BY HoldEnded, FirstRowsHoldFree DEF HoldsEndedByChild

-----------------------------------------------------------------------------
(* Creating rows *)

\* The rows N are created below p, or below each other, and end its holds.
Creates(N, new, p) ==
    /\ N \subseteq Tasks \ Rows
    /\ p \in Rows /\ ~ IsHold(p)
    /\ DOMAIN new = N /\ \A x \in N : new[x] \in OpenStatuses
    /\ status' = AfterCreate(new, p, ActiveHolds(p))
    /\ \A x \in Rows : type'[x] = type[x] /\ parent'[x] = parent[x]
    /\ \A x \in N : /\ parent'[x] \in {p} \union N
                    /\ parent'[x] \in N => parent'[parent'[x]] \notin N /\ new[parent'[x]] = "on_hold"
                    /\ IsHold(x)' => N = {x} /\ parent'[x] = p /\ type[p] \in Holdable
                    /\ type'[x] # "JudgeAssignTask"
    /\ org \subseteq org' /\ org' \subseteq org \union N

\* The statuses after that.
LEMMA CreatesStatus ==
    ASSUME HInv, NEW N, NEW new, NEW p, Creates(N, new, p)
    PROVE  /\ \A x \in N : status'[x] = new[x] /\ status'[x] \in OpenStatuses
           /\ p \notin ActiveHolds(p) /\ ActiveHolds(p) \subseteq Rows
           /\ \A x \in ActiveHolds(p) : status'[x] = "cancelled" /\ IsHold(x)
           /\ status'[p] = IF p # Root \/ status[p] \in ActiveStatuses THEN "on_hold" ELSE status[p]
           /\ \A x \in Rows \ (ActiveHolds(p) \union {p}) : status'[x] = status[x]
           /\ Rows' = Rows \union N
<1>1. /\ N \subseteq Tasks /\ N \intersect Rows = {} /\ p \in Rows /\ p \notin N /\ ~ IsHold(p)
      /\ DOMAIN new = N /\ \A x \in N : new[x] \in OpenStatuses
      /\ status' = AfterCreate(new, p, ActiveHolds(p))
  BY DEF Creates
<1>2. \A x \in ActiveHolds(p) : x \in Rows /\ IsHold(x)
  BY DEF ActiveHolds, OpenChildren, Children, IsHold
<1>3. p \notin ActiveHolds(p)
  BY <1>1, <1>2
<1>4. Rows \subseteq Tasks
  BY DEF Rows
<1>5. \A x \in Tasks :
        status'[x] = IF x \in N THEN new[x]
                     ELSE IF x = p THEN ParentAfterCreate(p)
                     ELSE IF x \in ActiveHolds(p) THEN "cancelled" ELSE status[x]
  BY <1>1 DEF AfterCreate
<1>6. ParentAfterCreate(p) = IF p # Root \/ status[p] \in ActiveStatuses THEN "on_hold" ELSE status[p]
  BY DEF ParentAfterCreate
<1> HIDE DEF Creates
<1>7. /\ \A x \in N : status'[x] = new[x] /\ status'[x] \in OpenStatuses
      /\ \A x \in ActiveHolds(p) : status'[x] = "cancelled"
      /\ status'[p] = IF p # Root \/ status[p] \in ActiveStatuses THEN "on_hold" ELSE status[p]
      /\ \A x \in Rows \ (ActiveHolds(p) \union {p}) : status'[x] = status[x]
  BY <1>1, <1>2, <1>3, <1>4, <1>5, <1>6
<1>8. \A x \in Tasks \ (Rows \union N) : status'[x] = "none"
  BY <1>1, <1>2, <1>5 DEF Rows
<1>9. \A x \in Rows : status'[x] # "none"
  BY <1>7 DEF Rows
<1>10. Rows' = Rows \union N
  BY <1>1, <1>4, <1>7, <1>8, <1>9 DEF Rows, OpenStatuses, ActiveStatuses
<1> QED
  BY <1>2, <1>3, <1>7, <1>10

\* It is such a step, and in order when p is open, the RootTask, or the closed
\* DistributionTask of an appeal that no judge has.
LEMMA CreatesGrowth ==
    ASSUME HInv, NEW N, NEW new, NEW p, Creates(N, new, p),
           \A x \in N : Fits(x)',
           InOrder /\ WInv =>
             /\ \/ p = Root \/ IsOpen(p)
                \/ p = Distribution /\ \A j \in Rows : type[j] # "JudgeAssignTask"
             /\ \A x \in N : IsHold(x)' => \A c \in OpenChildren(p) : IsHold(c)
    PROVE  Growth
<1> DEFINE Gone == ActiveHolds(p)
<1>1. /\ \A x \in N : status'[x] = new[x] /\ status'[x] \in OpenStatuses
      /\ p \notin Gone /\ Gone \subseteq Rows
      /\ \A x \in Gone : status'[x] = "cancelled" /\ IsHold(x)
      /\ status'[p] = IF p # Root \/ status[p] \in ActiveStatuses THEN "on_hold" ELSE status[p]
      /\ \A x \in Rows \ (Gone \union {p}) : status'[x] = status[x]
      /\ Rows' = Rows \union N
  BY CreatesStatus
<1>2. \A x \in Gone : OpenChildren(x) = {} /\ ActiveHolds(x) = {}
  BY <1>1, NothingBelowHolds DEF OpenChildren, ActiveHolds
<1>3. /\ N \subseteq Tasks \ Rows /\ N \intersect Rows = {} /\ p \in Rows /\ ~ IsHold(p)
      /\ \A x \in Rows : type'[x] = type[x] /\ parent'[x] = parent[x]
      /\ \A x \in N : /\ parent'[x] \in {p} \union N
                      /\ parent'[x] \in N => parent'[parent'[x]] \notin N /\ new[parent'[x]] = "on_hold"
                      /\ IsHold(x)' => N = {x} /\ parent'[x] = p /\ type[p] \in Holdable
                      /\ type'[x] # "JudgeAssignTask"
      /\ org \subseteq org' /\ org' \subseteq org \union N
  BY DEF Creates
<1>4. type[p] \in Holdable => p # Root
  BY FirstRowsHoldFree
<1>5. org \subseteq Rows
  BY DEF HInv, Shape
<1> HIDE DEF Gone
<1>6. Grows(N, p, Gone)
  <2>1. \A x \in Rows \ Gone : IsOpen(x) => IsOpen(x)'
    BY <1>1 DEF IsOpen, OpenStatuses, ActiveStatuses
  <2>2. \A x \in Rows \ Gone : IsOpen(x)' /\ ~ IsOpen(x) => ~ IsHold(x)
    BY <1>1, <1>3 DEF IsOpen
  <2>3. \A x \in N : IsHold(x)' => /\ parent'[x] = p /\ N = {x}
                                   /\ ActiveHolds(p) \subseteq Gone /\ IsOpen(p)'
    BY <1>1, <1>3, <1>4 DEF IsOpen, OpenStatuses, Gone
  <2>4. \A x \in Gone : status'[x] \in ClosedStatuses /\ ActiveHolds(x) \subseteq Gone
    BY <1>1, <1>2 DEF ClosedStatuses
  <2>5. org' \subseteq Rows' /\ \A x \in Rows : x \in org' <=> x \in org
    BY <1>1, <1>3, <1>5
  <2> QED
    BY <1>1, <1>3, <2>1, <2>2, <2>3, <2>4, <2>5 DEF Grows
<1>7. ASSUME InOrder, WInv
      PROVE  InTurn(N, p, Gone)
  <2>1. /\ \/ p = Root \/ IsOpen(p)
           \/ p = Distribution /\ \A j \in Rows : type[j] # "JudgeAssignTask"
        /\ \A x \in N : IsHold(x)' => \A c \in OpenChildren(p) : IsHold(c)
    BY <1>7
  <2>2. \A x \in Gone : OpenChildren(x) \subseteq Gone
    BY <1>2
  <2>3. \A x \in Rows \ (Gone \union {Root}) :
         \/ status'[x] = status[x]
         \/ x = p /\ status'[x] = "on_hold"
    BY <1>1
  <2>4. \A x \in N :
         /\ parent'[x] \in {Root, p} \union N
         /\ parent'[x] \in N => status'[parent'[x]] = "on_hold"
         /\ parent'[x] = p /\ p # Root =>
              status'[p] = "on_hold" /\ p \in Rows \ Gone /\ ActiveHolds(p) \subseteq Gone
    BY <1>1, <1>3 DEF Gone
  <2>5. \A x \in N :
         /\ IsHold(x)' => \A c \in OpenChildren(p) \ Gone : IsHold(c)
         /\ type'[x] = "JudgeAssignTask" => ~ IsOpen(Distribution)'
    BY <1>3, <2>1
  <2>6. \A x \in Rows \ Gone : IsOpen(x)' /\ ~ IsOpen(x) => x = p
    BY <1>1 DEF IsOpen
  <2>7. \A x \in Rows \ Gone : IsOpen(x)' /\ ~ IsOpen(x) =>
         parent[x] \in {Root, NoTask} /\ type[x] # "JudgeAssignTask"
    BY <2>1, <2>6, RootIsRow
  <2>8. IsOpen(Distribution)' => \/ IsOpen(Distribution)
                                 \/ \A j \in Rows \ Gone : type[j] = "JudgeAssignTask" => ~ IsOpen(j)
    <3> SUFFICES ASSUME IsOpen(Distribution)', ~ IsOpen(Distribution), Distribution \notin Gone
                 PROVE  \A j \in Rows \ Gone : type[j] = "JudgeAssignTask" => ~ IsOpen(j)
      BY <1>1, RootIsRow DEF IsOpen, OpenStatuses, ActiveStatuses
    <3>1. p = Distribution
      BY <2>6, RootIsRow
    <3> QED
      BY <2>1, <3>1, RootIsRow
  <2> QED
    BY <2>2, <2>3, <2>4, <2>5, <2>7, <2>8 DEF InTurn
<1> QED
  BY <1>6, <1>7 DEF Growth

\* One new row below a task that is neither a hold nor an IHP task, unless both
\* are IHP tasks or the row is a hold.
LEMMA InsertGrowth ==
    ASSUME HInv,
           NEW t \in Tasks, NEW k \in TaskTypes, NEW p \in Rows, NEW o \in BOOLEAN,
           ~ IsHold(p), k \notin {"RootTask", "TrackVeteranTask", "JudgeAssignTask"},
           k = "TimedHoldTask" => type[p] \in Holdable,
           k = Ihp => type[p] = Ihp /\ ~ o,
           type[p] = Ihp /\ k # "TimedHoldTask" => k = Ihp /\ p \in org,
           Insert(t, k, p, o, "assigned", ActiveHolds(p)),
           InOrder /\ WInv =>
             /\ \/ p = Root \/ IsOpen(p)
                \/ p = Distribution /\ \A j \in Rows : type[j] # "JudgeAssignTask"
             /\ k = "TimedHoldTask" => \A c \in OpenChildren(p) : IsHold(c)
    PROVE  Growth
<1> DEFINE new == [x \in {t} |-> "assigned"]
<1>1. /\ t \notin Rows /\ t # p /\ t \notin org
      /\ status' = AfterCreate(new, p, ActiveHolds(p))
      /\ type' = [type EXCEPT ![t] = k]
      /\ parent' = [parent EXCEPT ![t] = p]
      /\ org' = IF o THEN org \union {t} ELSE org
  BY DEF Insert, IsNextRow, Rows, HInv, Shape
<1>2. \A x \in Rows : type'[x] = type[x] /\ parent'[x] = parent[x]
  BY <1>1 DEF HInv, IInv, TypeOK, Rows
<1>3. type'[t] = k /\ parent'[t] = p
  BY <1>1 DEF HInv, IInv, TypeOK
<1>4. DOMAIN new = {t} /\ new[t] \in OpenStatuses
  BY DEF OpenStatuses, ActiveStatuses
<1> HIDE DEF new
<1>5. Creates({t}, new, p)
  BY <1>1, <1>2, <1>3, <1>4 DEF Creates, IsHold
<1>6. Rows' = Rows \union {t}
  BY <1>5, CreatesStatus
<1>7. Fits(t)'
  BY <1>1, <1>2, <1>3, <1>6 DEF Fits, IsHold
<1> QED
  BY <1>3, <1>5, <1>7, CreatesGrowth DEF IsHold

\* An organization's task and the one that keeps it on hold.
LEMMA InsertPairGrowth ==
    ASSUME HInv,
           NEW t \in Tasks, NEW u \in Tasks, NEW k \in MailTypes \union OrdinaryTypes,
           NEW p \in Rows, NEW o \in BOOLEAN, ~ IsHold(p), type[p] # Ihp,
           InsertPair(t, u, k, p, o, ActiveHolds(p)),
           InOrder /\ WInv =>
             \/ p = Root \/ IsOpen(p)
             \/ p = Distribution /\ \A j \in Rows : type[j] # "JudgeAssignTask"
    PROVE  Growth
<1> DEFINE new == [x \in {t, u} |-> IF x = t THEN "on_hold" ELSE "assigned"]
<1>1. /\ IsNextRow(t) /\ u = t + 1
      /\ status' = AfterCreate(new, p, ActiveHolds(p))
      /\ type' = [type EXCEPT ![t] = k, ![u] = k]
      /\ parent' = [parent EXCEPT ![t] = p, ![u] = t]
      /\ org' = org \union (IF o THEN {t, u} ELSE {t})
  BY DEF InsertPair
<1>2. t \notin Rows /\ u \notin Rows /\ t # u /\ t # p /\ u # p
  BY <1>1, NextRowIsLast DEF HInv, IInv, IsNextRow, Rows, Tasks
<1>3. \A x \in Rows : type'[x] = type[x] /\ parent'[x] = parent[x]
  BY <1>1, <1>2 DEF HInv, IInv, TypeOK, Rows
<1>4. type'[t] = k /\ parent'[t] = p /\ type'[u] = k /\ parent'[u] = t
  BY <1>1, <1>2 DEF HInv, IInv, TypeOK
<1>5. /\ DOMAIN new = {t, u} /\ new[t] = "on_hold" /\ new[u] = "assigned"
      /\ \A x \in {t, u} : new[x] \in OpenStatuses
  BY <1>2 DEF OpenStatuses, ActiveStatuses
<1>6. k \notin {"TimedHoldTask", "TrackVeteranTask", "JudgeAssignTask", Ihp}
  BY TypesAssumption DEF BuiltinTypes, Ihp
<1>7. org \subseteq org' /\ org' \subseteq org \union {t, u} /\ {t, u} \subseteq Tasks \ Rows
  BY <1>1, <1>2
<1> HIDE DEF new
<1>8. Creates({t, u}, new, p)
  BY <1>1, <1>2, <1>3, <1>4, <1>5, <1>6, <1>7 DEF Creates, IsHold
<1>9. Rows' = Rows \union {t, u}
  BY <1>8, CreatesStatus
<1>10. Fits(t)' /\ Fits(u)'
  BY <1>2, <1>3, <1>4, <1>6, <1>9 DEF Fits, IsHold
<1> QED
  BY <1>4, <1>6, <1>8, <1>10, CreatesGrowth DEF IsHold

-----------------------------------------------------------------------------
(* The steps of users *)

\* In order, a task that offers its actions waits for no other task.
LEMMA AvailableWaitsForNone ==
    ASSUME WInv, InOrder, NEW t \in Rows, ActionsAvailable(t)
    PROVE  \A c \in OpenChildren(t) : IsHold(c)
<1>1. type[t] \in Holdable /\ (status[t] # "on_hold" \/ ActiveHolds(t) # {})
  BY DEF ActionsAvailable, InOrder, Holdable, Ihp
<1>2. t # Root
  BY <1>1, FirstRowsHoldFree DEF WInv
<1> QED
  BY <1>1, <1>2 DEF WInv, WaitsForOthers

LEMMA CreateTaskGrowth ==
    ASSUME HInv, NEW t \in Tasks, NEW p \in Tasks, NEW k \in TaskTypes, NEW o \in BOOLEAN,
           CreateTask(t, p, k, o)
    PROVE  Growth
<1>1. /\ p \in Rows /\ IsOpen(p) /\ ~ IsHold(p)
      /\ k \in OrdinaryTypes \union {Ihp}
      /\ k = Ihp <=> type[p] = Ihp
      /\ k = Ihp => ~ o /\ p \in org
  BY OpenIsRow DEF CreateTask, IsHold, Ihp
<1>2. k \notin {"RootTask", "TrackVeteranTask", "JudgeAssignTask", "TimedHoldTask"}
  BY <1>1, TypesAssumption DEF BuiltinTypes, Ihp
<1>3. IF o /\ k \in AutoAssignTypes
      THEN \E u \in Tasks : InsertPair(t, u, k, p, FALSE, ActiveHolds(p))
      ELSE Insert(t, k, p, o, "assigned", ActiveHolds(p))
  BY <1>1, HoldsEnded DEF CreateTask
<1>4. CASE o /\ k \in AutoAssignTypes
  BY <1>1, <1>3, <1>4, InsertPairGrowth
<1>5. CASE ~ (o /\ k \in AutoAssignTypes)
  BY <1>1, <1>2, <1>3, <1>5, InsertGrowth
<1> QED
  BY <1>4, <1>5

LEMMA CreateMailGrowth ==
    ASSUME HInv, NEW t \in Tasks, NEW k \in MailTypes, NEW routed \in BOOLEAN, NEW o \in BOOLEAN,
           CreateMail(t, k, routed, o)
    PROVE  Growth
<1>1. PICK p \in {Root, Distribution} :
        /\ p = Distribution => ~ DistributedToAJudge
        /\ \E H \in HoldsEndedByChild(p) :
              IF routed
              THEN \E u \in Tasks : InsertPair(t, u, k, p, o, H)
              ELSE Insert(t, k, p, TRUE, "assigned", H)
  BY FirstRowsAreTasks DEF CreateMail
<1>2. /\ p \in Rows /\ ~ IsHold(p) /\ type[p] # Ihp
      /\ p = Root \/ (p = Distribution /\ \A j \in Rows : type[j] # "JudgeAssignTask")
  BY <1>1, RootIsRow DEF IsHold, Ihp, DistributedToAJudge
<1>3. /\ k \notin {"RootTask", "TrackVeteranTask", "JudgeAssignTask", "TimedHoldTask", Ihp}
      /\ k \in TaskTypes
  BY TypesAssumption DEF BuiltinTypes, Ihp, TaskTypes
<1>4. IF routed
      THEN \E u \in Tasks : InsertPair(t, u, k, p, o, ActiveHolds(p))
      ELSE Insert(t, k, p, TRUE, "assigned", ActiveHolds(p))
  BY <1>1, <1>2, HoldsEnded
<1>5. CASE routed
  BY <1>2, <1>4, <1>5, InsertPairGrowth
<1>6. CASE ~ routed
  BY <1>2, <1>3, <1>4, <1>6, InsertGrowth
<1> QED
  BY <1>5, <1>6

LEMMA AssignMailGrowth ==
    ASSUME HInv, NEW t \in Tasks, NEW p \in Tasks, NEW k \in MailTypes, NEW o \in BOOLEAN,
           AssignMail(t, p, k, o)
    PROVE  Growth
<1>1. p \in Rows /\ IsOpen(p) /\ (p = Distribution \/ type[p] = k)
  BY OpenIsRow DEF AssignMail
<1>2. /\ k \notin {"RootTask", "TrackVeteranTask", "JudgeAssignTask", "TimedHoldTask", Ihp}
      /\ k \in TaskTypes
  BY TypesAssumption DEF BuiltinTypes, Ihp, TaskTypes
<1>3. ~ IsHold(p) /\ type[p] # Ihp
  BY <1>1, <1>2, RootIsRow DEF IsHold, Ihp
<1>4. Insert(t, k, p, o, "assigned", ActiveHolds(p))
  BY <1>1, HoldsEnded DEF AssignMail
<1> QED
  BY <1>1, <1>2, <1>3, <1>4, InsertGrowth

\* In order, a hold is placed on an open task that waits for nothing else.
LEMMA PlaceHoldGrowth ==
    ASSUME HInv, NEW h \in Tasks, NEW t \in Tasks, PlaceHold(h, t)
    PROVE  Growth
<1>1. /\ type[t] \in Holdable
      /\ Insert(h, "TimedHoldTask", t, t \in org, "assigned", ActiveHolds(t))
      /\ ActionsAvailable(t) \/ StalePages
  BY DEF PlaceHold, Holdable, Ihp
<1>2. /\ type[t] \notin {"RootTask", "TimedHoldTask"}
      /\ "TimedHoldTask" \in TaskTypes /\ (t \in org) \in BOOLEAN /\ "TimedHoldTask" # Ihp
  BY <1>1, TypesAssumption DEF Holdable, Ihp, BuiltinTypes, TaskTypes
<1>3. t \in Rows /\ ~ IsHold(t)
  BY <1>2 DEF HInv, IInv, FirstRows, Rows, IsHold
<1>4. ASSUME InOrder, WInv
      PROVE  IsOpen(t) /\ \A c \in OpenChildren(t) : IsHold(c)
  <2>1. ActionsAvailable(t)
    BY <1>1, <1>4 DEF InOrder
  <2> QED
    BY <1>3, <1>4, <2>1, AvailableWaitsForNone DEF ActionsAvailable
<1> QED
  BY <1>1, <1>2, <1>3, <1>4, InsertGrowth

\* A step that creates nothing, moves nothing and leaves all but the closed rows
\* as they are, but for a row that is started or leaves its hold.
LEMMA ClosesGrowth ==
    ASSUME HInv, UNCHANGED <<type, parent, org>>, Rows' = Rows,
           NEW Gone \in SUBSET Rows,
           \A x \in Gone : status'[x] \in ClosedStatuses /\ ActiveHolds(x) \subseteq Gone,
           \A x \in Rows \ Gone : \/ status'[x] = status[x]
                                  \/ IsOpen(x) /\ IsOpen(x)',
           InOrder /\ WInv =>
             /\ \A x \in Gone : OpenChildren(x) \subseteq Gone
             /\ \A x \in Rows \ (Gone \union {Root}) :
                  status'[x] = status[x] \/ \A c \in OpenChildren(x) \ Gone : IsHold(c)
    PROVE  Growth
<1>1. Grows({}, Root, Gone)
  BY DEF Grows, IsOpen, HInv, Shape
<1>2. \A x \in Rows \ Gone : IsOpen(x)' => IsOpen(x)
  BY DEF IsOpen
<1>3. Distribution \in Gone => ~ IsOpen(Distribution)'
  BY DEF IsOpen, ClosedStatuses, OpenStatuses, ActiveStatuses
<1>4. ASSUME InOrder, WInv
      PROVE  InTurn({}, Root, Gone)
  BY <1>2, <1>3, <1>4, RootIsRow DEF InTurn
<1> QED
  BY <1>1, <1>4 DEF Growth

LEMMA StartGrowth ==
    ASSUME HInv, NEW t \in Rows, Start(t)
    PROVE  Growth
<1>1. /\ ActionsAvailable(t) /\ UNCHANGED <<type, parent, org>>
      /\ status' = [status EXCEPT ![t] = "in_progress"]
  BY DEF Start
<1>2. \A x \in Tasks : status'[x] = IF x = t THEN "in_progress" ELSE status[x]
  BY <1>1 DEF HInv, IInv, TypeOK
<1>3. IsOpen(t) /\ IsOpen(t)' /\ Rows' = Rows
  BY <1>1, <1>2 DEF ActionsAvailable, IsOpen, Rows, OpenStatuses, ActiveStatuses
<1>4. \A x \in Rows : status'[x] = status[x] \/ x = t
  BY <1>2 DEF Rows
<1>5. InOrder /\ WInv => \A c \in OpenChildren(t) : IsHold(c)
  BY <1>1, AvailableWaitsForNone
<1>6. {} \in SUBSET Rows
  OBVIOUS
<1> QED
  BY <1>1, <1>3, <1>4, <1>5, <1>6, ClosesGrowth

\* What closes when t closes with status s: the rows S, the holds of t, and
\* what is left of the others.
LEMMA ClosePicks ==
    ASSUME HInv, NEW t \in Rows, NEW s, Close(t, s)
    PROVE  \E S \in ClosingChains(t) : \E C \in CancelledOf(t, s, S) :
             /\ t \in S /\ S \subseteq Rows /\ C \subseteq S
             /\ \A x \in S \ {t} : \E c \in S : parent[c] = x /\ ClosesWith(x, c)
             /\ \A x \in Tasks :
                  status'[x] = IF x \in C \union ActiveHolds(t) THEN "cancelled"
                               ELSE IF x \in S THEN "completed"
                               ELSE IF x \in Released(S) THEN "assigned" ELSE status[x]
<1>1. PICK S \in ClosingChains(t) : \E C \in CancelledOf(t, s, S) :
             status' = AfterClose(S, C, ActiveHolds(t))
  BY HoldEnded DEF Close
<1>2. PICK C \in CancelledOf(t, s, S) : status' = AfterClose(S, C, ActiveHolds(t))
  BY <1>1
<1>3. t \in S /\ S \subseteq Rows /\ C \subseteq S
  BY DEF ClosingChains, CancelledOf
<1>4. PICK top \in S :
        /\ \A c \in S \ {top} : parent[c] \in S /\ ClosesWith(parent[c], c)
        /\ \A p \in S \ {t} : \E c \in S \ {top} : parent[c] = p
  BY DEF ClosingChains
<1>5. \A x \in S \ {t} : \E c \in S : parent[c] = x /\ ClosesWith(x, c)
  BY <1>4
<1>6. \A x \in Tasks :
        status'[x] = IF x \in C \union ActiveHolds(t) THEN "cancelled"
                     ELSE IF x \in S THEN "completed"
                     ELSE IF x \in Released(S) THEN "assigned" ELSE status[x]
  BY <1>2 DEF AfterClose
<1> QED
  BY <1>3, <1>5, <1>6

\* The rows of the chain above t wait for nothing but the one below them, and
\* those released for nothing else.
LEMMA CloseGrowth ==
    ASSUME HInv, NEW t \in Rows, NEW s, Close(t, s),
           InOrder /\ WInv => \A c \in OpenChildren(t) : IsHold(c)
    PROVE  Growth
<1>1. PICK S \in ClosingChains(t) : \E C \in CancelledOf(t, s, S) :
             /\ t \in S /\ S \subseteq Rows /\ C \subseteq S
             /\ \A x \in S \ {t} : \E c \in S : parent[c] = x /\ ClosesWith(x, c)
             /\ \A x \in Tasks :
                  status'[x] = IF x \in C \union ActiveHolds(t) THEN "cancelled"
                               ELSE IF x \in S THEN "completed"
                               ELSE IF x \in Released(S) THEN "assigned" ELSE status[x]
  BY ClosePicks
<1> DEFINE Gone == S \union ActiveHolds(t)
<1>2. \A x \in ActiveHolds(t) : x \in Rows /\ IsHold(x) /\ parent[x] = t
  BY DEF ActiveHolds, OpenChildren, Children, IsHold
<1>3. \A x \in ActiveHolds(t) : OpenChildren(x) = {} /\ ActiveHolds(x) = {}
  BY <1>2, NothingBelowHolds DEF OpenChildren, ActiveHolds
<1>4. \A x \in S \ {t} : OpenChildren(x) \subseteq S
  BY <1>1 DEF ClosesWith
<1>5. \A x \in Rows : ActiveHolds(x) \subseteq OpenChildren(x)
  BY DEF ActiveHolds
<1>6. \A x \in Gone : status'[x] \in ClosedStatuses /\ ActiveHolds(x) \subseteq Gone
  BY <1>1, <1>2, <1>3, <1>4, <1>5 DEF ClosedStatuses, Rows
<1>7. \A x \in Rows \ Gone : status'[x] = IF x \in Released(S) THEN "assigned" ELSE status[x]
  BY <1>1 DEF Rows
<1>8. \A x \in Released(S) : IsOpen(x) /\ OpenChildren(x) \subseteq S
  BY DEF Released, IsOpen, OpenStatuses
<1>9. \A x \in Rows \ Gone : status'[x] = status[x] \/ (IsOpen(x) /\ IsOpen(x)')
  BY <1>7, <1>8 DEF IsOpen, OpenStatuses, ActiveStatuses
<1>10. Rows' = Rows
  <2>1. Released(S) \subseteq Rows
    BY DEF Released
  <2>2. \A x \in Tasks \ Rows : status'[x] = "none"
    BY <1>1, <1>2, <2>1 DEF Rows
  <2>3. \A x \in Rows : status'[x] # "none"
    BY <1>6, <1>7 DEF Rows, ClosedStatuses
  <2> QED
    BY <2>2, <2>3 DEF Rows
<1>11. UNCHANGED <<type, parent, org>> /\ Gone \in SUBSET Rows
  BY <1>1, <1>2 DEF Close
<1>12. ASSUME InOrder, WInv
       PROVE  /\ \A x \in Gone : OpenChildren(x) \subseteq Gone
              /\ \A x \in Rows \ (Gone \union {Root}) :
                  status'[x] = status[x] \/ \A c \in OpenChildren(x) \ Gone : IsHold(c)
  <2>1. OpenChildren(t) \subseteq ActiveHolds(t)
    BY <1>12 DEF ActiveHolds, IsHold
  <2> QED
    BY <1>3, <1>4, <1>7, <1>8, <2>1
<1> HIDE DEF Gone
<1> QED
  BY <1>6, <1>9, <1>10, <1>11, <1>12, ClosesGrowth

LEMMA UpdateStatusGrowth ==
    ASSUME HInv, NEW t \in Rows, NEW s \in ClosedStatuses, UpdateStatus(t, s)
    PROVE  Growth
BY AvailableWaitsForNone, CloseGrowth DEF UpdateStatus

\* A hold waits for nothing.
LEMMA CloseHoldGrowth ==
    ASSUME HInv, NEW h \in Rows, IsHold(h), NEW s, Close(h, s)
    PROVE  Growth
BY NothingBelowHolds, CloseGrowth DEF OpenChildren

LEMMA EndHoldGrowth ==
    ASSUME HInv, NEW t \in Rows, EndHold(t)
    PROVE  Growth
<1>1. PICK h \in ActiveHolds(t) : Close(h, "cancelled")
  BY DEF EndHold
<1>2. h \in Rows /\ IsHold(h)
  BY DEF ActiveHolds, OpenChildren, Children, IsHold
<1> QED
  BY <1>1, <1>2, CloseHoldGrowth

-----------------------------------------------------------------------------
(* The steps of the system *)

\* Without callbacks every open row is closed, or all below the first rows.
LEMMA CancelActiveTasksGrowth ==
    ASSUME HInv, CancelActiveTasks
    PROVE  Growth
<1> DEFINE Gone == {x \in Rows : IsOpen(x)}
<1>1. /\ \A x \in Tasks : status'[x] = IF IsOpen(x) THEN "cancelled" ELSE status[x]
      /\ UNCHANGED <<type, parent, org>>
  BY DEF CancelActiveTasks
<1>2. Rows' = Rows
  BY <1>1 DEF Rows, IsOpen, OpenStatuses, ActiveStatuses
<1>3. \A x \in Gone : status'[x] \in ClosedStatuses
  BY <1>1 DEF Rows, ClosedStatuses
<1>4. \A x : OpenChildren(x) \subseteq Gone /\ ActiveHolds(x) \subseteq Gone
  BY DEF ActiveHolds, OpenChildren, Children
<1>5. \A x \in Rows \ Gone : status'[x] = status[x]
  BY <1>1 DEF Rows
<1>6. Gone \in SUBSET Rows
  OBVIOUS
<1> HIDE DEF Gone
<1> QED
  BY <1>1, <1>2, <1>3, <1>4, <1>5, <1>6, ClosesGrowth

\* A withdrawal leaves the RootTask, the tracking tasks, which wait for nothing,
\* and the DistributionTask, whose judges and children it closes.
LEMMA WithdrawAppealGrowth ==
    ASSUME HInv, WithdrawAppeal
    PROVE  Growth
<1> DEFINE Gone == {x \in Rows \ {Distribution} :
                      IsOpen(x) /\ type[x] \notin {"RootTask", "TrackVeteranTask"}}
<1>1. /\ \A x \in Tasks :
           status'[x] = IF x = Distribution THEN "assigned"
                        ELSE IF IsOpen(x) /\ type[x] \notin {"RootTask", "TrackVeteranTask"}
                        THEN "cancelled" ELSE status[x]
      /\ UNCHANGED <<type, parent, org>>
  BY DEF WithdrawAppeal
<1>2. Rows' = Rows
  BY <1>1, RootIsRow DEF Rows, IsOpen, OpenStatuses, ActiveStatuses
<1>3. \A x \in Gone : status'[x] \in ClosedStatuses
  BY <1>1 DEF Rows, ClosedStatuses
<1>4. \A x \in Rows \ {Root} : OpenChildren(x) \subseteq Gone /\ ActiveHolds(x) \subseteq Gone
  BY RootIsRow DEF ActiveHolds, OpenChildren, Children, HInv, Shape, Fits
<1>5. \A x \in Rows \ Gone : x # Distribution => status'[x] = status[x]
  BY <1>1 DEF Rows
<1>6. status'[Distribution] = "assigned" /\ IsOpen(Distribution)' /\ ~ IsHold(Distribution)
  BY <1>1, RootIsRow DEF IsOpen, OpenStatuses, ActiveStatuses, IsHold
<1>7. Root \notin Gone
  BY RootIsRow
<1>8. \A j \in Rows \ Gone : type[j] = "JudgeAssignTask" => ~ IsOpen(j)
  BY RootIsRow
<1>9. Gone \subseteq Rows \ {Distribution}
  OBVIOUS
<1> HIDE DEF Gone
<1>10. Grows({}, Root, Gone)
  BY <1>1, <1>2, <1>3, <1>4, <1>5, <1>6, <1>7, <1>9 DEF Grows, HInv, Shape, IsOpen
<1>11. InTurn({}, Root, Gone)
  BY <1>4, <1>5, <1>6, <1>7, <1>8, <1>9, RootIsRow DEF InTurn, IsOpen
<1> QED
  BY <1>10, <1>11 DEF Growth

\* What is cancelled with the former representative's tasks waits for nothing
\* else, and is none of the first rows.
LEMMA FormerClosed ==
    ASSUME HInv, NEW x \in CancelledWithFormer
    PROVE  /\ x \in Rows /\ OpenChildren(x) \subseteq CancelledWithFormer
           /\ x # Root /\ x # Distribution /\ type[x] # "JudgeAssignTask"
<1>1. \A f \in FormerTasks :
        f \in Rows /\ f \in org /\ type[f] \in {"TrackVeteranTask", Ihp}
  BY DEF FormerTasks, Ihp
<1>2. \A f \in FormerTasks : \A b \in OpenChildren(f) :
        b \in Rows /\ (IsHold(b) \/ (type[b] = Ihp /\ b \notin org))
  <2> SUFFICES ASSUME NEW f \in FormerTasks, NEW b \in OpenChildren(f)
               PROVE  b \in Rows /\ (IsHold(b) \/ (type[b] = Ihp /\ b \notin org))
    OBVIOUS
  <2>1. b \in Rows /\ parent[b] = f /\ b # Root
    BY <1>1, RootIsRow DEF OpenChildren, Children
  <2>2. type[f] # "TrackVeteranTask"
    BY <1>1, <2>1, RootIsRow DEF HInv, IInv, ParentsAreRows
  <2> QED
    BY <1>1, <2>1, <2>2 DEF HInv, Shape, Fits
<1>3. \A f \in FormerTasks : \A b \in OpenChildren(f) : \A c \in OpenChildren(b) :
        IsHold(c) /\ c \in ActiveHolds(b)
  <2> SUFFICES ASSUME NEW f \in FormerTasks, NEW b \in OpenChildren(f), NEW c \in OpenChildren(b)
               PROVE  IsHold(c)
    BY DEF ActiveHolds, IsHold
  <2>1. b \in Rows /\ c \in Rows /\ parent[b] = f /\ parent[c] = b /\ b # Root /\ c # Root
    BY <1>1, <1>2, RootIsRow DEF OpenChildren, Children
  <2>2. Fits(b) /\ Fits(c)
    BY <2>1 DEF HInv, Shape
  <2> QED
    BY <1>2, <2>1, <2>2 DEF Fits
<1>4. CASE x \in FormerTasks
  <2>1. OpenChildren(x) \subseteq CancelledWithFormer
    BY <1>4 DEF CancelledWithFormer
  <2> QED
    BY <1>1, <1>4, <2>1, RootIsRow DEF Ihp
<1>5. CASE \E f \in FormerTasks : x \in OpenChildren(f)
  <2>1. OpenChildren(x) \subseteq CancelledWithFormer
    BY <1>3, <1>5 DEF CancelledWithFormer
  <2> QED
    BY <1>2, <1>5, <2>1, RootIsRow DEF IsHold, Ihp
<1>6. CASE \E f \in FormerTasks : \E b \in OpenChildren(f) : x \in ActiveHolds(b)
  <2>1. x \in Rows /\ IsHold(x)
    BY <1>6 DEF ActiveHolds, OpenChildren, Children, IsHold
  <2> QED
    BY <2>1, NothingBelowHolds, RootIsRow DEF IsHold, OpenChildren
<1> QED
  BY <1>4, <1>5, <1>6 DEF CancelledWithFormer

\* The statuses after that cancellation.
LEMMA AfterCancelFormerRows ==
    ASSUME HInv, NEW st, NEW kept
    PROVE  /\ CancelledWithFormer \subseteq Rows
           /\ \A x \in CancelledWithFormer : AfterCancelFormer(st, kept)[x] = "cancelled"
           /\ \A x \in Tasks \ CancelledWithFormer :
                \/ AfterCancelFormer(st, kept)[x] = st[x]
                \/ /\ AfterCancelFormer(st, kept)[x] = "assigned"
                   /\ status[x] = "on_hold" /\ x \in Rows \ (kept \union {Root})
                   /\ OpenChildren(x) \subseteq CancelledWithFormer
<1>1. CancelledWithFormer \subseteq Rows
  BY FormerClosed
<1> QED
  BY <1>1 DEF AfterCancelFormer, Rows

LEMMA NoRepresentativeGrowth ==
    ASSUME HInv, NoRepresentative
    PROVE  Growth
<1> DEFINE Gone == CancelledWithFormer
<1>1. status' = AfterCancelFormer(status, {}) /\ UNCHANGED <<type, parent, org>>
  BY DEF NoRepresentative
<1>2. /\ Gone \in SUBSET Rows
      /\ \A x \in Gone : status'[x] = "cancelled"
      /\ \A x \in Tasks \ Gone :
           \/ status'[x] = status[x]
           \/ /\ status'[x] = "assigned" /\ status[x] = "on_hold"
              /\ x \in Rows /\ OpenChildren(x) \subseteq Gone
  BY <1>1, AfterCancelFormerRows
<1>3. \A x \in Gone : OpenChildren(x) \subseteq Gone /\ ActiveHolds(x) \subseteq Gone
  BY FormerClosed DEF ActiveHolds
<1> HIDE DEF Gone
<1>4. Rows' = Rows
  BY <1>2 DEF Rows
<1>5. \A x \in Gone : status'[x] \in ClosedStatuses
  BY <1>2 DEF ClosedStatuses
<1>6. \A x \in Rows \ Gone : status'[x] = status[x] \/ (IsOpen(x) /\ IsOpen(x)')
  BY <1>2 DEF Rows, IsOpen, OpenStatuses, ActiveStatuses
<1>7. \A x \in Rows \ Gone : status'[x] = status[x] \/ \A c \in OpenChildren(x) \ Gone : IsHold(c)
  BY <1>2 DEF Rows
<1> QED
  BY <1>1, <1>2, <1>3, <1>4, <1>5, <1>6, <1>7, ClosesGrowth

\* The new IHP task is below the RootTask or the DistributionTask, in order an
\* open one.
LEMMA IhpParentsAreFirst ==
    ASSUME HInv, NEW p \in IhpParents
    PROVE  p \in {Root, Distribution} /\ (WInv /\ p = Distribution => IsOpen(p))
<1>1. CASE \E t \in FormerTasks : type[t] = Ihp /\ p = parent[t]
  <2>1. PICK t \in FormerTasks : type[t] = Ihp /\ p = parent[t]
    BY <1>1
  <2>2. t \in Rows /\ t \in org /\ IsOpen(t) /\ t # Root /\ ~ IsHold(t)
    BY <2>1, RootIsRow DEF FormerTasks, Ihp, IsHold
  <2>3. p \in {Root, Distribution}
    BY <2>1, <2>2 DEF HInv, Shape, Fits
  <2>4. p = Distribution => t \in OpenChildren(Distribution)
    BY <2>1, <2>2 DEF OpenChildren, Children
  <2>5. WInv /\ p = Distribution => status[Distribution] = "on_hold"
    BY <2>2, <2>4, RootIsRow DEF WInv, WaitsForOthers
  <2> QED
    BY <2>3, <2>5 DEF IsOpen, OpenStatuses
<1>2. CASE p = IF IsOpen(Distribution) THEN Distribution ELSE Root
  BY <1>2, FirstRowsAreTasks
<1> QED
  BY <1>1, <1>2 DEF IhpParents, Ihp

LEMMA NewRepresentativeGrowth ==
    ASSUME HInv, NEW t \in Tasks, NEW r \in Representatives, NewRepresentative(t, r)
    PROVE  Growth
<1> DEFINE Gone == CancelledWithFormer
<1>1. PICK N, new, p, kept :
              /\ NewTracking(t, N, new, p, kept)
              /\ p = Root \/ p \in IhpParents
              /\ type'[t] = "TrackVeteranTask"
              /\ \A x \in N \ {t} : type'[x] = Ihp
  BY NewRepresentativeTracks DEF HInv, Ihp
<1>2. /\ t \in N /\ N \subseteq Tasks \ Rows
      /\ DOMAIN new = N /\ \A x \in N : new[x] \in ActiveStatuses
      /\ (p = Root /\ kept = {}) \/ kept = {p}
      /\ status' = AfterCancelFormer(AfterCreate(new, p, {}), kept)
      /\ \A x \in Rows : type'[x] = type[x] /\ parent'[x] = parent[x]
      /\ parent'[t] = Root
      /\ \A x \in N \ {t} : parent'[x] = p
      /\ org' = org \union N
  BY <1>1 DEF NewTracking, Rows
<1>3. p \in {Root, Distribution} /\ (WInv /\ p = Distribution => IsOpen(p))
  BY <1>1, IhpParentsAreFirst, FirstRowsAreTasks
<1>4. /\ Root \in Rows /\ Distribution \in Rows /\ Root # Distribution
      /\ Root \notin Gone /\ Distribution \notin Gone
      /\ \A x \in Gone : OpenChildren(x) \subseteq Gone /\ ActiveHolds(x) \subseteq Gone
  BY RootIsRow, FormerClosed DEF ActiveHolds
<1>5. /\ Gone \subseteq Rows
      /\ \A x \in Gone : status'[x] = "cancelled"
      /\ \A x \in Tasks \ Gone :
           \/ status'[x] = AfterCreate(new, p, {})[x]
           \/ /\ status'[x] = "assigned" /\ status[x] = "on_hold"
              /\ x \in Rows \ (kept \union {Root}) /\ OpenChildren(x) \subseteq Gone
  BY <1>2, AfterCancelFormerRows
<1>6. \A x \in Tasks :
        AfterCreate(new, p, {})[x] = IF x \in N THEN new[x]
                                     ELSE IF x = p
                                     THEN IF p # Root \/ status[p] \in ActiveStatuses
                                          THEN "on_hold" ELSE status[p]
                                     ELSE status[x]
  BY <1>2 DEF AfterCreate, ParentAfterCreate
<1> HIDE DEF Gone
<1>7. /\ \A x \in N : status'[x] \in ActiveStatuses
      /\ status'[p] = IF p # Root \/ status[p] \in ActiveStatuses THEN "on_hold" ELSE status[p]
      /\ \A x \in Rows \ (Gone \union {p}) :
           \/ status'[x] = status[x]
           \/ /\ status'[x] = "assigned" /\ status[x] = "on_hold" /\ x # Root
              /\ OpenChildren(x) \subseteq Gone
  <2>1. Rows \subseteq Tasks /\ p \in Rows /\ p \notin Gone /\ p \notin N
    BY <1>2, <1>3, <1>4, RootIsRow
  <2> QED
    BY <1>2, <1>5, <1>6, <2>1
<1>8. Rows' = Rows \union N
  <2>1. \A x \in Tasks \ (Rows \union N) : status'[x] = "none"
    BY <1>3, <1>4, <1>5, <1>6 DEF Rows
  <2>2. \A x \in Rows \union N : x \in Tasks /\ status'[x] # "none"
    BY <1>2, <1>5, <1>7 DEF Rows, ActiveStatuses
  <2> QED
    BY <2>1, <2>2 DEF Rows
<1>9. \A x \in N : ~ IsHold(x)' /\ type'[x] # "JudgeAssignTask" /\ parent'[x] \in {Root, p} /\ parent'[x] \notin N
  BY <1>1, <1>2, <1>3, <1>4 DEF IsHold, Ihp
<1>10. Grows(N, p, Gone)
  <2>1. \A x \in N : Fits(x)'
    <3>1. \A x \in N : parent'[x] \in {Root, Distribution}
      BY <1>3, <1>9
    <3>2. \A y \in {Root, Distribution} : y \in Rows' /\ type'[y] \in {"RootTask", "DistributionTask"}
      BY <1>2, <1>4, <1>8, RootIsRow
    <3>3. \A x \in N : type'[x] = "TrackVeteranTask" => parent'[x] = Root
      BY <1>1, <1>2 DEF Ihp
    <3> QED
      BY <1>9, <3>1, <3>2, <3>3 DEF Fits, IsHold, Ihp
  <2>2. \A x \in Rows \ Gone : IsOpen(x) => IsOpen(x)'
    BY <1>7 DEF IsOpen, OpenStatuses, ActiveStatuses
  <2>3. \A x \in Rows \ Gone : IsOpen(x)' /\ ~ IsOpen(x) => x = p
    BY <1>7 DEF IsOpen, OpenStatuses, ActiveStatuses
  <2>4. ~ IsHold(p)
    BY <1>3, RootIsRow DEF IsHold
  <2>5. \A x \in Gone : status'[x] \in ClosedStatuses
    BY <1>5 DEF ClosedStatuses
  <2>6. org' \subseteq Rows' /\ \A x \in Rows : x \in org' <=> x \in org
    BY <1>2, <1>8 DEF HInv, Shape
  <2> QED
    BY <1>2, <1>4, <1>5, <1>8, <1>9, <2>1, <2>2, <2>3, <2>4, <2>5, <2>6 DEF Grows
<1>11. ASSUME InOrder, WInv
       PROVE  InTurn(N, p, Gone)
  <2>1. \A x \in Rows \ Gone : IsOpen(x)' => IsOpen(x) \/ x = Root
    BY <1>3, <1>7, <1>11 DEF IsOpen, OpenStatuses, ActiveStatuses
  <2>2. \A x \in Rows \ (Gone \union {Root}) :
         \/ status'[x] = status[x]
         \/ x = p /\ status'[x] = "on_hold"
         \/ \A c \in OpenChildren(x) \ Gone : IsHold(c)
    BY <1>7
  <2>3. \A x \in N : parent'[x] = p /\ p # Root =>
              status'[p] = "on_hold" /\ p \in Rows \ Gone /\ ActiveHolds(p) \subseteq Gone
    BY <1>3, <1>4, <1>7, FirstRowsHoldFree
  <2> QED
    BY <1>4, <1>9, <2>1, <2>2, <2>3, RootIsRow DEF InTurn
<1> QED
  BY <1>10, <1>11 DEF Growth

-----------------------------------------------------------------------------
(* Changing the type of a task *)

\* The rows of a chain have one type, as there is no cycle: those of another
\* type would each have one of them below.
LEMMA ChainOfOneType ==
    ASSUME HInv, NEW t, NEW A \in SameTypeChains(t)
    PROVE  A \subseteq Rows /\ \A x \in A : type[x] = type[t]
<1> DEFINE B == {x \in A : type[x] # type[t]}
<1>1. A \subseteq Rows /\ \A x \in A \ {t} : \E c \in A : parent[c] = x /\ type[c] = type[x]
  BY DEF SameTypeChains
<1>2. \A x \in B : \E c \in B : parent[c] = x
  BY <1>1
<1>3. B \in SUBSET Rows
  BY <1>1
<1>4. B = {}
  BY <1>2, <1>3 DEF HInv, NoCycle
<1> QED
  BY <1>1, <1>4

\* In order, they are all open when the lowest is: a closed one would wait for
\* a closed one.
LEMMA ChainIsOpen ==
    ASSUME WInv, NEW t \in Rows, IsOpen(t), ~ IsHold(t), NEW A \in SameTypeChains(t)
    PROVE  \A x \in A : IsOpen(x)
<1> DEFINE B == {x \in A : ~ IsOpen(x)}
<1>1. HInv
  BY DEF WInv
<1>2. /\ A \subseteq Rows
      /\ \A x \in A : type[x] = type[t]
      /\ \A x \in A \ {t} : \E c \in A : parent[c] = x
  BY <1>1, ChainOfOneType DEF SameTypeChains
<1>3. \A x \in B : \E c \in B : parent[c] = x
  <2> SUFFICES ASSUME NEW x \in A, ~ IsOpen(x)
               PROVE  \E c \in A : ~ IsOpen(c) /\ parent[c] = x
    OBVIOUS
  <2>1. PICK c \in A : parent[c] = x
    BY <1>2
  <2>2. x # Root
    BY <1>1, <1>2, <2>1, RootIsRow DEF HInv, IInv, ParentsAreRows
  <2>3. IsOpen(c) => c \in OpenChildren(x) /\ ~ IsHold(c)
    BY <1>2, <2>1 DEF OpenChildren, Children, IsHold
  <2>4. IsOpen(c) => status[x] = "on_hold"
    BY <1>2, <2>2, <2>3 DEF WInv, WaitsForOthers
  <2> QED
    BY <2>1, <2>4 DEF IsOpen, OpenStatuses
<1>4. B \in SUBSET Rows
  BY <1>2
<1>5. B = {}
  BY <1>1, <1>3, <1>4 DEF HInv, NoCycle
<1> QED
  BY <1>5

\* The branch that a change of type closes does not hold the task above it, which
\* waits for the new branch.
LEMMA ChangeTypeGrowth ==
    ASSUME HInv, NEW t \in Tasks, NEW n \in Tasks, NEW k \in TaskTypes, ChangeType(t, n, k)
    PROVE  Growth
<1>1. PICK A \in SameTypeChains(t) : \E a \in A : \E H \in HoldsEndedByChild(parent[a]) :
              parent[a] \notin A /\ \E N, new, D : NewBranch(n, N, new, k, a, D, H)
  BY ChangeTypeIsNewBranch DEF HInv
<1>2. PICK a \in A : \E H \in HoldsEndedByChild(parent[a]) :
              parent[a] \notin A /\ \E N, new, D : NewBranch(n, N, new, k, a, D, H)
  BY <1>1
<1> DEFINE p == parent[a]
<1>3. /\ ActionsAvailable(t) /\ t \in Rows /\ IsOpen(t)
      /\ {k, type[t]} \subseteq MailTypes \union OrdinaryTypes
  BY OpenIsRow, TypesAssumption DEF ChangeType, ActionsAvailable
<1>4. \A y \in {k, type[t]} :
        y \notin {"RootTask", "TimedHoldTask", "TrackVeteranTask", "JudgeAssignTask", Ihp}
  BY <1>3, TypesAssumption DEF BuiltinTypes, Ihp
<1>5. a \in Rows /\ type[a] = type[t]
  BY ChainOfOneType
<1>6. /\ p \in Rows /\ ~ IsHold(p) /\ type[p] # Ihp /\ a # Root
  <2>1. a # Root
    BY <1>4, <1>5, RootIsRow
  <2>2. Fits(a)
    BY <1>5, <2>1 DEF HInv, Shape
  <2> QED
    BY <1>4, <1>5, <2>1, <2>2 DEF Fits, IsHold
<1>7. PICK N, new, D : NewBranch(n, N, new, k, a, D, ActiveHolds(p))
  BY <1>2, <1>6, HoldsEnded
<1> DEFINE Gone == {x \in D : IsOpen(x)} \union ActiveHolds(p)
<1>8. /\ n \in N /\ N \subseteq Tasks \ Rows
      /\ DOMAIN new = N
      /\ \A x \in N : /\ new[x] \in OpenStatuses
                      /\ new[x] = "on_hold" <=> x = n /\ N # {n}
      /\ status' = CancelOpen(D, AfterCreate(new, p, ActiveHolds(p)))
      /\ \A x \in Rows : type'[x] = type[x] /\ parent'[x] = parent[x]
      /\ \A x \in N : type'[x] = k
      /\ parent'[n] = p /\ \A x \in N \ {n} : parent'[x] = n
      /\ org' = org \union N
  BY <1>7 DEF NewBranch, Rows
<1>9. /\ D \subseteq Rows /\ a \in D
      /\ \A x \in D : Children(x) \subseteq D
      /\ \A x \in D \ {a} : parent[x] \in D
  BY <1>7 DEF NewBranch, Subtrees
<1>10. p \notin D
  BY <1>9 DEF HInv, NoCycle
<1>11. /\ \A x \in ActiveHolds(p) : x \in Rows /\ IsHold(x) /\ OpenChildren(x) = {}
       /\ p \notin ActiveHolds(p)
  BY <1>6, NothingBelowHolds DEF ActiveHolds, OpenChildren, Children, IsHold
<1>12. \A x \in Gone : OpenChildren(x) \subseteq Gone /\ ActiveHolds(x) \subseteq Gone
  BY <1>9, <1>11 DEF OpenChildren, ActiveHolds
<1>13. \A x \in Tasks :
        status'[x] = IF x \in D /\ IsOpen(x) THEN "cancelled"
                     ELSE IF x \in N THEN new[x]
                     ELSE IF x = p
                     THEN IF p # Root \/ status[p] \in ActiveStatuses THEN "on_hold" ELSE status[p]
                     ELSE IF x \in ActiveHolds(p) THEN "cancelled" ELSE status[x]
  BY <1>8 DEF CancelOpen, AfterCreate, ParentAfterCreate
<1>14. Gone \subseteq Rows /\ p \notin Gone /\ Rows \subseteq Tasks /\ N \intersect Rows = {}
  BY <1>8, <1>9, <1>10, <1>11 DEF Rows
<1>15. /\ \A x \in N : status'[x] = new[x]
       /\ \A x \in Gone : status'[x] = "cancelled"
       /\ status'[p] = IF p # Root \/ status[p] \in ActiveStatuses THEN "on_hold" ELSE status[p]
       /\ \A x \in Rows \ (Gone \union {p}) : status'[x] = status[x]
       /\ \A x \in Tasks \ (Rows \union N) : status'[x] = status[x]
  <2> HIDE DEF p
  <2> QED
    BY <1>6, <1>8, <1>9, <1>10, <1>11, <1>13, <1>14
<1> HIDE DEF Gone, p
<1>16. Rows' = Rows \union N
  <2>1. \A x \in Tasks \ (Rows \union N) : status'[x] = "none"
    BY <1>15 DEF Rows
  <2>2. \A x \in Rows \union N : x \in Tasks /\ status'[x] # "none"
    BY <1>8, <1>15 DEF Rows, OpenStatuses, ActiveStatuses
  <2> QED
    BY <2>1, <2>2 DEF Rows
<1>17. \A x \in N : ~ IsHold(x)' /\ type'[x] # "JudgeAssignTask"
  BY <1>4, <1>8 DEF IsHold
<1>18. \A x \in N : /\ parent'[x] \in {p} \union N
                    /\ parent'[x] \in N => x # n /\ parent'[x] = n /\ parent'[n] = p /\ p \notin N
  BY <1>6, <1>8, <1>14
<1>19. \A x \in Rows \ Gone : IsOpen(x)' /\ ~ IsOpen(x) => x = p
  BY <1>15 DEF IsOpen
<1>20. Grows(N, p, Gone)
  <2>1. \A x \in N : Fits(x)'
    <3>1. \A x \in N : /\ parent'[x] \in Rows'
                       /\ type'[parent'[x]] \in {type[p], k}
      BY <1>6, <1>8, <1>16, <1>18
    <3>2. \A x \in N : /\ type'[parent'[x]] # Ihp
                       /\ type'[parent'[x]] # "TimedHoldTask"
                       /\ type'[x] \notin {"TimedHoldTask", "TrackVeteranTask", "JudgeAssignTask", Ihp}
      BY <1>4, <1>6, <1>8, <3>1 DEF IsHold
    <3> QED
      BY <3>1, <3>2 DEF Fits, IsHold
  <2>2. \A x \in Rows \ Gone : IsOpen(x) => IsOpen(x)'
    BY <1>15 DEF IsOpen, OpenStatuses, ActiveStatuses
  <2>3. \A x \in Gone : status'[x] \in ClosedStatuses
    BY <1>15 DEF ClosedStatuses
  <2>4. org' \subseteq Rows' /\ \A x \in Rows : x \in org' <=> x \in org
    BY <1>8, <1>14, <1>16 DEF HInv, Shape
  <2> QED
    BY <1>6, <1>8, <1>12, <1>14, <1>16, <1>17, <1>18, <1>19, <2>1, <2>2, <2>3, <2>4 DEF Grows
<1>21. ASSUME InOrder, WInv
       PROVE  InTurn(N, p, Gone)
  <2>1. IsOpen(a) /\ ~ IsHold(a)
    BY <1>3, <1>4, <1>5, <1>21, ChainIsOpen DEF IsHold
  <2>2. p # Root => IsOpen(p)
    <3>1. a \in OpenChildren(p)
      BY <1>5, <2>1 DEF OpenChildren, Children, p
    <3> QED
      BY <1>6, <1>21, <2>1, <3>1 DEF WInv, WaitsForOthers, IsOpen, OpenStatuses
  <2>3. \A x \in Rows \ Gone : IsOpen(x)' => IsOpen(x) \/ x = Root
    BY <1>19, <2>2
  <2>4. \A x \in Rows \ (Gone \union {Root}) :
          status'[x] = status[x] \/ (x = p /\ status'[x] = "on_hold")
    BY <1>15
  <2>5. \A x \in N :
         /\ parent'[x] \in N => status'[parent'[x]] = "on_hold"
         /\ parent'[x] = p /\ p # Root =>
              status'[p] = "on_hold" /\ p \in Rows \ Gone /\ ActiveHolds(p) \subseteq Gone
    <3>1. ActiveHolds(p) \subseteq Gone
      BY DEF Gone
    <3> QED
      BY <1>6, <1>8, <1>14, <1>15, <1>18, <3>1
  <2>6. IsOpen(Distribution)' => IsOpen(Distribution)
    <3>1. Distribution \in Gone => ~ IsOpen(Distribution)'
      BY <1>15 DEF IsOpen, OpenStatuses, ActiveStatuses
    <3> QED
      BY <2>3, <3>1, RootIsRow
  <2> QED
    BY <1>12, <1>17, <1>18, <2>3, <2>4, <2>5, <2>6, RootIsRow DEF InTurn
<1> QED
  BY <1>20, <1>21 DEF Growth

-----------------------------------------------------------------------------
(* Distributing the appeal *)

\* The task of a judge who gets the appeal for the first time is below the
\* RootTask, and the DistributionTask, which is not on hold, waits for nothing.
LEMMA DistributeNewGrowth ==
    ASSUME HInv, NEW t \in Tasks, IsNextRow(t), status[Distribution] = "assigned",
           status' = [AfterCreate([x \in {t} |-> "assigned"], Root, {}) EXCEPT ![Distribution] = "completed"],
           type' = [type EXCEPT ![t] = "JudgeAssignTask"],
           parent' = [parent EXCEPT ![t] = Root],
           org' = org
    PROVE  Growth
<1>1. /\ t \notin Rows /\ t # Root /\ t # Distribution
      /\ Root \in Rows /\ Distribution \in Rows /\ Root # Distribution /\ Rows \subseteq Tasks
  BY RootIsRow DEF IsNextRow, Rows
<1>2. \A x \in Tasks :
        status'[x] = IF x = Distribution THEN "completed"
                     ELSE IF x = t THEN "assigned"
                     ELSE IF x = Root
                     THEN IF status[Root] \in ActiveStatuses THEN "on_hold" ELSE status[Root]
                     ELSE status[x]
  BY <1>1 DEF AfterCreate, ParentAfterCreate
<1>3. /\ \A x \in Rows : type'[x] = type[x] /\ parent'[x] = parent[x]
      /\ type'[t] = "JudgeAssignTask" /\ parent'[t] = Root
  BY <1>1 DEF HInv, IInv, TypeOK
<1>4. Rows' = Rows \union {t}
  BY <1>1, <1>2 DEF Rows
<1>5. ActiveHolds(Distribution) = {}
  BY FirstRowsHoldFree
<1>6. \A x \in Rows : IsOpen(x)' => IsOpen(x) /\ x # Distribution
  BY <1>1, <1>2 DEF IsOpen, OpenStatuses, ActiveStatuses
<1>7. \A x \in Rows \ {Distribution} : IsOpen(x) => IsOpen(x)'
  BY <1>1, <1>2 DEF IsOpen, OpenStatuses, ActiveStatuses
<1>8. status'[Distribution] \in ClosedStatuses /\ ~ IsOpen(Distribution)'
  BY <1>1, <1>2 DEF ClosedStatuses, IsOpen, OpenStatuses, ActiveStatuses
<1>9. Grows({t}, Root, {Distribution})
  <2>1. Fits(t)' /\ ~ IsHold(t)'
    BY <1>1, <1>3, <1>4, RootIsRow DEF Fits, IsHold, Ihp
  <2> QED
    BY <1>1, <1>3, <1>4, <1>5, <1>6, <1>7, <1>8, <2>1 DEF Grows, HInv, Shape
<1>10. ASSUME InOrder, WInv
       PROVE  InTurn({t}, Root, {Distribution})
  <2>1. OpenChildren(Distribution) = {}
    <3>1. \A c \in OpenChildren(Distribution) : IsHold(c)
      BY <1>1, <1>10 DEF WInv, WaitsForOthers
    <3> QED
      BY <1>5, <3>1 DEF ActiveHolds, IsHold
  <2>2. ~ IsHold(t)'
    BY <1>3 DEF IsHold
  <2>3. \A x \in Rows \ {Distribution, Root} : status'[x] = status[x]
    BY <1>1, <1>2
  <2> QED
    BY <1>1, <1>3, <1>6, <1>8, <2>1, <2>2, <2>3 DEF InTurn
<1> QED
  BY <1>9, <1>10 DEF Growth

-----------------------------------------------------------------------------
(* Replacing a row *)

\* The new row hangs where the one it replaces did, which is neither a hold nor
\* the task of a representative.
Moves(t, r, p, D) ==
    /\ Replaces(t, r, p, ActiveHolds(p), D)
    /\ p = parent[t] /\ p \notin D
    /\ ~ IsHold(t) /\ (t \in org => type[t] # Ihp)

\* The rows after that.
LEMMA MovesRows ==
    ASSUME HInv, NEW t, NEW r, NEW p, NEW D, Moves(t, r, p, D)
    PROVE  /\ t \in Rows /\ r \notin Rows /\ p \in Rows /\ t # Root /\ t # Distribution /\ t # p
           /\ Rows' = Rows \union {r} /\ IsOpen(t) /\ ~ IsHold(t) /\ ~ IsHold(p)
           /\ p \notin ActiveHolds(p) /\ t \notin ActiveHolds(p)
           /\ \A x \in ActiveHolds(p) : IsHold(x) /\ status'[x] = "cancelled"
           /\ status'[r] = status[t] /\ status'[t] = "cancelled"
           /\ status'[p] = IF p # Root \/ status[p] \in ActiveStatuses THEN "on_hold" ELSE status[p]
           /\ D \subseteq {Distribution} /\ \A x \in D : status'[x] = "completed"
           /\ \A x \in Rows \ ({t, p} \union ActiveHolds(p) \union D) : status'[x] = status[x]
           /\ \A x \in Rows : /\ type'[x] = type[x]
                              /\ parent'[x] = IF x \in OpenChildren(t) THEN r ELSE parent[x]
           /\ type'[r] = type[t] /\ parent'[r] = p
           /\ org' = org /\ r \notin org
<1>1. /\ t \in Rows /\ r \in Tasks /\ D \subseteq {Distribution} /\ IsNextRow(r) /\ IsOpen(t)
      /\ type[t] \notin {"RootTask", "DistributionTask", "TrackVeteranTask"}
      /\ status' = Replaced(t, r, p, ActiveHolds(p), D)
      /\ type' = [type EXCEPT ![r] = type[t]] /\ parent' = Adopted(t, r) /\ org' = org
      /\ p = parent[t] /\ p \notin D /\ ~ IsHold(t)
  BY DEF Moves, Replaces
<1>2. r \notin Rows /\ r # t /\ r \notin org
  BY <1>1 DEF IsNextRow, Rows, HInv, Shape
<1>3. t # Root /\ t # Distribution /\ Distribution \in Rows /\ Rows \subseteq Tasks
  BY <1>1, RootIsRow
<1>4. p \in Rows /\ ~ IsHold(p) /\ t # p
  BY <1>1, <1>3 DEF HInv, Shape, Fits, IInv, ParentsAreRows
<1>5. \A x \in ActiveHolds(p) : x \in Rows /\ IsHold(x)
  BY DEF ActiveHolds, OpenChildren, Children, IsHold
<1>6. \A x \in Tasks :
        status'[x] = IF x = t THEN "cancelled"
                     ELSE IF x \in D THEN "completed"
                     ELSE IF x = r THEN status[t]
                     ELSE IF x = p
                     THEN IF p # Root \/ status[p] \in ActiveStatuses THEN "on_hold" ELSE status[p]
                     ELSE IF x \in ActiveHolds(p) THEN "cancelled" ELSE status[x]
  BY <1>1 DEF Replaced, AfterCreate, ParentAfterCreate
<1>7. ~ IsHold(Distribution)
  BY RootIsRow DEF IsHold
<1>8. \A x \in ActiveHolds(p) : x # t /\ x # r /\ x # p /\ x \notin D /\ x \in Tasks
  BY <1>1, <1>2, <1>3, <1>4, <1>5, <1>7
<1>9. /\ \A x \in ActiveHolds(p) : status'[x] = "cancelled"
      /\ status'[r] = status[t] /\ status'[t] = "cancelled"
      /\ status'[p] = IF p # Root \/ status[p] \in ActiveStatuses THEN "on_hold" ELSE status[p]
      /\ \A x \in D : status'[x] = "completed"
      /\ \A x \in Rows \ ({t, p} \union ActiveHolds(p) \union D) : status'[x] = status[x]
      /\ \A x \in Tasks \ (Rows \union {r}) : status'[x] = status[x]
  BY <1>1, <1>2, <1>3, <1>4, <1>5, <1>6, <1>8
<1>10. Rows' = Rows \union {r}
  <2>1. \A x \in Tasks \ (Rows \union {r}) : status'[x] = "none"
    BY <1>9 DEF Rows
  <2>2. \A x \in Rows \union {r} : x \in Tasks /\ status'[x] # "none"
    BY <1>1, <1>3, <1>9 DEF Rows, IsOpen, OpenStatuses, ActiveStatuses
  <2> QED
    BY <2>1, <2>2 DEF Rows
<1>11. /\ \A x \in Rows : type'[x] = type[x]
       /\ type'[r] = type[t]
  BY <1>1, <1>2, <1>3 DEF HInv, IInv, TypeOK
<1>12. /\ \A x \in Rows : parent'[x] = IF x \in OpenChildren(t) THEN r ELSE parent[x]
       /\ parent'[r] = p
  BY <1>1, <1>2, <1>3 DEF Adopted
<1> QED
  BY <1>1, <1>2, <1>3, <1>4, <1>5, <1>8, <1>9, <1>10, <1>11, <1>12

LEMMA MovesShape ==
    ASSUME HInv, NEW t, NEW r, NEW p, NEW D, Moves(t, r, p, D)
    PROVE  Shape'
<1>1. /\ t \in Rows /\ r \notin Rows /\ p \in Rows /\ t # Root /\ t # Distribution /\ t # p
      /\ Rows' = Rows \union {r} /\ ~ IsHold(t) /\ ~ IsHold(p)
      /\ \A x \in Rows : /\ type'[x] = type[x]
                         /\ parent'[x] = IF x \in OpenChildren(t) THEN r ELSE parent[x]
      /\ type'[r] = type[t] /\ parent'[r] = p
      /\ org' = org /\ r \notin org
  BY MovesRows
<1>2. p = parent[t] /\ (t \in org => type[t] # Ihp)
  BY DEF Moves
<1>3. org \subseteq Rows /\ parent[Root] = NoTask /\ \A x \in Rows \ {Root} : Fits(x)
  BY DEF HInv, Shape
<1>4. Root \in Rows /\ NoTask \notin Rows
  BY RootIsRow
<1>5. \A x \in OpenChildren(t) : x \in Rows /\ parent[x] = t
  BY DEF OpenChildren, Children
<1>6. Fits(r)'
  BY <1>1, <1>2, <1>3 DEF Fits, IsHold
<1>7. \A x \in OpenChildren(t) : Fits(x)'
  <2> SUFFICES ASSUME NEW x \in OpenChildren(t)
               PROVE  Fits(x)'
    OBVIOUS
  <2>1. x \in Rows /\ x # Root /\ parent[x] = t /\ parent'[x] = r
    BY <1>1, <1>3, <1>4, <1>5
  <2>2. Fits(x)
    BY <1>3, <2>1
  <2> QED
    BY <1>1, <1>2, <2>1, <2>2 DEF Fits, IsHold
<1>8. \A x \in Rows \ {Root} : x \notin OpenChildren(t) => Fits(x)'
  BY <1>1, <1>3 DEF Fits, IsHold
<1>9. parent'[Root] = NoTask
  BY <1>1, <1>3, <1>4, <1>5
<1> QED
  BY <1>1, <1>3, <1>6, <1>7, <1>8, <1>9 DEF Shape

\* The holds after that: t hands its own over, those of p end.
LEMMA MovesHolds ==
    ASSUME HInv, NEW t, NEW r, NEW p, NEW D, Moves(t, r, p, D),
           NEW x \in Rows', NEW h \in ActiveHolds(x)'
    PROVE  \/ x = r /\ h \in ActiveHolds(t)
           \/ x \in Rows \ {t, p} /\ h \in ActiveHolds(x)
<1>1. /\ t \in Rows /\ r \notin Rows /\ ~ IsHold(t) /\ ~ IsHold(p)
      /\ Rows' = Rows \union {r}
      /\ \A y \in ActiveHolds(p) : status'[y] = "cancelled"
      /\ \A y \in D : status'[y] = "completed"
      /\ \A y \in Rows \ ({t, p} \union ActiveHolds(p) \union D) : status'[y] = status[y]
      /\ \A y \in Rows : /\ type'[y] = type[y]
                         /\ parent'[y] = IF y \in OpenChildren(t) THEN r ELSE parent[y]
      /\ type'[r] = type[t]
  BY MovesRows
<1>2. h \in Rows' /\ parent'[h] = x /\ status'[h] \in OpenStatuses /\ type'[h] = "TimedHoldTask"
  BY DEF ActiveHolds, OpenChildren, Children, IsOpen
<1>3. /\ h \in Rows /\ h \notin {t, p} /\ type[h] = "TimedHoldTask"
      /\ h \notin ActiveHolds(p) \union D
  BY <1>1, <1>2 DEF IsHold, OpenStatuses, ActiveStatuses
<1>4. IsOpen(h)
  BY <1>1, <1>2, <1>3 DEF IsOpen
<1>5. \A y : parent[h] = y => h \in ActiveHolds(y) /\ h \in OpenChildren(y)
  BY <1>3, <1>4 DEF ActiveHolds, OpenChildren, Children
<1>6. CASE h \in OpenChildren(t)
  BY <1>1, <1>2, <1>3, <1>5, <1>6 DEF OpenChildren, Children
<1>7. CASE h \notin OpenChildren(t)
  <2>1. parent[h] = x /\ x # t /\ x # p
    BY <1>1, <1>2, <1>3, <1>5, <1>7
  <2>2. x # r
    BY <1>1, <1>3, <2>1, RootIsRow DEF HInv, Shape, Fits, IsHold
  <2> QED
    BY <1>1, <1>5, <2>1, <2>2
<1> QED
  BY <1>6, <1>7

LEMMA MovesOneHold ==
    ASSUME HInv, NEW t, NEW r, NEW p, NEW D, Moves(t, r, p, D)
    PROVE  OneActiveHold'
<1> SUFFICES ASSUME NEW x \in Rows', NEW g \in ActiveHolds(x)', NEW h \in ActiveHolds(x)'
             PROVE  g = h /\ IsOpen(x)'
  BY DEF OneActiveHold
<1>1. \A f \in {g, h} : \/ x = r /\ f \in ActiveHolds(t)
                        \/ x \in Rows \ {t, p} /\ f \in ActiveHolds(x)
  BY MovesHolds
<1>2. /\ t \in Rows /\ r \notin Rows /\ status'[r] = status[t] /\ IsOpen(t)
      /\ \A y \in ActiveHolds(p) : IsHold(y)
      /\ D \subseteq {Distribution}
      /\ \A y \in Rows \ ({t, p} \union ActiveHolds(p) \union D) : status'[y] = status[y]
  BY MovesRows
<1>3. CASE x = r
  BY <1>1, <1>2, <1>3 DEF HInv, OneActiveHold, IsOpen
<1>4. CASE x # r
  <2>1. x \in Rows \ {t, p} /\ g \in ActiveHolds(x) /\ h \in ActiveHolds(x)
    BY <1>1, <1>4
  <2>2. ~ IsHold(x) /\ x \notin D
    BY <1>2, <2>1, FirstRowsHoldFree, NothingBelowHolds DEF ActiveHolds, OpenChildren
  <2>3. status'[x] = status[x]
    BY <1>2, <2>1, <2>2
  <2> QED
    BY <2>1, <2>3 DEF HInv, OneActiveHold, IsOpen
<1> QED
  BY <1>3, <1>4

\* The place of t in a set of rows is taken by r.
LEMMA MovesNoCycle ==
    ASSUME HInv, NEW t, NEW r, NEW p, NEW D, Moves(t, r, p, D)
    PROVE  NoCycle'
<1>1. /\ t \in Rows /\ r \notin Rows /\ p \in Rows /\ t # p
      /\ Rows' = Rows \union {r}
      /\ \A x \in Rows : parent'[x] = IF x \in OpenChildren(t) THEN r ELSE parent[x]
      /\ parent'[r] = p
  BY MovesRows
<1>2. p = parent[t]
  BY DEF Moves
<1>3. \A x \in Rows : parent[x] \in Rows \union {NoTask} /\ parent[x] # r
  <2>1. r # NoTask
    BY FirstRowsAreTasks DEF Moves, Replaces
  <2> QED
    BY <1>1, <2>1 DEF HInv, Shape, Fits
<1>4. \A x \in OpenChildren(t) : x \in Rows /\ parent[x] = t
  BY DEF OpenChildren, Children
<1>5. \A B \in SUBSET Rows : B # {} => /\ \E x \in B : parent[x] \notin B
                                       /\ \E x \in B : \A y \in B : parent[y] # x
  BY DEF HInv, NoCycle
<1> SUFFICES ASSUME NEW B \in SUBSET Rows', B # {}
             PROVE  /\ \E x \in B : parent'[x] \notin B
                    /\ \E x \in B : \A y \in B : parent'[y] # x
  BY DEF NoCycle
<1>6. CASE r \notin B
  <2>1. B \in SUBSET Rows
    BY <1>1, <1>6
  <2>2. PICK x \in B : parent[x] \notin B
    BY <1>5, <2>1
  <2>3. PICK z \in B : \A y \in B : parent[y] # z
    BY <1>5, <2>1
  <2>4. parent'[x] \notin B
    BY <1>1, <1>6, <2>1, <2>2
  <2>5. \A y \in B : parent'[y] # z
    BY <1>1, <1>6, <2>1, <2>3
  <2> QED
    BY <2>4, <2>5
<1>7. CASE r \in B
  <2> DEFINE A == (B \ {r}) \union {t}
  <2>1. A \in SUBSET Rows /\ A # {} /\ t \in A
    BY <1>1
  <2>2. \E x \in B : parent'[x] \notin B
    <3>1. PICK x \in A : parent[x] \notin A
      BY <1>5, <2>1
    <3>2. CASE x = t
      <4>1. p \notin B
        BY <1>1, <1>2, <3>1, <3>2
      <4> QED
        BY <1>1, <1>7, <4>1
    <3>3. CASE x # t
      <4>1. x \in B /\ x \in Rows /\ x \notin OpenChildren(t) /\ parent[x] \notin B
        BY <1>1, <1>3, <1>4, <2>1, <3>1, <3>3
      <4> QED
        BY <1>1, <4>1
    <3> QED
      BY <3>2, <3>3
  <2>3. \E x \in B : \A y \in B : parent'[y] # x
    <3>1. PICK x \in A : \A y \in A : parent[y] # x
      BY <1>5, <2>1
    <3>2. CASE x = t
      <4>1. \A y \in B : parent'[y] # r
        BY <1>1, <1>3, <1>4, <2>1, <3>1, <3>2
      <4> QED
        BY <1>7, <4>1
    <3>3. CASE x # t
      <4>1. x \in B /\ x # r /\ p # x
        BY <1>1, <1>2, <2>1, <3>1, <3>3
      <4>2. \A y \in B : parent'[y] # x
        BY <1>1, <2>1, <3>1, <4>1
      <4> QED
        BY <4>1, <4>2
    <3> QED
      BY <3>2, <3>3
  <2> QED
    BY <2>2, <2>3
<1> QED
  BY <1>6, <1>7

LEMMA MovesHInv ==
    ASSUME HInv, IInv', NEW t, NEW r, NEW p, NEW D, Moves(t, r, p, D)
    PROVE  HInv'
BY MovesShape, MovesOneHold, MovesNoCycle DEF HInv

\* Whoever waited for t waits for r, which waits for what t waited for.
LEMMA MovesWInv ==
    ASSUME WInv, HInv', NEW t, NEW r, NEW p, Moves(t, r, p, {})
    PROVE  WInv'
<1>0. HInv
  BY DEF WInv
<1>1. /\ t \in Rows /\ r \notin Rows /\ p \in Rows /\ t # Root /\ t # p
      /\ Rows' = Rows \union {r} /\ IsOpen(t) /\ ~ IsHold(t) /\ ~ IsHold(p)
      /\ \A x \in ActiveHolds(p) : IsHold(x) /\ status'[x] = "cancelled"
      /\ status'[r] = status[t] /\ status'[t] = "cancelled"
      /\ status'[p] = IF p # Root \/ status[p] \in ActiveStatuses THEN "on_hold" ELSE status[p]
      /\ \A x \in Rows \ ({t, p} \union ActiveHolds(p)) : status'[x] = status[x]
      /\ \A x \in Rows : /\ type'[x] = type[x]
                         /\ parent'[x] = IF x \in OpenChildren(t) THEN r ELSE parent[x]
      /\ type'[r] = type[t] /\ parent'[r] = p
  BY <1>0, MovesRows
<1>2. p # Root => status[p] = "on_hold" /\ IsOpen(p)
  <2>1. t \in OpenChildren(p)
    BY <1>1 DEF Moves, OpenChildren, Children
  <2> QED
    BY <1>1, <2>1 DEF WInv, WaitsForOthers, IsOpen, OpenStatuses
<1>3. \A x \in Rows : status'[x] \in OpenStatuses => x # t /\ x \notin ActiveHolds(p)
  BY <1>1 DEF OpenStatuses, ActiveStatuses
<1>4. \A x \in Rows : status'[x] \in OpenStatuses /\ x # Root => IsOpen(x)
  BY <1>1, <1>2, <1>3 DEF IsOpen
<1>5. WaitsForOthers'
  <2> SUFFICES ASSUME NEW x \in Rows', x # Root, NEW c \in OpenChildren(x)', ~ IsHold(c)'
               PROVE  status'[x] = "on_hold" /\ \A h \in ActiveHolds(x)' : FALSE
    BY DEF WaitsForOthers
  <2>1. c \in Rows' /\ parent'[c] = x /\ status'[c] \in OpenStatuses
    BY DEF OpenChildren, Children, IsOpen
  <2>2. \A h \in ActiveHolds(x)' : \/ x = r /\ h \in ActiveHolds(t)
                                   \/ x \in Rows \ {t, p} /\ h \in ActiveHolds(x)
    BY <1>0, MovesHolds
  <2>3. CASE c = r
    BY <1>1, <2>1, <2>2, <2>3
  <2>4. CASE c # r
    <3>1. /\ c \in Rows /\ ~ IsHold(c) /\ c # t
      BY <1>1, <1>3, <2>1, <2>4 DEF IsHold
    <3>2. c # Root
      <4>1. Root \notin OpenChildren(t) /\ x # NoTask
        BY <1>0, <1>1, RootIsRow, FirstRowsAreTasks DEF OpenChildren, Children, Rows
      <4> QED
        BY <1>0, <1>1, <2>1, <4>1, RootIsRow
    <3>3. IsOpen(c)
      BY <1>4, <2>1, <3>1, <3>2
    <3>4. CASE parent[c] = t
      <4>1. c \in OpenChildren(t)
        BY <3>1, <3>3, <3>4 DEF OpenChildren, Children
      <4>2. x = r /\ status[t] = "on_hold" /\ ActiveHolds(t) = {}
        BY <1>1, <2>1, <3>1, <4>1 DEF WInv, WaitsForOthers
      <4> QED
        BY <1>1, <2>2, <4>2
    <3>5. CASE parent[c] # t
      <4>1. parent[c] = x /\ x # t
        BY <1>1, <2>1, <3>1, <3>5 DEF OpenChildren, Children
      <4>2. x \in Rows
        BY <1>0, <3>1, <3>2, <4>1 DEF HInv, Shape, Fits
      <4>3. c \in OpenChildren(x)
        BY <3>1, <3>3, <4>1 DEF OpenChildren, Children
      <4>4. status[x] = "on_hold" /\ ActiveHolds(x) = {}
        BY <3>1, <4>2, <4>3 DEF WInv, WaitsForOthers
      <4>5. x \notin ActiveHolds(p)
        BY <1>0, <1>1, <4>2, <4>3, NothingBelowHolds DEF OpenChildren
      <4>6. status'[x] = "on_hold"
        BY <1>1, <4>1, <4>2, <4>4, <4>5
      <4> QED
        BY <1>1, <2>2, <4>2, <4>4, <4>6
    <3> QED
      BY <3>4, <3>5
  <2> QED
    BY <2>3, <2>4
<1>6. JudgeHasAppeal'
  <2> SUFFICES ASSUME NEW j \in Rows', type'[j] = "JudgeAssignTask", IsOpen(j)', IsOpen(Distribution)'
               PROVE  FALSE
    BY DEF JudgeHasAppeal
  <2>1. IsOpen(Distribution)
    BY <1>0, <1>4, RootIsRow DEF IsOpen
  <2>2. CASE j = r
    BY <1>1, <2>1, <2>2 DEF WInv, JudgeHasAppeal
  <2>3. CASE j # r
    <3>1. j \in Rows /\ type[j] = "JudgeAssignTask" /\ j # Root
      BY <1>0, <1>1, <2>3, RootIsRow
    <3>2. IsOpen(j)
      BY <1>4, <3>1 DEF IsOpen
    <3> QED
      BY <2>1, <3>1, <3>2 DEF WInv, JudgeHasAppeal
  <2> QED
    BY <2>2, <2>3
<1> QED
  BY <1>5, <1>6 DEF WInv

\* The task of a person is reassigned; the appeal goes to another judge while
\* the former one has it only out of order.
LEMMA ReassignMoves ==
    ASSUME HInv, NEW t \in Tasks, NEW r \in Tasks, Reassign(t, r)
    PROVE  \E p : Moves(t, r, p, {})
<1>1. PICK H \in HoldsEndedByChild(parent[t]) : Replaces(t, r, parent[t], H, {})
  BY ReassignReplaces DEF HInv
<1>2. /\ t \in Rows /\ t \notin org
      /\ type[t] \in MailTypes \union OrdinaryTypes \union {Ihp}
  BY <1>1 DEF Replaces, Reassign, ActionsAvailable, Ihp
<1>3. t # Root /\ ~ IsHold(t)
  BY <1>2, RootIsRow, TypesAssumption DEF BuiltinTypes, IsHold, Ihp
<1>4. parent[t] \in Rows
  BY <1>2, <1>3 DEF HInv, Shape, Fits
<1> QED
  BY <1>1, <1>2, <1>3, <1>4, HoldsEnded DEF Moves

LEMMA DistributeMoves ==
    ASSUME HInv, NEW t, NEW j \in Rows, type[j] = "JudgeAssignTask",
           Replaces(j, t, Root, {}, {Distribution})
    PROVE  Moves(j, t, Root, {Distribution})
<1>1. j # Root /\ ~ IsHold(j) /\ type[j] # Ihp /\ Root \notin {Distribution}
  BY RootIsRow DEF IsHold, Ihp
<1>2. parent[j] = Root
  BY <1>1 DEF HInv, Shape, Fits
<1> QED
  BY <1>1, <1>2, FirstRowsHoldFree DEF Moves

-----------------------------------------------------------------------------
(* Every step *)

LEMMA EveryStep ==
    ASSUME HInv, Next
    PROVE  \/ Growth
           \/ \E t, r, p : Moves(t, r, p, {})
           \/ \E j \in Rows : \E r : /\ type[j] = "JudgeAssignTask" /\ IsOpen(j)
                                     /\ status[Distribution] = "assigned"
                                     /\ Moves(j, r, Root, {Distribution})
<1>1. CASE UserStep
  <2>1. CASE \E t, p \in Tasks : \E k \in TaskTypes, o \in BOOLEAN : CreateTask(t, p, k, o)
    BY <2>1, CreateTaskGrowth
  <2>2. CASE \E t, p \in Tasks : \E k \in MailTypes, o \in BOOLEAN : AssignMail(t, p, k, o)
    BY <2>2, AssignMailGrowth
  <2>3. CASE \E t, p \in Tasks : PlaceHold(t, p)
    BY <2>3, PlaceHoldGrowth
  <2>4. CASE \E t, p \in Tasks : Reassign(p, t)
    BY <2>4, ReassignMoves
  <2>5. CASE \E t, p \in Tasks : \E k \in TaskTypes : ChangeType(p, t, k)
    BY <2>5, ChangeTypeGrowth
  <2>6. CASE \E t \in Tasks, k \in MailTypes, routed, o \in BOOLEAN : CreateMail(t, k, routed, o)
    BY <2>6, CreateMailGrowth
  <2>7. CASE \E t \in Rows : Start(t)
    BY <2>7, StartGrowth
  <2>8. CASE \E t \in Rows : \E s \in ClosedStatuses : UpdateStatus(t, s)
    BY <2>8, UpdateStatusGrowth
  <2>9. CASE \E t \in Rows : EndHold(t)
    BY <2>9, EndHoldGrowth
  <2> QED
    BY <1>1, <2>1, <2>2, <2>3, <2>4, <2>5, <2>6, <2>7, <2>8, <2>9 DEF UserStep
<1>2. CASE SystemStep
  <2>1. CASE \E t \in Rows : HoldExpires(t)
    BY <2>1, CloseHoldGrowth DEF HoldExpires, IsHold
  <2>2. CASE \E t \in Tasks : Distribute(t)
    <3>1. PICK t \in Tasks : Distribute(t)
      BY <2>2
    <3>2. /\ IsNextRow(t) /\ status[Distribution] = "assigned" /\ org' = org
          /\ type' = [type EXCEPT ![t] = "JudgeAssignTask"]
      BY <3>1 DEF Distribute
    <3>3. CASE /\ status' = [AfterCreate([x \in {t} |-> "assigned"], Root, {})
                               EXCEPT ![Distribution] = "completed"]
               /\ parent' = [parent EXCEPT ![t] = Root]
      BY <3>2, <3>3, DistributeNewGrowth
    <3>4. CASE \E j \in Rows : /\ type[j] = "JudgeAssignTask" /\ IsOpen(j)
                               /\ Replaces(j, t, Root, {}, {Distribution})
      BY <3>2, <3>4, DistributeMoves
    <3> QED
      BY <3>1, <3>3, <3>4, DistributeReplaces DEF HInv
  <2>3. CASE \E t \in Tasks, r \in Representatives : NewRepresentative(t, r)
    BY <2>3, NewRepresentativeGrowth
  <2>4. CASE NoRepresentative
    BY <2>4, NoRepresentativeGrowth
  <2>5. CASE CancelActiveTasks
    BY <2>5, CancelActiveTasksGrowth
  <2>6. CASE WithdrawAppeal
    BY <2>6, WithdrawAppealGrowth
  <2> QED
    BY <1>2, <2>1, <2>2, <2>3, <2>4, <2>5, <2>6 DEF SystemStep
<1> QED
  BY <1>1, <1>2 DEF Next

LEMMA InitWInv == Init => WInv
<1> SUFFICES ASSUME Init
             PROVE  WInv
  OBVIOUS
<1>1. IInv
  BY InitIInv
<1>2. /\ Rows = {Root, Distribution} /\ Root # Distribution
      /\ NoTask \notin {Root, Distribution}
      /\ parent[Root] = NoTask /\ parent[Distribution] = Root
      /\ type[Root] = "RootTask" /\ type[Distribution] = "DistributionTask"
      /\ org = {Root, Distribution}
  BY FirstRowsAreTasks DEF Init, Rows
<1>3. Shape
  BY <1>2 DEF Shape, Fits, IsHold, Ihp
<1>4. NoCycle
  <2> SUFFICES ASSUME NEW D \in SUBSET Rows, D # {}
               PROVE  /\ \E x \in D : parent[x] \notin D
                      /\ \E x \in D : \A y \in D : parent[y] # x
    BY DEF NoCycle
  <2>1. CASE D = {Root, Distribution}
    BY <1>2, <2>1
  <2>2. CASE D = {Root} \/ D = {Distribution}
    BY <1>2, <2>2
  <2> QED
    BY <1>2, <2>1, <2>2
<1>5. \A t \in Rows : ActiveHolds(t) = {}
  BY <1>2 DEF ActiveHolds, OpenChildren, Children
<1>6. OneActiveHold
  BY <1>5 DEF OneActiveHold
<1>7. WaitsForOthers
  BY <1>2 DEF WaitsForOthers, OpenChildren, Children
<1>8. JudgeHasAppeal
  BY <1>2 DEF JudgeHasAppeal
<1> QED
  BY <1>1, <1>3, <1>4, <1>6, <1>7, <1>8 DEF WInv, HInv

LEMMA NextHInv == HInv /\ [Next]_vars => HInv'
<1> SUFFICES ASSUME HInv, [Next]_vars
             PROVE  HInv'
  OBVIOUS
<1>1. IInv'
  BY NextIInv DEF HInv
<1>2. CASE UNCHANGED vars
  BY <1>1, <1>2 DEF vars, HInv, Shape, Fits, IsHold, NoCycle, OneActiveHold, ActiveHolds,
                    OpenChildren, Children, IsOpen, Rows
<1>3. CASE Next
  BY <1>1, <1>3, EveryStep, GrowthKeepsHInv, MovesHInv
<1> QED
  BY <1>2, <1>3

LEMMA NextWInv ==
    ASSUME InOrder
    PROVE  WInv /\ [Next]_vars => WInv'
<1> SUFFICES ASSUME WInv, [Next]_vars
             PROVE  WInv'
  OBVIOUS
<1>1. HInv /\ HInv'
  BY NextHInv DEF WInv
<1>2. CASE UNCHANGED vars
  BY <1>1, <1>2 DEF vars, WInv, WaitsForOthers, JudgeHasAppeal, IsHold, ActiveHolds,
                    OpenChildren, Children, IsOpen, Rows
<1>3. CASE Next
  <2>1. ~ \E j \in Rows : type[j] = "JudgeAssignTask" /\ IsOpen(j) /\ status[Distribution] = "assigned"
    BY DEF WInv, JudgeHasAppeal, IsOpen, OpenStatuses, ActiveStatuses
  <2> QED
    BY <1>1, <1>3, <2>1, EveryStep, GrowthKeepsWInv, MovesWInv
<1> QED
  BY <1>2, <1>3

-----------------------------------------------------------------------------
(* The theorems *)

\* A task is on one timed hold at most and a hold never outlives the work it
\* suspends, whatever the number of tasks, the task types and the pages users
\* act from.
THEOREM OneHold == Spec => []OneActiveHold
<1>1. Init => HInv
  BY InitWInv DEF WInv
<1>2. HInv => OneActiveHold
  BY DEF HInv
<1> QED
  BY <1>1, <1>2, NextHInv, PTL DEF Spec

\* The stronger invariant of a tree that is worked on in order.
LEMMA InOrderInvariant ==
    ASSUME InOrder
    PROVE  Spec => []WInv
BY InitWInv, NextWInv, PTL DEF Spec

\* No open task is left below a closed one, while nobody acts from an outdated
\* page and there is no colocated work: who waits for it stays open.
THEOREM NoOrphanedWork ==
    ASSUME InOrder
    PROVE  Spec => []OpenTaskHasOpenParent
<1>1. WInv => OpenTaskHasOpenParent
  <2> SUFFICES ASSUME WInv, NEW t \in Rows \ {Root}, IsOpen(t), parent[t] # Root
               PROVE  IsOpen(parent[t])
    BY DEF OpenTaskHasOpenParent
  <2>1. parent[t] \in Rows /\ t \in OpenChildren(parent[t])
    BY DEF WInv, HInv, Shape, Fits, OpenChildren, Children
  <2>2. CASE IsHold(t)
    BY <2>1, <2>2 DEF WInv, HInv, OneActiveHold, ActiveHolds, IsHold
  <2>3. CASE ~ IsHold(t)
    BY <2>1, <2>3 DEF WInv, WaitsForOthers, IsOpen, OpenStatuses
  <2> QED
    BY <2>2, <2>3
<1> QED
  BY <1>1, InOrderInvariant, PTL

\* An appeal that is ready for distribution has nothing open below its
\* DistributionTask and is on no judge's desk.
THEOREM ReadyIsUnblocked ==
    ASSUME InOrder
    PROVE  Spec => []ReadyMeansUnblocked
<1>1. WInv => ReadyMeansUnblocked
  <2> SUFFICES ASSUME WInv, status[Distribution] = "assigned"
               PROVE  /\ OpenChildren(Distribution) = {}
                      /\ ~ \E j \in Rows : type[j] = "JudgeAssignTask" /\ IsOpen(j)
    BY DEF ReadyMeansUnblocked
  <2>1. HInv
    BY DEF WInv
  <2>2. \A c \in OpenChildren(Distribution) : IsHold(c)
    BY <2>1, RootIsRow DEF WInv, WaitsForOthers
  <2>3. OpenChildren(Distribution) = {}
    BY <2>1, <2>2, FirstRowsHoldFree DEF ActiveHolds, IsHold
  <2>4. IsOpen(Distribution)
    BY DEF IsOpen, OpenStatuses, ActiveStatuses
  <2> QED
    BY <2>3, <2>4 DEF WInv, JudgeHasAppeal
<1> QED
  BY <1>1, InOrderInvariant, PTL

-----------------------------------------------------------------------------
(* What the tree completes by itself *)

\* When it is closed with t, a task that waits for no hold is above t, and one of
\* the children that it waited for is completed.
LEMMA ClosedWithItsWork ==
    ASSUME HInv, NEW t \in Rows, NEW s, Close(t, s),
           NEW p \in Rows, p # t, ActiveHolds(p) = {}, status[p] = "on_hold", status'[p] = "completed"
    PROVE  \E c \in Children(p) : status'[c] = "completed"
<1>1. PICK S \in ClosingChains(t) : \E C \in CancelledOf(t, s, S) :
             /\ t \in S /\ S \subseteq Rows /\ C \subseteq S
             /\ \A x \in S \ {t} : \E c \in S : parent[c] = x /\ ClosesWith(x, c)
             /\ \A x \in Tasks :
                  status'[x] = IF x \in C \union ActiveHolds(t) THEN "cancelled"
                               ELSE IF x \in S THEN "completed"
                               ELSE IF x \in Released(S) THEN "assigned" ELSE status[x]
  BY ClosePicks
<1>2. PICK C \in CancelledOf(t, s, S) :
             /\ t \in S /\ S \subseteq Rows /\ C \subseteq S
             /\ \A x \in S \ {t} : \E c \in S : parent[c] = x /\ ClosesWith(x, c)
             /\ \A x \in Tasks :
                  status'[x] = IF x \in C \union ActiveHolds(t) THEN "cancelled"
                               ELSE IF x \in S THEN "completed"
                               ELSE IF x \in Released(S) THEN "assigned" ELSE status[x]
  BY <1>1
<1>3. p \in S /\ p \notin C /\ Rows \subseteq Tasks
  BY <1>2 DEF Rows
<1>4. PICK k \in Children(p) : ~ IF k \in S THEN k \in C ELSE status[k] = "cancelled"
  BY <1>3 DEF CancelledOf
<1>5. k \in Rows /\ parent[k] = p /\ k \notin C /\ k \notin ActiveHolds(t)
  BY <1>2, <1>4 DEF Children, ActiveHolds, OpenChildren
<1>6. CASE k \in S
  BY <1>2, <1>3, <1>4, <1>5, <1>6
<1>7. CASE k \notin S
  <2>1. k \notin OpenChildren(p)
    BY <1>2, <1>3, <1>7 DEF ClosesWith
  <2>2. status[k] = "completed"
    BY <1>4, <1>5, <1>7, <2>1 DEF OpenChildren, Children, IsOpen, OpenStatuses, ActiveStatuses,
                                  HInv, IInv, TypeOK, Rows, ClosedStatuses
  <2>3. k \notin Released(S)
    BY <2>2 DEF Released
  <2> QED
    BY <1>2, <1>3, <1>4, <1>5, <1>7, <2>2, <2>3
<1> QED
  BY <1>6, <1>7

\* Rows on hold are not completed by the creation of others, nor with the tasks
\* of a former representative.
LEMMA CreatedOthersNotCompleted ==
    ASSUME IInv, NEW q \in Tasks, status[q] = "on_hold",
           NEW new, NEW p, NEW H, \A x \in DOMAIN new : new[x] # "completed"
    PROVE  AfterCreate(new, p, H)[q] # "completed"
BY DEF AfterCreate, ParentAfterCreate

LEMMA InsertedNotCompleted ==
    ASSUME IInv, NEW q \in Tasks, status[q] = "on_hold",
           NEW t, NEW k, NEW p, NEW o, NEW H,
           \/ Insert(t, k, p, o, "assigned", H)
           \/ \E u \in Tasks : InsertPair(t, u, k, p, o, H)
    PROVE  status'[q] # "completed"
<1>1. CASE Insert(t, k, p, o, "assigned", H)
  BY <1>1, CreatedOthersNotCompleted DEF Insert
<1>2. CASE \E u \in Tasks : InsertPair(t, u, k, p, o, H)
  BY <1>2, CreatedOthersNotCompleted DEF InsertPair
<1> QED
  BY <1>1, <1>2

\* In order, a task on hold that is on no timed hold is not closed by users nor
\* when a hold ends, but only with a task below it.
LEMMA CompletedStep ==
    ASSUME InOrder, WInv, Next, NEW p \in Tasks, p \in Rows \ {Root, Distribution},
           status[p] = "on_hold", ActiveHolds(p) = {}, status'[p] = "completed"
    PROVE  \E c \in Children(p) : status'[c] = "completed"
<1>1. HInv /\ IInv /\ status \in [Tasks -> Statuses]
  BY DEF WInv, HInv, IInv, TypeOK, Statuses
<1>2. ~ ActionsAvailable(p)
  BY DEF ActionsAvailable, InOrder
<1>3. ~ IsHold(p)
  BY <1>1, NothingBelowHolds DEF IInv, OnHoldHasOpenChild, OpenChildren
<1>4. CASE UserStep
  <2>1. CASE \E t, q \in Tasks : \E k \in TaskTypes, o \in BOOLEAN : CreateTask(t, q, k, o)
    BY <2>1, <1>1, InsertedNotCompleted DEF CreateTask
  <2>2. CASE \E t, q \in Tasks : \E k \in MailTypes, o \in BOOLEAN : AssignMail(t, q, k, o)
    BY <2>2, <1>1, InsertedNotCompleted DEF AssignMail
  <2>3. CASE \E t, q \in Tasks : PlaceHold(t, q)
    BY <2>3, <1>1, InsertedNotCompleted DEF PlaceHold
  <2>4. CASE \E t, q \in Tasks : Reassign(q, t)
    <3>1. PICK r \in Tasks, t \in Tasks : Reassign(t, r)
      BY <2>4
    <3>2. PICK H : Replaces(t, r, parent[t], H, {})
      BY <1>1, <3>1, ReassignReplaces
    <3>3. status' = Replaced(t, r, parent[t], H, {}) /\ p # r
      BY <3>2 DEF Replaces, IsNextRow
    <3> QED
      BY <3>3 DEF Replaced, AfterCreate, ParentAfterCreate
  <2>5. CASE \E t, q \in Tasks : \E k \in TaskTypes : ChangeType(q, t, k)
    <3>1. PICK n \in Tasks, t \in Tasks, k \in TaskTypes : ChangeType(t, n, k)
      BY <2>5
    <3>2. PICK A \in SameTypeChains(t) : \E a \in A : \E H \in HoldsEndedByChild(parent[a]) :
              parent[a] \notin A /\ \E N, new, D : NewBranch(n, N, new, k, a, D, H)
      BY <1>1, <3>1, ChangeTypeIsNewBranch
    <3>3. PICK a, N, new, D, H : NewBranch(n, N, new, k, a, D, H)
      BY <3>2
    <3>4. /\ status' = CancelOpen(D, AfterCreate(new, parent[a], H))
          /\ \A x \in DOMAIN new : new[x] # "completed"
      BY <3>3 DEF NewBranch, OpenStatuses, ActiveStatuses
    <3> QED
      BY <1>1, <3>4, CreatedOthersNotCompleted DEF CancelOpen
  <2>6. CASE \E t \in Tasks, k \in MailTypes, routed, o \in BOOLEAN : CreateMail(t, k, routed, o)
    <3>1. PICK t \in Tasks, k \in MailTypes, routed \in BOOLEAN, o \in BOOLEAN :
            \E q \in {Root, Distribution} : \E H \in HoldsEndedByChild(q) :
              IF routed
              THEN \E u \in Tasks : InsertPair(t, u, k, q, o, H)
              ELSE Insert(t, k, q, TRUE, "assigned", H)
      BY <2>6 DEF CreateMail
    <3> QED
      BY <1>1, <3>1, InsertedNotCompleted
  <2>7. CASE \E t \in Rows : Start(t)
    BY <1>1, <2>7 DEF Start
  <2>8. CASE \E t \in Rows : \E s \in ClosedStatuses : UpdateStatus(t, s)
    BY <1>1, <1>2, <2>8, ClosedWithItsWork DEF UpdateStatus
  <2>9. CASE \E t \in Rows : EndHold(t)
    <3>1. PICK h \in Rows : IsHold(h) /\ Close(h, "cancelled")
      BY <2>9 DEF EndHold, ActiveHolds, OpenChildren, Children, IsHold
    <3> QED
      BY <1>1, <1>3, <3>1, ClosedWithItsWork
  <2> QED
    BY <1>4, <2>1, <2>2, <2>3, <2>4, <2>5, <2>6, <2>7, <2>8, <2>9 DEF UserStep
<1>5. CASE SystemStep
  <2>1. CASE \E t \in Rows : HoldExpires(t)
    BY <1>1, <1>3, <2>1, ClosedWithItsWork DEF HoldExpires, IsHold
  <2>2. CASE \E t \in Tasks : Distribute(t)
    <3>1. PICK t \in Tasks : Distribute(t)
      BY <2>2
    <3>2. CASE status' = [AfterCreate([x \in {t} |-> "assigned"], Root, {})
                            EXCEPT ![Distribution] = "completed"]
      BY <1>1, <3>2 DEF AfterCreate, ParentAfterCreate
    <3>3. CASE \E j \in Rows : Replaces(j, t, Root, {}, {Distribution})
      <4>1. PICK j \in Rows : Replaces(j, t, Root, {}, {Distribution})
        BY <3>3
      <4>2. status' = Replaced(j, t, Root, {}, {Distribution}) /\ p # t
        BY <4>1 DEF Replaces, IsNextRow
      <4> QED
        BY <4>2 DEF Replaced, AfterCreate, ParentAfterCreate
    <3> QED
      BY <1>1, <3>1, <3>2, <3>3, DistributeReplaces
  <2>3. CASE \E t \in Tasks, r \in Representatives : NewRepresentative(t, r)
    <3>1. PICK t \in Tasks, r \in Representatives : NewRepresentative(t, r)
      BY <2>3
    <3>2. PICK N, new, q, kept : NewTracking(t, N, new, q, kept)
      BY <1>1, <3>1, NewRepresentativeTracks
    <3>3. /\ status' = AfterCancelFormer(AfterCreate(new, q, {}), kept)
          /\ \A x \in DOMAIN new : new[x] # "completed"
      BY <3>2 DEF NewTracking, ActiveStatuses
    <3>4. AfterCreate(new, q, {})[p] # "completed"
      BY <1>1, <3>3, CreatedOthersNotCompleted
    <3> QED
      BY <3>3, <3>4 DEF AfterCancelFormer
  <2>4. CASE NoRepresentative
    BY <2>4 DEF NoRepresentative, AfterCancelFormer
  <2>5. CASE CancelActiveTasks
    BY <2>5 DEF CancelActiveTasks
  <2>6. CASE WithdrawAppeal
    BY <2>6 DEF WithdrawAppeal
  <2> QED
    BY <1>5, <2>1, <2>2, <2>3, <2>4, <2>5, <2>6 DEF SystemStep
<1> QED
  BY <1>4, <1>5 DEF Next

\* An organization's task that the tree completes had a child completed, while
\* nobody acts from an outdated page and there is no colocated work.
THEOREM CompletedWasDone ==
    ASSUME InOrder
    PROVE  Spec => CompletedWorkWasDone
<1>1. WInv /\ [Next]_vars =>
        [\A p \in Tasks : /\ p \in Rows \ {Root, Distribution}
                          /\ status[p] = "on_hold"
                          /\ ActiveHolds(p) = {}
                          /\ status'[p] = "completed"
                          => \E c \in Children(p) : status'[c] = "completed"]_vars
  BY CompletedStep
<1> QED
  BY <1>1, InOrderInvariant, PTL DEF Spec, CompletedWorkWasDone
=============================================================================
