------------------------- MODULE EndProducts_proofs -------------------------
(***************************************************************************)
(* Proofs about EndProducts, for any issues, updates, bounds and faults:   *)
(* the type invariant, for any number of executions at a time, and what    *)
(* the model keeps when one execution runs at a time.                      *)
(***************************************************************************)
EXTENDS EndProducts, SequenceTheorems, FiniteSetTheorems, WellFoundedInduction, TLAPS

-----------------------------------------------------------------------------
(* What every execution has read has its type *)

AtRow  == {"claim", "save", "contend", "match", "cancel", "save_cancel"}
Before == {"next", "claim", "save", "contend", "match"}
After  == {"off", "cancel", "save_cancel"}

\* The thing an execution works on, and the EPE it is at.
Placed(w) ==
    /\ job[w].pc # "idle" => job[w].thing \in Things
    /\ job[w].pc \in AtRow => job[w].epe \in Rows
    /\ job[w].pc \in {"contend", "match"} => job[w].ref[job[w].epe] # None
    /\ job[w].pc \in After => job[w].thing \in Updates

IInv == TypeOK /\ \A w \in Workers : Placed(w)

EpeRecords   == [exists : BOOLEAN, ref : {None} \union DOMAIN claims, synced : {None, "CAN"}]
IssueRecords == [status : {"none", "open", "removed", "end_product_canceled"},
                 epe : Rows \union {None}, contention : {None} \union DOMAIN contentions]
EditRecords  == [phase : {"none", "begun", "done"}, removed : SUBSET Issues,
                 added : SUBSET Issues, row : [Codes -> Rows \union {None}]]
ClaimRecords == [code : Codes, modifier : 1..MaxClaims, active : BOOLEAN]
ContentionRecords(D) == [claim : D, live : BOOLEAN, text : {Text(i) : i \in Issues}]
Steps == {"idle", "next", "claim", "save", "contend", "match", "off", "cancel", "save_cancel"}
JobRecords ==
    [thing : Things \union {None}, pc : Steps,
     todo : SUBSET Rows, ref : [Rows -> {None} \union DOMAIN claims],
     epe : Rows \union {None}, taken : SUBSET (1..MaxClaims), ready : SUBSET Issues,
     known : SUBSET DOMAIN contentions, reply : SUBSET DOMAIN contentions,
     off : [Issues -> {None} \union DOMAIN contentions], unused : SUBSET (Rows \union {None})]

\* The type invariant, in terms of these.
Typed ==
    /\ submitted \subseteq Things /\ processed \subseteq Things /\ canceled \subseteq Things
    /\ queue \subseteq Things
    /\ epes \in [Rows -> EpeRecords]
    /\ issue \in [Issues -> IssueRecords]
    /\ edit \in [Updates -> EditRecords]
    /\ claims \in Seq(ClaimRecords)
    /\ contentions \in Seq(ContentionRecords(DOMAIN claims))
    /\ sync \in Rows \union {None}
    /\ job \in [Workers -> JobRecords]
    /\ faults \in 0..MaxFaults /\ cancels \in 0..MaxCancels

LEMMA TypeParts == TypeOK <=> Typed
BY Zenon DEF Typed, TypeOK, EpeRecords, IssueRecords, EditRecords, ClaimRecords,
             ContentionRecords, JobRecords, Steps

LEMMA NextTypeParts == TypeOK' <=> Typed'
BY Zenon DEF Typed, TypeOK, EpeRecords, IssueRecords, EditRecords, ClaimRecords,
             ContentionRecords, JobRecords, Steps

\* The least of some naturals is one of them.
LEMMA LeastIn ==
    ASSUME NEW S, S \subseteq Nat, S # {}
    PROVE  Least(S) \in S
<1> DEFINE R == OpToRel(<, Nat)
<1>1. IsWellFoundedOn(R, Nat)
  BY NatLessThanWellFounded, Zenon
<1> HIDE DEF R
<1>2. PICK x \in S : \A y \in S : ~ (<<y, x>> \in R)
  BY <1>1, WFMin
<1>3. \A y \in S : <<y, x>> \in R <=> y < x
  BY DEF R, OpToRel
<1>4. ASSUME NEW y \in S PROVE x <= y
  <2>1. x \in Nat /\ y \in Nat /\ ~ (y < x)
    BY <1>2, <1>3
  <2> QED
    BY <2>1
<1> QED
  BY <1>4 DEF Least

LEMMA Bounds ==
    {MaxRows, MaxClaims, MaxContentions, MaxFaults, MaxCancels} \subseteq Nat /\ MaxRows > 0
BY BoundsAssumption

\* What a row or an execution may refer to does not shrink.
LEMMA TypesGrow ==
    ASSUME DOMAIN claims \subseteq DOMAIN claims', DOMAIN contentions \subseteq DOMAIN contentions'
    PROVE  /\ EpeRecords \subseteq EpeRecords' /\ IssueRecords \subseteq IssueRecords'
           /\ JobRecords \subseteq JobRecords'
<1>1. EpeRecords \subseteq EpeRecords'
  BY DEF EpeRecords
<1>2. IssueRecords \subseteq IssueRecords'
  BY DEF IssueRecords
<1>3. JobRecords \subseteq JobRecords'
  <2>1. /\ [Rows -> {None} \union DOMAIN claims] \subseteq [Rows -> {None} \union DOMAIN claims']
        /\ [Issues -> {None} \union DOMAIN contentions] \subseteq
                                             [Issues -> {None} \union DOMAIN contentions']
    OBVIOUS
  <2>2. SUBSET DOMAIN contentions \subseteq SUBSET DOMAIN contentions'
    OBVIOUS
  <2> DEFINE A == [Rows -> {None} \union DOMAIN claims]
             A1 == [Rows -> {None} \union DOMAIN claims']
             B == [Issues -> {None} \union DOMAIN contentions]
             B1 == [Issues -> {None} \union DOMAIN contentions']
             C == SUBSET DOMAIN contentions
             C1 == SUBSET DOMAIN contentions'
             T == Things \union {None}
             E == Rows \union {None}
             N == SUBSET (1..MaxClaims)
             U == SUBSET E
             I == SUBSET Issues
             O == SUBSET Rows
  <2>3. A \subseteq A1 /\ B \subseteq B1 /\ C \subseteq C1
    BY <2>1, <2>2
  <2>4. JobRecords = [thing : T, pc : Steps, todo : O, ref : A, epe : E, taken : N, ready : I,
                      known : C, reply : C, off : B, unused : U]
    BY DEF JobRecords
  <2>5. JobRecords' = [thing : T, pc : Steps, todo : O, ref : A1, epe : E, taken : N, ready : I,
                       known : C1, reply : C1, off : B1, unused : U]
    BY DEF JobRecords
  <2> HIDE DEF A, A1, B, B1, C, C1, T, E, N, U, I, O
  <2> QED
    BY <2>3, <2>4, <2>5
<1> QED
  BY <1>1, <1>2, <1>3

\* A worker goes on with its record, the others keep theirs.
LEMMA StepDoes ==
    ASSUME job \in [Workers -> JobRecords], JobRecords \subseteq JobRecords', NEW w \in Workers,
           NEW record \in JobRecords', NEW pc \in Steps, Step(w, record, pc)
    PROVE  /\ job' \in [Workers -> JobRecords']
           /\ job'[w] = [record EXCEPT !.pc = pc]
           /\ \A v \in Workers : v # w => job'[v] = job[v]
<1>1. [record EXCEPT !.pc = pc] \in JobRecords'
  BY DEF JobRecords
<1> QED
  BY <1>1 DEF Step

LEMMA IdleTyped == Idle \in JobRecords
BY DEF Idle, JobRecords, Steps

LEMMA LeaveDoes ==
    ASSUME job \in [Workers -> JobRecords], JobRecords \subseteq JobRecords', NEW w \in Workers,
           Leave(w)
    PROVE  /\ job' \in [Workers -> JobRecords'] /\ job'[w] = Idle /\ job'[w].pc = "idle"
           /\ \A v \in Workers : v # w => job'[v] = job[v]
BY IdleTyped DEF Leave, Idle

LEMMA StepTyped ==
    ASSUME IInv, NEW w \in Workers, NEW record \in JobRecords', NEW pc \in Steps,
           Step(w, record, pc), JobRecords \subseteq JobRecords',
           pc # "idle" => record.thing \in Things,
           pc \in AtRow => record.epe \in Rows,
           pc \in {"contend", "match"} => record.ref[record.epe] # None,
           pc \in After => record.thing \in Updates
    PROVE  job' \in [Workers -> JobRecords'] /\ \A v \in Workers : Placed(v)'
<1>1. job \in [Workers -> JobRecords]
  BY TypeParts DEF IInv, Typed
<1>2. /\ job' \in [Workers -> JobRecords']
      /\ job'[w] = [record EXCEPT !.pc = pc]
      /\ \A v \in Workers : v # w => job'[v] = job[v]
  BY <1>1, StepDoes
<1>3. job'[w].pc = pc /\ job'[w].thing = record.thing /\ job'[w].epe = record.epe
      /\ job'[w].ref = record.ref
  BY <1>2 DEF JobRecords
<1>4. Placed(w)'
  BY <1>3 DEF Placed
<1>5. \A v \in Workers : v # w => Placed(v)'
  BY <1>2 DEF IInv, Placed
<1> QED
  BY <1>2, <1>4, <1>5

LEMMA LeaveTyped ==
    ASSUME IInv, NEW w \in Workers, Leave(w), JobRecords \subseteq JobRecords'
    PROVE  job' \in [Workers -> JobRecords'] /\ \A v \in Workers : Placed(v)'
<1>1. /\ job' \in [Workers -> JobRecords'] /\ job'[w].pc = "idle"
      /\ \A v \in Workers : v # w => job'[v] = job[v]
  BY LeaveDoes, TypeParts DEF IInv, Typed
<1>2. Placed(w)'
  BY <1>1 DEF Placed, AtRow, After
<1>3. \A v \in Workers : v # w => Placed(v)'
  BY <1>1 DEF IInv, Placed
<1> QED
  BY <1>1, <1>2, <1>3

LEMMA JobsStay ==
    ASSUME IInv, job' = job, JobRecords \subseteq JobRecords'
    PROVE  job' \in [Workers -> JobRecords'] /\ \A v \in Workers : Placed(v)'
<1>1. job' \in [Workers -> JobRecords']
  BY TypeParts DEF IInv, Typed
<1> QED
  BY <1>1 DEF IInv, Placed

LEMMA InitTyped ==
    ASSUME Init
    PROVE  IInv
<1>1. /\ submitted = {Review} /\ processed = {} /\ canceled = {} /\ queue = {Review}
      /\ edit = [u \in Updates |-> NoEdit] /\ claims = <<>> /\ contentions = <<>>
      /\ sync = None /\ job = [w \in Workers |-> Idle] /\ faults = 0 /\ cancels = 0
  BY DEF Init
<1>2. PICK open \in SUBSET (Issues \ Added) \ {{}} :
          /\ epes = [e \in Rows |->
                [NoRow EXCEPT !.exists = e[2] = 1 /\ \E i \in open : Code(i) = e[1]]]
          /\ issue = [i \in Issues |->
                IF i \in open THEN [NoIssue EXCEPT !.status = "open", !.epe = <<Code(i), 1>>]
                ELSE NoIssue]
  BY Zenon DEF Init
<1>3. epes \in [Rows -> EpeRecords]
  BY <1>2 DEF NoRow, EpeRecords
<1>4. \A i \in Issues : <<Code(i), 1>> \in Rows
  BY Bounds DEF Rows, Codes
<1>5. issue \in [Issues -> IssueRecords]
  BY <1>2, <1>4 DEF NoIssue, IssueRecords
<1>6. NoEdit \in EditRecords
  BY DEF NoEdit, EditRecords
<1>7. job \in [Workers -> JobRecords] /\ \A w \in Workers : job[w].pc = "idle"
  BY <1>1, IdleTyped DEF Idle
<1>8. claims \in Seq(ClaimRecords) /\ contentions \in Seq(ContentionRecords(DOMAIN claims))
  BY <1>1
<1>9. Typed
  BY <1>1, <1>3, <1>5, <1>6, <1>7, <1>8, Bounds DEF Typed, Things
<1> QED
  BY <1>7, <1>9, TypeParts DEF IInv, Placed, AtRow, After

\* An end product, or a contention, is no longer in force.
\* What is numbered from one is a sequence.
LEMMA SeqOf ==
    ASSUME NEW S, NEW n \in Nat, NEW s \in [1..n -> S]
    PROVE  s \in Seq(S)
BY SeqDef, ZenonT(60)

LEMMA ClaimOff ==
    ASSUME claims \in Seq(ClaimRecords), NEW c, claims' = [claims EXCEPT ![c].active = FALSE]
    PROVE  /\ claims' \in Seq(ClaimRecords) /\ DOMAIN claims' = DOMAIN claims
           /\ \A d \in DOMAIN claims : /\ claims'[d].code = claims[d].code
                                       /\ claims'[d].active <=> claims[d].active /\ d # c
<1>1. PICK n \in Nat : claims \in [1..n -> ClaimRecords]
  BY LenProperties
<1>2. claims' \in [1..n -> ClaimRecords]
  BY <1>1 DEF ClaimRecords
<1>3. claims' \in Seq(ClaimRecords)
  BY <1>1, <1>2, SeqOf
<1> QED
  BY <1>1, <1>2, <1>3 DEF ClaimRecords

LEMMA ContentionOff ==
    ASSUME NEW D, contentions \in Seq(ContentionRecords(D)), NEW k,
           contentions' = [contentions EXCEPT ![k].live = FALSE]
    PROVE  /\ contentions' \in Seq(ContentionRecords(D)) /\ DOMAIN contentions' = DOMAIN contentions
           /\ \A l \in DOMAIN contentions :
                 /\ contentions'[l].claim = contentions[l].claim
                 /\ contentions'[l].live <=> contentions[l].live /\ l # k
<1>1. PICK n \in Nat : contentions \in [1..n -> ContentionRecords(D)]
  BY LenProperties
<1>2. contentions' \in [1..n -> ContentionRecords(D)]
  BY <1>1 DEF ContentionRecords
<1>3. contentions' \in Seq(ContentionRecords(D))
  BY <1>1, <1>2, SeqOf
<1> QED
  BY <1>1, <1>2, <1>3 DEF ContentionRecords

\* A contention stays one when there are more end products.
LEMMA ContentionsStay ==
    ASSUME contentions \in Seq(ContentionRecords(DOMAIN claims)), contentions' = contentions,
           DOMAIN claims \subseteq DOMAIN claims'
    PROVE  contentions' \in Seq(ContentionRecords(DOMAIN claims)')
<1>1. ContentionRecords(DOMAIN claims) \subseteq ContentionRecords(DOMAIN claims)'
  BY DEF ContentionRecords
<1> QED
  BY <1>1, SeqMonotonic

\* A row that is taken for a code.
LEMMA NewRowIn ==
    ASSUME IInv, NEW c \in Codes, ~ Exists(<<c, MaxRows>>)
    PROVE  /\ NewRow(c) \in Rows /\ NewRow(c)[1] = c /\ ~ epes[NewRow(c)].exists
<1> DEFINE S == {n \in 1..MaxRows : ~ Exists(<<c, n>>)}
<1>1. S # {} /\ S \subseteq Nat
  BY Bounds
<1>2. Least(S) \in S
  BY <1>1, LeastIn
<1> QED
  BY <1>2 DEF NewRow, Rows, Exists

LEMMA FoundRowIn ==
    ASSUME NEW c \in Codes, FoundRow(c) # None
    PROVE  FoundRow(c) \in Rows /\ StatusActive(FoundRow(c))
<1> DEFINE S == {n \in 1..MaxRows : StatusActive(<<c, n>>)}
<1>1. S # {} /\ S \subseteq Nat /\ FoundRow(c) = <<c, Least(S)>>
  BY DEF FoundRow
<1>2. Least(S) \in S
  BY <1>1, LeastIn
<1> QED
  BY <1>1, <1>2 DEF Rows

LEMMA CodeIn == \A i \in Issues : Code(i) \in Codes
BY DEF Codes

\* handle_cancelled_ep!
LEMMA CancelledDoes ==
    ASSUME IInv, NEW e \in Rows, HandleCancelledEp(e)
    PROVE  /\ epes' \in [Rows -> EpeRecords] /\ issue' \in [Issues -> IssueRecords]
           /\ canceled' \subseteq Things
           /\ \A f \in Rows : /\ epes'[f].exists = epes[f].exists /\ epes'[f].ref = epes[f].ref
                              /\ epes'[f].synced = IF f = e THEN "CAN" ELSE epes[f].synced
           /\ \A i \in Issues :
                /\ issue'[i].epe = issue[i].epe /\ issue'[i].contention = issue[i].contention
                /\ issue'[i].status = IF i \in ActiveIssues(e) THEN "end_product_canceled"
                                      ELSE issue[i].status
<1>1. epes \in [Rows -> EpeRecords] /\ issue \in [Issues -> IssueRecords] /\ canceled \subseteq Things
  BY TypeParts DEF IInv, Typed
<1>2. canceled' \subseteq Things
  BY <1>1 DEF HandleCancelledEp, Things
<1>3. epes' \in [Rows -> EpeRecords] /\ \A f \in Rows :
           /\ epes'[f].exists = epes[f].exists /\ epes'[f].ref = epes[f].ref
           /\ epes'[f].synced = IF f = e THEN "CAN" ELSE epes[f].synced
  BY <1>1 DEF HandleCancelledEp, EpeRecords
<1>4. issue' = [i \in Issues |-> IF i \in ActiveIssues(e)
                                 THEN [issue[i] EXCEPT !.status = "end_product_canceled"]
                                 ELSE issue[i]]
  BY DEF HandleCancelledEp
<1>5. issue' \in [Issues -> IssueRecords] /\ \A i \in Issues :
                /\ issue'[i].epe = issue[i].epe /\ issue'[i].contention = issue[i].contention
                /\ issue'[i].status = IF i \in ActiveIssues(e) THEN "end_product_canceled"
                                      ELSE issue[i].status
  BY <1>1, <1>4 DEF IssueRecords
<1> QED
  BY <1>2, <1>3, <1>5

\* The issues that are added, and those that are removed, when an update commits.
LEMMA CommitDoes ==
    ASSUME IInv, NEW u \in Updates, CommitUpdate(u)
    PROVE  /\ epes' \in [Rows -> EpeRecords] /\ issue' \in [Issues -> IssueRecords]
           /\ edit' \in [Updates -> EditRecords]
           /\ edit[u].phase = "begun" /\ edit'[u].phase = "done"
           /\ edit'[u].removed = edit[u].removed /\ edit'[u].added = {}
           /\ edit'[u].row = [c \in Codes |-> None]
           /\ \A v \in Updates : v # u => edit'[v] = edit[v]
           /\ \A e \in Rows : \/ epes'[e] = epes[e]
                              \/ /\ ~ epes[e].exists
                                 /\ epes'[e].exists /\ epes'[e].ref = None /\ epes'[e].synced = None
                                 /\ \E i \in edit[u].added : issue'[i].epe = e
           /\ \A i \in Issues :
                 IF i \in edit[u].added
                 THEN /\ issue'[i].status = "open" /\ issue'[i].contention = None
                      /\ issue'[i].epe \in Rows
                      /\ \/ edit[u].row[Code(i)] # None /\ issue'[i].epe = edit[u].row[Code(i)]
                         \/ epes'[issue'[i].epe].exists
                 ELSE /\ issue'[i].epe = issue[i].epe /\ issue'[i].contention = issue[i].contention
                      /\ issue'[i].status = IF i \in edit[u].removed THEN "removed"
                                            ELSE issue[i].status
<1> DEFINE RowOf(i) == IF edit[u].row[Code(i)] # None THEN edit[u].row[Code(i)]
                       ELSE NewRow(Code(i))
           Opened(e) == [NoIssue EXCEPT !.status = "open", !.epe = e]
           Withdrawn(old) == [old EXCEPT !.status = "removed"]
           fresh == {NewRow(Code(i)) : i \in {j \in edit[u].added : edit[u].row[Code(j)] = None}}
<1>1. /\ epes \in [Rows -> EpeRecords] /\ issue \in [Issues -> IssueRecords]
      /\ edit \in [Updates -> EditRecords]
  BY TypeParts DEF IInv, Typed
<1>2. edit[u].phase = "begun"
      /\ \A i \in edit[u].added : edit[u].row[Code(i)] = None => ~ Exists(<<Code(i), MaxRows>>)
  BY DEF CommitUpdate
<1>3. epes' = [e \in Rows |-> IF e \in fresh THEN [NoRow EXCEPT !.exists = TRUE] ELSE epes[e]]
  BY DEF CommitUpdate
<1>4. issue' = [i \in Issues |->
                IF i \in edit[u].added THEN Opened(RowOf(i))
                ELSE IF i \in edit[u].removed THEN Withdrawn(issue[i])
                ELSE issue[i]]
  BY DEF CommitUpdate
<1>5. edit' = [edit EXCEPT ![u] = [NoEdit EXCEPT !.phase = "done", !.removed = edit[u].removed]]
  BY DEF CommitUpdate
<1>6. /\ edit[u].added \subseteq Issues /\ edit[u].removed \subseteq Issues
      /\ \A c \in Codes : edit[u].row[c] \in Rows \union {None}
  BY <1>1 DEF EditRecords
<1>7. \A i \in edit[u].added : edit[u].row[Code(i)] = None =>
            /\ NewRow(Code(i)) \in Rows /\ ~ epes[NewRow(Code(i))].exists
  BY <1>2, <1>6, CodeIn, NewRowIn
<1>8. \A i \in edit[u].added : RowOf(i) \in Rows
  BY <1>6, <1>7, CodeIn
<1> DEFINE row == [NoRow EXCEPT !.exists = TRUE]
<1>9. row \in EpeRecords /\ row.exists /\ row.ref = None /\ row.synced = None
  BY DEF NoRow, EpeRecords
<1> HIDE DEF row
<1>10. epes' \in [Rows -> EpeRecords]
  BY <1>1, <1>3, <1>9 DEF row
<1>23. \A e \in Rows : /\ Opened(e) \in IssueRecords /\ Opened(e).status = "open"
                       /\ Opened(e).epe = e /\ Opened(e).contention = None
  BY DEF NoIssue, IssueRecords
<1>24. \A old \in IssueRecords :
            /\ Withdrawn(old) \in IssueRecords /\ Withdrawn(old).status = "removed"
            /\ Withdrawn(old).epe = old.epe /\ Withdrawn(old).contention = old.contention
  BY DEF IssueRecords
<1> HIDE DEF RowOf, fresh, Opened, Withdrawn
<1>11. \A i \in Issues :
          /\ i \in edit[u].added => issue'[i] = Opened(RowOf(i))
          /\ i \notin edit[u].added /\ i \in edit[u].removed =>
                issue'[i] = Withdrawn(issue[i])
          /\ i \notin edit[u].added /\ i \notin edit[u].removed => issue'[i] = issue[i]
  BY <1>4
<1>12. \A i \in Issues : issue'[i] \in IssueRecords
  BY <1>1, <1>8, <1>11, <1>23, <1>24
<1>13. issue' \in [Issues -> IssueRecords]
  BY <1>4, <1>12
<1> DEFINE done == [NoEdit EXCEPT !.phase = "done", !.removed = edit[u].removed]
<1>14. /\ done \in EditRecords /\ done.phase = "done" /\ done.removed = edit[u].removed
       /\ done.added = {} /\ done.row = [c \in Codes |-> None]
  BY <1>6 DEF NoEdit, EditRecords
<1> HIDE DEF done
<1>15. /\ edit' \in [Updates -> EditRecords]
       /\ edit'[u] = done
       /\ \A v \in Updates : v # u => edit'[v] = edit[v]
  BY <1>1, <1>5, <1>14 DEF done
<1>22. \A i \in edit[u].added :
           issue'[i].status = "open" /\ issue'[i].epe = RowOf(i) /\ issue'[i].contention = None
  BY <1>6, <1>8, <1>11, <1>23
<1>16. \A e \in fresh : \E i \in edit[u].added :
           /\ i \in Issues /\ issue'[i].epe = e /\ e \in Rows /\ ~ epes[e].exists
  BY <1>6, <1>7, <1>22 DEF fresh, RowOf
<1>17. \A i \in edit[u].added :
           \/ edit[u].row[Code(i)] # None /\ RowOf(i) = edit[u].row[Code(i)]
           \/ RowOf(i) \in fresh
  BY DEF fresh, RowOf
<1>18. \A e \in Rows : \/ epes'[e] = epes[e]
                       \/ /\ ~ epes[e].exists
                          /\ epes'[e].exists /\ epes'[e].ref = None /\ epes'[e].synced = None
                          /\ \E i \in edit[u].added : issue'[i].epe = e
  BY <1>3, <1>9, <1>16 DEF row
<1>19. \A e \in fresh : epes'[e].exists
  BY <1>3, <1>9, <1>16 DEF row
<1>20. \A i \in edit[u].added :
           /\ issue'[i].status = "open" /\ issue'[i].contention = None
           /\ issue'[i].epe \in Rows
           /\ \/ edit[u].row[Code(i)] # None /\ issue'[i].epe = edit[u].row[Code(i)]
              \/ epes'[issue'[i].epe].exists
  BY <1>8, <1>17, <1>19, <1>22
<1>21. \A i \in Issues : i \notin edit[u].added =>
           /\ issue'[i].epe = issue[i].epe /\ issue'[i].contention = issue[i].contention
           /\ issue'[i].status = IF i \in edit[u].removed THEN "removed" ELSE issue[i].status
  BY <1>1, <1>11, <1>24
<1> QED
  BY <1>2, <1>10, <1>13, <1>14, <1>15, <1>18, <1>20, <1>21

-----------------------------------------------------------------------------
(* Types are kept *)

\* What a worker's record may become.
LEMMA RecordTypes ==
    ASSUME IInv, NEW w \in Workers
    PROVE  /\ job[w] \in JobRecords
           /\ job[w].pc # "idle" => job[w].thing \in Things
           /\ job[w].pc \in AtRow => job[w].epe \in Rows
           /\ job[w].pc \in {"contend", "match"} => job[w].ref[job[w].epe] # None
           /\ job[w].pc \in After => job[w].thing \in Updates
BY TypeParts DEF IInv, Typed, Placed

LEMMA UsersTyped ==
    ASSUME IInv, NEW u \in Updates,
           CommitUpdate(u) \/ \E removed, added \in SUBSET Issues : BeginUpdate(u, removed, added)
    PROVE  IInv'
<1>1. Typed
  BY TypeParts DEF IInv
<1>2. CASE CommitUpdate(u)
  <2>1. /\ UNCHANGED <<processed, canceled, vbms, sync, job, faults, cancels>>
        /\ submitted' = submitted \union {u} /\ queue' = queue \union {u}
    BY <1>2 DEF CommitUpdate
  <2>2. /\ epes' \in [Rows -> EpeRecords] /\ issue' \in [Issues -> IssueRecords]
        /\ edit' \in [Updates -> EditRecords]
    BY <1>2, CommitDoes
  <2>3. EpeRecords' = EpeRecords /\ IssueRecords' = IssueRecords /\ JobRecords' = JobRecords
    BY <2>1 DEF vbms, EpeRecords, IssueRecords, JobRecords
  <2>4. Typed'
    BY <1>1, <2>1, <2>2, <2>3 DEF Typed, Things, vbms, EditRecords
  <2>. QED  BY <2>1, <2>4, NextTypeParts DEF IInv, Placed
<1>3. ASSUME NEW removed \in SUBSET Issues, NEW added \in SUBSET Issues,
             BeginUpdate(u, removed, added)
      PROVE  IInv'
  <2>1. UNCHANGED <<async, queue, epes, issue, vbms, sync, job, faults, cancels>>
    BY <1>3 DEF BeginUpdate
  <2>2. \A c \in Codes : FoundRow(c) \in Rows \union {None}
    BY FoundRowIn
  <2>3. edit' \in [Updates -> EditRecords]
    BY <1>1, <1>3, <2>2 DEF BeginUpdate, Typed, EditRecords
  <2>4. EpeRecords' = EpeRecords /\ IssueRecords' = IssueRecords /\ JobRecords' = JobRecords
    BY <2>1 DEF vbms, EpeRecords, IssueRecords, JobRecords
  <2>5. Typed'
    BY <1>1, <2>1, <2>3, <2>4 DEF Typed, async, vbms, EditRecords
  <2>. QED  BY <2>1, <2>5, NextTypeParts DEF IInv, Placed
<1>. QED  BY <1>2, <1>3

LEMMA OthersTyped ==
    ASSUME IInv,
           \/ \E t \in Things : Requeue(t)
           \/ \E c \in DOMAIN claims : CancelUpstream(c)
           \/ Sync
    PROVE  IInv'
<1>1. Typed
  BY TypeParts DEF IInv
<1>2. CASE \E t \in Things : Requeue(t)
  <2>1. UNCHANGED <<async, epes, issue, edit, vbms, sync, job, faults, cancels>> /\ queue' \subseteq Things
    BY <1>1, <1>2 DEF Requeue, Typed
  <2>2. Typed'
    BY <1>1, <2>1 DEF Typed, async, vbms, EpeRecords, IssueRecords, EditRecords, JobRecords
  <2>. QED  BY <2>1, <2>2, NextTypeParts DEF IInv, Placed
<1>3. ASSUME NEW c \in DOMAIN claims, CancelUpstream(c)
      PROVE  IInv'
  <2>1. /\ UNCHANGED <<async, queue, epes, issue, edit, contentions, sync, job, faults>>
        /\ cancels' \in 0..MaxCancels
    BY <1>1, <1>3, Bounds DEF CancelUpstream, Typed
  <2>2. claims' \in Seq(ClaimRecords) /\ DOMAIN claims' = DOMAIN claims
    BY <1>1, <1>3, ClaimOff DEF CancelUpstream, Typed
  <2>3. EpeRecords' = EpeRecords /\ IssueRecords' = IssueRecords /\ JobRecords' = JobRecords
    BY <2>1, <2>2 DEF EpeRecords, IssueRecords, JobRecords
  <2>4. Typed'
    BY <1>1, <2>1, <2>2, <2>3, ContentionsStay DEF Typed, async, ClaimRecords, EditRecords
  <2>. QED  BY <2>1, <2>4, NextTypeParts DEF IInv, Placed
<1>4. ASSUME NEW e \in Rows, FetchResult(e)
      PROVE  IInv'
  <2>1. UNCHANGED <<async, queue, epes, issue, edit, vbms, job, faults, cancels>> /\ sync' = e
    BY <1>4 DEF FetchResult
  <2>2. Typed'
    BY <1>1, <2>1 DEF Typed, async, vbms, EpeRecords, IssueRecords, EditRecords, JobRecords
  <2>. QED  BY <2>1, <2>2, NextTypeParts DEF IInv, Placed
<1>5. CASE SaveResult
  <2>1. /\ UNCHANGED <<submitted, processed, queue, edit, vbms, job, faults, cancels>>
        /\ sync \in Rows /\ sync' = None /\ HandleCancelledEp(sync)
    BY <1>1, <1>5 DEF SaveResult, Typed
  <2>2. /\ epes' \in [Rows -> EpeRecords] /\ issue' \in [Issues -> IssueRecords]
        /\ canceled' \subseteq Things
    BY <2>1, CancelledDoes
  <2>3. EpeRecords' = EpeRecords /\ IssueRecords' = IssueRecords /\ JobRecords' = JobRecords
    BY <2>1 DEF vbms, EpeRecords, IssueRecords, JobRecords
  <2>4. Typed'
    BY <1>1, <2>1, <2>2, <2>3 DEF Typed, vbms, EditRecords
  <2>. QED  BY <2>1, <2>4, NextTypeParts DEF IInv, Placed
<1>. QED  BY <1>2, <1>3, <1>4, <1>5 DEF Sync

\* A step of a worker that calls neither VBMS nor BGS.
LEMMA WithinTyped ==
    ASSUME IInv, UNCHANGED <<vbms, edit, sync, cancels>>,
           submitted' \subseteq Things, processed' \subseteq Things, canceled' \subseteq Things,
           queue' \subseteq Things, epes' \in [Rows -> EpeRecords],
           issue' \in [Issues -> IssueRecords], faults' \in 0..MaxFaults,
           job' \in [Workers -> JobRecords'], \A v \in Workers : Placed(v)'
    PROVE  IInv'
<1>1. Typed
  BY TypeParts DEF IInv
<1>2. EpeRecords' = EpeRecords /\ IssueRecords' = IssueRecords
  BY DEF vbms, EpeRecords, IssueRecords
<1>3. Typed'
  BY <1>1, <1>2 DEF Typed, vbms, EditRecords
<1>. QED  BY <1>3, NextTypeParts DEF IInv

LEMMA JobTypesKept ==
    ASSUME UNCHANGED vbms
    PROVE  JobRecords' = JobRecords
BY DEF vbms, JobRecords

-----------------------------------------------------------------------------
(* What the steps of a worker do *)

\* The record of w, but for its pc and the modifiers taken.
IsNow(w, record) ==
    /\ job'[w].thing = record.thing /\ job'[w].todo = record.todo /\ job'[w].ref = record.ref
    /\ job'[w].epe = record.epe /\ job'[w].ready = record.ready /\ job'[w].known = record.known
    /\ job'[w].reply = record.reply /\ job'[w].off = record.off /\ job'[w].unused = record.unused

OthersKeep(w) == \A v \in Workers : v # w => job'[v] = job[v]

\* A worker that goes on.
LEMMA GoesOn ==
    ASSUME IInv, NEW w \in Workers, NEW record \in JobRecords', NEW pc \in Steps,
           Step(w, record, pc), UNCHANGED <<vbms, edit, sync, cancels>>,
           submitted' \subseteq Things, processed' \subseteq Things, canceled' \subseteq Things,
           queue' \subseteq Things, epes' \in [Rows -> EpeRecords],
           issue' \in [Issues -> IssueRecords], faults' \in 0..MaxFaults,
           pc # "idle" => record.thing \in Things,
           pc \in AtRow => record.epe \in Rows,
           pc \in {"contend", "match"} => record.ref[record.epe] # None,
           pc \in After => record.thing \in Updates
    PROVE  IInv' /\ OthersKeep(w) /\ job'[w].pc = pc /\ IsNow(w, record)
<1>1. Typed /\ JobRecords' = JobRecords
  BY TypeParts, JobTypesKept DEF IInv
<1>2. job' \in [Workers -> JobRecords'] /\ \A v \in Workers : Placed(v)'
  BY <1>1, StepTyped
<1>3. job'[w] = [record EXCEPT !.pc = pc] /\ OthersKeep(w)
  BY <1>1, StepDoes DEF Typed, OthersKeep
<1>4. job'[w].pc = pc /\ IsNow(w, record)
  BY <1>3 DEF JobRecords, IsNow
<1>5. IInv'
  BY <1>1, <1>2, WithinTyped DEF Typed
<1>. QED  BY <1>3, <1>4, <1>5

\* An execution breaks off.
LEMMA BreaksOff ==
    ASSUME IInv, NEW w \in Workers, Leave(w),
           UNCHANGED <<submitted, canceled, queue, epes, issue, edit, vbms, sync, cancels>>,
           processed' \subseteq Things, faults' \in 0..MaxFaults
    PROVE  IInv' /\ OthersKeep(w) /\ job'[w] = Idle /\ job'[w].pc = "idle"
<1>1. Typed /\ JobRecords' = JobRecords
  BY TypeParts, JobTypesKept DEF IInv
<1>2. /\ job' \in [Workers -> JobRecords'] /\ \A v \in Workers : Placed(v)'
      /\ OthersKeep(w) /\ job'[w] = Idle /\ job'[w].pc = "idle"
  BY <1>1, LeaveTyped, LeaveDoes DEF Typed, OthersKeep
<1>3. IInv'
  BY <1>1, <1>2, WithinTyped DEF Typed
<1>. QED  BY <1>2, <1>3

LEMMA PcIn ==
    /\ Steps = {"idle", "next", "claim", "save", "contend", "match", "off", "cancel", "save_cancel"}
    /\ AtRow = {"claim", "save", "contend", "match", "cancel", "save_cancel"}
    /\ Before = {"next", "claim", "save", "contend", "match"}
    /\ After = {"off", "cancel", "save_cancel"}
BY DEF Steps, AtRow, Before, After

LEMMA StartDoes ==
    ASSUME IInv, NEW w \in Workers, NEW t \in Things, StartJob(w, t)
    PROVE  /\ IInv' /\ OthersKeep(w)
           /\ UNCHANGED <<async, epes, issue, edit, vbms, sync, faults, cancels>>
           /\ job[w].pc = "idle" /\ t \in queue /\ queue' = queue \ {t}
           /\ job'[w].pc = "next" /\ job'[w].thing = t
           /\ job'[w].todo = {e \in Rows : StatusActive(e)}
           /\ \A e \in Rows : job'[w].ref[e] = epes[e].ref
<1>1. Typed /\ JobRecords' = JobRecords
  BY TypeParts, JobTypesKept DEF IInv, StartJob
<1> DEFINE active == {e \in Rows : StatusActive(e)}
           refs == [e \in Rows |-> epes[e].ref]
           rec == [Idle EXCEPT !.thing = t, !.todo = active, !.ref = refs]
<1>2. /\ UNCHANGED <<async, epes, issue, edit, vbms, sync, faults, cancels>>
      /\ job[w].pc = "idle" /\ t \in queue /\ queue' = queue \ {t} /\ Step(w, rec, "next")
  BY DEF StartJob, Busy
<1>3. /\ active \subseteq Rows
      /\ refs \in [Rows -> {None} \union DOMAIN claims] /\ \A e \in Rows : refs[e] = epes[e].ref
  BY <1>1 DEF Typed, EpeRecords
<1> HIDE DEF active, refs
<1>4. rec \in JobRecords /\ rec.thing = t /\ rec.todo = active /\ rec.ref = refs
  BY <1>3, IdleTyped DEF JobRecords
<1> HIDE DEF rec
<1>5. IInv' /\ OthersKeep(w) /\ job'[w].pc = "next" /\ IsNow(w, rec)
  BY <1>1, <1>2, <1>4, GoesOn, PcIn DEF Typed, async
<1>. QED  BY <1>2, <1>3, <1>4, <1>5 DEF IsNow, active

LEMMA RecoverDoes ==
    ASSUME IInv, NEW w \in Workers, NEW e \in Rows, Recover(w, e)
    PROVE  /\ IInv' /\ OthersKeep(w)
           /\ job'[w].thing = job[w].thing /\ job'[w].todo = job[w].todo
           /\ UNCHANGED <<async, queue, issue, edit, vbms, sync, faults, cancels>>
           /\ job[w].pc = "next" /\ e \in job[w].todo /\ job[w].ref[e] = None
           /\ \/ /\ Matching(e) = {} /\ UNCHANGED epes
                 /\ job'[w].pc = "claim" /\ job'[w].epe = e /\ job'[w].ref = job[w].ref
              \/ \E c \in Matching(e) :
                    /\ \A f \in Rows : /\ epes'[f].exists = epes[f].exists
                                       /\ epes'[f].synced = epes[f].synced
                                       /\ epes'[f].ref = IF f = e THEN c ELSE epes[f].ref
                    /\ job'[w].pc = "next"
                    /\ \A f \in Rows : job'[w].ref[f] = IF f = e THEN c ELSE job[w].ref[f]
<1>1. Typed /\ job[w] \in JobRecords /\ JobRecords' = JobRecords
  BY TypeParts, RecordTypes, JobTypesKept DEF IInv, Recover
<1>2. /\ UNCHANGED <<async, queue, issue, edit, vbms, sync, faults, cancels>>
      /\ job[w].pc = "next" /\ e \in job[w].todo /\ job[w].ref[e] = None
  BY DEF Recover, Busy
<1>3. job[w].thing \in Things
  BY <1>2, RecordTypes
<1>4. CASE Matching(e) = {}
  <2> DEFINE modifiers == {claims[c].modifier : c \in DOMAIN claims}
             rec == [job[w] EXCEPT !.epe = e, !.taken = modifiers]
  <2>1. Step(w, rec, "claim") /\ UNCHANGED epes
    BY <1>4 DEF Recover
  <2>2. \A c \in DOMAIN claims : claims[c] \in ClaimRecords
    BY <1>1, LenProperties DEF Typed
  <2>3. modifiers \subseteq 1..MaxClaims
    BY <2>2 DEF ClaimRecords
  <2> HIDE DEF modifiers
  <2>4. /\ rec \in JobRecords /\ rec.thing = job[w].thing /\ rec.todo = job[w].todo
        /\ rec.ref = job[w].ref /\ rec.epe = e
    BY <1>1, <2>3 DEF JobRecords
  <2> HIDE DEF rec
  <2>5. IInv' /\ OthersKeep(w) /\ job'[w].pc = "claim" /\ IsNow(w, rec)
    BY <1>1, <1>2, <1>3, <2>1, <2>4, GoesOn, PcIn DEF Typed, async
  <2>. QED  BY <1>2, <1>4, <2>1, <2>4, <2>5 DEF IsNow
<1>5. ASSUME NEW c \in Matching(e), epes' = [epes EXCEPT ![e].ref = c],
             Step(w, [job[w] EXCEPT !.ref[e] = c], "next")
      PROVE  /\ IInv' /\ OthersKeep(w)
             /\ job'[w].thing = job[w].thing /\ job'[w].todo = job[w].todo
             /\ \A f \in Rows : /\ epes'[f].exists = epes[f].exists
                                /\ epes'[f].synced = epes[f].synced
                                /\ epes'[f].ref = IF f = e THEN c ELSE epes[f].ref
             /\ job'[w].pc = "next"
             /\ \A f \in Rows : job'[w].ref[f] = IF f = e THEN c ELSE job[w].ref[f]
  <2> DEFINE rec == [job[w] EXCEPT !.ref[e] = c]
  <2>1. c \in DOMAIN claims
    BY <1>5 DEF Matching
  <2>2. epes' \in [Rows -> EpeRecords] /\ \A f \in Rows :
             /\ epes'[f].exists = epes[f].exists /\ epes'[f].synced = epes[f].synced
             /\ epes'[f].ref = IF f = e THEN c ELSE epes[f].ref
    BY <1>1, <1>5, <2>1 DEF Typed, EpeRecords
  <2>3. /\ rec \in JobRecords /\ rec.thing = job[w].thing /\ rec.todo = job[w].todo
        /\ \A f \in Rows : rec.ref[f] = IF f = e THEN c ELSE job[w].ref[f]
    BY <1>1, <2>1 DEF JobRecords
  <2>4. Step(w, rec, "next")
    BY <1>5
  <2> HIDE DEF rec
  <2>5. IInv' /\ OthersKeep(w) /\ job'[w].pc = "next" /\ IsNow(w, rec)
    BY <1>1, <1>2, <1>3, <2>2, <2>3, <2>4, GoesOn, PcIn DEF Typed, async
  <2>. QED  BY <2>2, <2>3, <2>5 DEF IsNow
<1>6. CASE Matching(e) # {}
  <2>1. \E c \in Matching(e) : /\ epes' = [epes EXCEPT ![e].ref = c]
                               /\ Step(w, [job[w] EXCEPT !.ref[e] = c], "next")
    BY <1>6 DEF Recover
  <2>. QED  BY <1>2, <1>5, <2>1, Zenon
<1>. QED  BY <1>4, <1>6

LEMMA SaveClaimDoes ==
    ASSUME IInv, NEW w \in Workers, SaveClaim(w)
    PROVE  /\ IInv' /\ OthersKeep(w)
           /\ UNCHANGED <<async, queue, issue, edit, vbms, sync, faults, cancels>>
           /\ job[w].pc = "save" /\ job[w].epe \in Rows
           /\ \A f \in Rows : /\ epes'[f].exists = epes[f].exists
                              /\ epes'[f].synced = epes[f].synced
                              /\ epes'[f].ref = IF f = job[w].epe THEN job[w].ref[f] ELSE epes[f].ref
           /\ job'[w].pc = "next" /\ job'[w].thing = job[w].thing
           /\ job'[w].todo = job[w].todo /\ job'[w].ref = job[w].ref
<1> DEFINE rec == [job[w] EXCEPT !.epe = None]
<1>1. Typed /\ job[w] \in JobRecords /\ JobRecords' = JobRecords
  BY TypeParts, RecordTypes, JobTypesKept DEF IInv, SaveClaim
<1>2. /\ UNCHANGED <<async, queue, issue, edit, vbms, sync, faults, cancels>>
      /\ job[w].pc = "save" /\ Step(w, rec, "next")
      /\ epes' = [epes EXCEPT ![job[w].epe].ref = job[w].ref[job[w].epe]]
  BY DEF SaveClaim, Busy
<1>3. job[w].thing \in Things /\ job[w].epe \in Rows
  BY <1>2, RecordTypes, PcIn
<1>4. job[w].ref[job[w].epe] \in {None} \union DOMAIN claims
  BY <1>1, <1>3 DEF JobRecords
<1>5. epes' \in [Rows -> EpeRecords] /\ \A f \in Rows :
           /\ epes'[f].exists = epes[f].exists /\ epes'[f].synced = epes[f].synced
           /\ epes'[f].ref = IF f = job[w].epe THEN job[w].ref[f] ELSE epes[f].ref
  BY <1>1, <1>2, <1>3, <1>4 DEF Typed, EpeRecords
<1>6. /\ rec \in JobRecords /\ rec.thing = job[w].thing /\ rec.todo = job[w].todo
      /\ rec.ref = job[w].ref
  BY <1>1 DEF JobRecords
<1> HIDE DEF rec
<1>7. IInv' /\ OthersKeep(w) /\ job'[w].pc = "next" /\ IsNow(w, rec)
  BY <1>1, <1>2, <1>3, <1>5, <1>6, GoesOn, PcIn DEF Typed, async
<1>. QED  BY <1>2, <1>3, <1>5, <1>6, <1>7 DEF IsNow

LEMMA ReadRecordsDoes ==
    ASSUME IInv, NEW w \in Workers, NEW e \in Rows, ReadRecords(w, e)
    PROVE  /\ IInv' /\ OthersKeep(w)
           /\ UNCHANGED <<async, queue, epes, issue, edit, vbms, sync, faults, cancels>>
           /\ job[w].pc = "next" /\ e \in job[w].todo /\ job[w].ref[e] # None
           /\ job'[w].thing = job[w].thing /\ job'[w].ref = job[w].ref
           /\ \/ /\ \A i \in ActiveIssues(e) : issue[i].contention # None
                 /\ job'[w].pc = "next" /\ job'[w].todo = job[w].todo \ {e}
              \/ /\ job'[w].pc = "contend" /\ job'[w].todo = job[w].todo /\ job'[w].epe = e
                 /\ job'[w].ready = {i \in ActiveIssues(e) : issue[i].contention = None}
                 /\ job'[w].known = KnownContentions(e)
<1> DEFINE new == {i \in ActiveIssues(e) : issue[i].contention = None}
<1>1. Typed /\ job[w] \in JobRecords /\ JobRecords' = JobRecords
  BY TypeParts, RecordTypes, JobTypesKept DEF IInv, ReadRecords
<1>2. /\ UNCHANGED <<async, queue, epes, issue, edit, vbms, sync, faults, cancels>>
      /\ job[w].pc = "next" /\ e \in job[w].todo /\ job[w].ref[e] # None
      /\ IF new = {} THEN Step(w, [job[w] EXCEPT !.todo = @ \ {e}], "next")
         ELSE Step(w, [job[w] EXCEPT !.epe = e, !.ready = new, !.known = KnownContentions(e)], "contend")
  BY DEF ReadRecords, Busy
<1>3. job[w].thing \in Things
  BY <1>2, RecordTypes
<1>4. new \subseteq Issues /\ KnownContentions(e) \subseteq DOMAIN contentions
  BY <1>1 DEF ActiveIssues, KnownContentions, Typed, IssueRecords
<1>5. new = {} => \A i \in ActiveIssues(e) : issue[i].contention # None
  OBVIOUS
<1> HIDE DEF new
<1>6. CASE new = {}
  <2> DEFINE rec == [job[w] EXCEPT !.todo = @ \ {e}]
  <2>1. /\ rec \in JobRecords /\ rec.thing = job[w].thing /\ rec.todo = job[w].todo \ {e}
        /\ rec.ref = job[w].ref /\ Step(w, rec, "next")
    BY <1>1, <1>2, <1>6 DEF JobRecords
  <2> HIDE DEF rec
  <2>2. IInv' /\ OthersKeep(w) /\ job'[w].pc = "next" /\ IsNow(w, rec)
    BY <1>1, <1>2, <1>3, <2>1, GoesOn, PcIn DEF Typed, async
  <2>. QED  BY <1>2, <1>5, <1>6, <2>1, <2>2 DEF IsNow
<1>7. CASE new # {}
  <2> DEFINE known == KnownContentions(e)
             rec == [job[w] EXCEPT !.epe = e, !.ready = new, !.known = known]
  <2>1. Step(w, rec, "contend")
    BY <1>2, <1>7
  <2>2. known \subseteq DOMAIN contentions
    BY <1>4
  <2> HIDE DEF known
  <2>3. /\ rec \in JobRecords /\ rec.thing = job[w].thing /\ rec.todo = job[w].todo
        /\ rec.ref = job[w].ref /\ rec.epe = e /\ rec.ready = new /\ rec.known = known
    BY <1>1, <1>4, <2>2 DEF JobRecords
  <2> HIDE DEF rec
  <2>4. IInv' /\ OthersKeep(w) /\ job'[w].pc = "contend" /\ IsNow(w, rec)
    BY <1>1, <1>2, <1>3, <2>1, <2>3, GoesOn, PcIn DEF Typed, async
  <2>. QED  BY <1>2, <2>3, <2>4 DEF IsNow, known, new
<1>. QED  BY <1>6, <1>7

LEMMA ClaimDoes ==
    ASSUME IInv, NEW w \in Workers, Claim(w)
    PROVE  /\ IInv' /\ OthersKeep(w)
           /\ UNCHANGED <<async, queue, epes, issue, edit, contentions, sync, faults, cancels>>
           /\ job[w].pc = "claim" /\ job[w].epe \in Rows
           /\ \/ claims' = claims /\ job'[w] = Idle /\ job'[w].pc = "idle"
              \/ \E new \in Nat :
                    /\ new \notin DOMAIN claims /\ DOMAIN claims' = DOMAIN claims \union {new}
                    /\ \A d \in DOMAIN claims : claims'[d] = claims[d]
                    /\ claims'[new].code = job[w].epe[1] /\ claims'[new].active
                    /\ job'[w].pc = "save" /\ job'[w].epe = job[w].epe
                    /\ job'[w].thing = job[w].thing /\ job'[w].todo = job[w].todo
                    /\ \A f \in Rows : job'[w].ref[f] = IF f = job[w].epe THEN new ELSE job[w].ref[f]
<1> DEFINE m == Least(FreeModifiers(job[w].taken))
           new == Len(claims) + 1
           made == [code |-> job[w].epe[1], modifier |-> m, active |-> TRUE]
           rec == [job[w] EXCEPT !.ref[job[w].epe] = new, !.taken = {}]
<1>1. Typed /\ job[w] \in JobRecords
  BY TypeParts, RecordTypes DEF IInv
<1>2. /\ UNCHANGED <<async, queue, epes, issue, edit, contentions, sync, faults, cancels>>
      /\ job[w].pc = "claim" /\ FreeModifiers(job[w].taken) # {}
      /\ \/ Leave(w) /\ claims' = claims
         \/ claims' = Append(claims, made) /\ Step(w, rec, "save")
  BY DEF Claim, Busy
<1>3. job[w].thing \in Things /\ job[w].epe \in Rows
  BY <1>2, RecordTypes, PcIn
<1>4. CASE Leave(w) /\ claims' = claims
  <2>1. UNCHANGED vbms
    BY <1>2, <1>4 DEF vbms
  <2>2. IInv' /\ OthersKeep(w) /\ job'[w] = Idle /\ job'[w].pc = "idle"
    BY <1>1, <1>2, <1>4, <2>1, BreaksOff DEF Typed, async
  <2>. QED  BY <1>2, <1>3, <1>4, <2>2
<1>5. CASE claims' = Append(claims, made) /\ Step(w, rec, "save")
  <2>1. m \in 1..MaxClaims
    <3>1. /\ FreeModifiers(job[w].taken) \subseteq 1..MaxClaims
          /\ FreeModifiers(job[w].taken) \subseteq Nat
      BY DEF FreeModifiers
    <3>2. m \in FreeModifiers(job[w].taken)
      BY <1>2, <3>1, LeastIn
    <3>. QED  BY <3>1, <3>2
  <2>2. made \in ClaimRecords /\ made.code = job[w].epe[1] /\ made.active
    BY <1>3, <2>1 DEF ClaimRecords, Rows
  <2> HIDE DEF made, m
  <2>3. /\ claims' \in Seq(ClaimRecords) /\ DOMAIN claims = 1..Len(claims) /\ Len(claims) \in Nat
        /\ Len(claims') = Len(claims) + 1 /\ DOMAIN claims' = 1..Len(claims')
        /\ \A d \in 1..Len(claims) : claims'[d] = claims[d]
        /\ claims'[new] = made
    BY <1>1, <1>5, <2>2, AppendProperties, LenProperties DEF Typed
  <2>4. /\ new \in Nat /\ new \notin DOMAIN claims /\ DOMAIN claims' = DOMAIN claims \union {new}
        /\ \A d \in DOMAIN claims : claims'[d] = claims[d]
    BY <2>3
  <2>5. EpeRecords \subseteq EpeRecords' /\ IssueRecords \subseteq IssueRecords' /\ JobRecords \subseteq JobRecords'
    BY <1>2, <2>4, TypesGrow
  <2>6. job[w] \in JobRecords' /\ new \in DOMAIN claims'
    BY <1>1, <2>4, <2>5
  <2> HIDE DEF new
  <2>7. /\ rec \in JobRecords' /\ rec.thing = job[w].thing /\ rec.todo = job[w].todo
        /\ rec.epe = job[w].epe
        /\ \A f \in Rows : rec.ref[f] = IF f = job[w].epe THEN new ELSE job[w].ref[f]
    BY <1>1, <1>3, <2>6 DEF JobRecords
  <2>8. Step(w, rec, "save")
    BY <1>5
  <2> HIDE DEF rec
  <2>9. job' \in [Workers -> JobRecords'] /\ \A v \in Workers : Placed(v)'
    BY <1>1, <1>3, <2>5, <2>7, <2>8, StepTyped, PcIn
  <2>10. job'[w] = [rec EXCEPT !.pc = "save"] /\ OthersKeep(w)
    <3>1. job \in [Workers -> JobRecords] /\ "save" \in Steps
      BY <1>1, PcIn DEF Typed
    <3>. QED  BY <2>5, <2>7, <2>8, <3>1, StepDoes DEF OthersKeep
  <2>11. job'[w].pc = "save" /\ IsNow(w, rec)
    BY <2>7, <2>10 DEF JobRecords, IsNow
  <2>12. contentions' \in Seq(ContentionRecords(DOMAIN claims)')
    BY <1>1, <1>2, <2>4, ContentionsStay DEF Typed
  <2>13. Typed'
    BY <1>1, <1>2, <2>3, <2>5, <2>9, <2>12 DEF Typed, async, ClaimRecords, EditRecords
  <2>14. IInv'
    BY <2>9, <2>13, NextTypeParts DEF IInv
  <2>15. claims'[new].code = job[w].epe[1] /\ claims'[new].active
    BY <2>2, <2>3
  <2>16. /\ job'[w].epe = job[w].epe
         /\ job'[w].thing = job[w].thing /\ job'[w].todo = job[w].todo
         /\ \A f \in Rows : job'[w].ref[f] = IF f = job[w].epe THEN new ELSE job[w].ref[f]
    BY <2>7, <2>11 DEF IsNow
  <2>. QED  BY <1>2, <1>3, <2>4, <2>10, <2>11, <2>14, <2>15, <2>16
<1>. QED  BY <1>2, <1>4, <1>5

LEMMA ContendDoes ==
    ASSUME IInv, NEW w \in Workers, NEW order \in Orders(Issues), Contend(w, order)
    PROVE  /\ IInv' /\ OthersKeep(w)
           /\ UNCHANGED <<async, queue, epes, issue, edit, claims, sync, faults, cancels>>
           /\ job[w].pc = "contend" /\ job[w].epe \in Rows /\ job[w].ref[job[w].epe] # None
           /\ \/ contentions' = contentions /\ job'[w] = Idle /\ job'[w].pc = "idle"
              \/ LET claim == job[w].ref[job[w].epe]
                 IN /\ DOMAIN contentions \subseteq DOMAIN contentions'
                    /\ \A k \in DOMAIN contentions : contentions'[k] = contentions[k]
                    /\ job'[w].pc = "match" /\ job'[w].epe = job[w].epe
                    /\ job'[w].thing = job[w].thing /\ job'[w].todo = job[w].todo
                    /\ job'[w].ref = job[w].ref /\ job'[w].ready = job[w].ready
                    /\ job'[w].reply = {k \in DOMAIN contentions' :
                          contentions'[k].claim = claim /\ contentions'[k].live} \ job[w].known
<1> DEFINE claim == job[w].ref[job[w].epe]
           more == [n \in 1..Len(order) |-> [claim |-> claim, live |-> TRUE, text |-> Text(order[n])]]
           all == contentions \o more
           reply == {k \in DOMAIN all : all[k].claim = claim /\ all[k].live} \ job[w].known
           rec == [job[w] EXCEPT !.known = {}, !.reply = reply]
<1>1. Typed /\ job[w] \in JobRecords
  BY TypeParts, RecordTypes DEF IInv
<1>2. /\ UNCHANGED <<async, queue, epes, issue, edit, claims, sync, faults, cancels>>
      /\ job[w].pc = "contend"
      /\ \/ Leave(w) /\ contentions' = contentions
         \/ contentions' = all /\ Step(w, rec, "match")
  BY DEF Contend, Busy
<1>3. job[w].thing \in Things /\ job[w].epe \in Rows /\ claim # None
  BY <1>2, RecordTypes, PcIn
<1>4. CASE Leave(w) /\ contentions' = contentions
  <2>1. UNCHANGED vbms
    BY <1>2, <1>4 DEF vbms
  <2>2. IInv' /\ OthersKeep(w) /\ job'[w] = Idle /\ job'[w].pc = "idle"
    BY <1>1, <1>2, <1>4, <2>1, BreaksOff DEF Typed, async
  <2>. QED  BY <1>2, <1>3, <1>4, <2>2
<1>5. CASE contentions' = all /\ Step(w, rec, "match")
  <2>1. claim \in DOMAIN claims
    BY <1>1, <1>3 DEF JobRecords
  <2>2. PICK n \in 0..Cardinality(Issues) : order \in [1..n -> Issues]
    BY DEF Orders
  <2>3. order \in Seq(Issues)
    <3>1. n \in Nat
      BY <2>2, FS_CardinalityType, ThingsAssumption
    <3>. QED  BY <2>2, <3>1, SeqDef
  <2>4. Len(order) \in Nat /\ \A l \in 1..Len(order) : order[l] \in Issues
    BY <2>3, LenProperties, ElementOfSeq
  <2> HIDE DEF claim
  <2>5. more \in [1..Len(order) -> ContentionRecords(DOMAIN claims)]
    BY <2>1, <2>4 DEF ContentionRecords
  <2>6. more \in Seq(ContentionRecords(DOMAIN claims))
    BY <2>4, <2>5, SeqDef
  <2> HIDE DEF more
  <2>7. /\ contentions' \in Seq(ContentionRecords(DOMAIN claims))
        /\ Len(contentions) \in Nat /\ DOMAIN contentions = 1..Len(contentions)
        /\ Len(more) \in Nat
        /\ Len(contentions') = Len(contentions) + Len(more)
        /\ DOMAIN contentions' = 1..Len(contentions')
        /\ \A k \in 1..Len(contentions') : k <= Len(contentions) => contentions'[k] = contentions[k]
    BY <1>1, <1>5, <2>6, ConcatProperties, LenProperties DEF Typed
  <2>8. /\ DOMAIN contentions \subseteq DOMAIN contentions'
        /\ \A k \in DOMAIN contentions : contentions'[k] = contentions[k]
    BY <2>7
  <2>9. reply = {k \in DOMAIN contentions' : contentions'[k].claim = claim /\ contentions'[k].live}
                \ job[w].known
    BY <1>5
  <2>10. reply \subseteq DOMAIN contentions'
    BY <2>9
  <2> HIDE DEF all, reply
  <2>11. /\ EpeRecords \subseteq EpeRecords' /\ IssueRecords \subseteq IssueRecords'
         /\ JobRecords \subseteq JobRecords'
    BY <1>2, <2>8, TypesGrow
  <2>12. job[w] \in JobRecords'
    BY <1>1, <2>11
  <2>13. /\ rec \in JobRecords' /\ rec.thing = job[w].thing /\ rec.todo = job[w].todo
         /\ rec.epe = job[w].epe /\ rec.ref = job[w].ref /\ rec.ready = job[w].ready
         /\ rec.reply = reply
    BY <1>1, <2>10, <2>12 DEF JobRecords
  <2>14. Step(w, rec, "match")
    BY <1>5
  <2> HIDE DEF rec
  <2>15. job' \in [Workers -> JobRecords'] /\ \A v \in Workers : Placed(v)'
    BY <1>1, <1>3, <2>11, <2>13, <2>14, StepTyped, PcIn DEF claim
  <2>16. job'[w] = [rec EXCEPT !.pc = "match"] /\ OthersKeep(w)
    BY <1>1, <2>11, <2>13, <2>14, StepDoes, PcIn DEF Typed, OthersKeep
  <2>17. job'[w].pc = "match" /\ IsNow(w, rec)
    BY <2>13, <2>16 DEF JobRecords, IsNow
  <2>18. ContentionRecords(DOMAIN claims)' = ContentionRecords(DOMAIN claims)
    BY <1>2 DEF ContentionRecords
  <2>19. Typed'
    BY <1>1, <1>2, <2>7, <2>11, <2>15, <2>18 DEF Typed, async, ClaimRecords, EditRecords
  <2>20. IInv'
    BY <2>15, <2>19, NextTypeParts DEF IInv
  <2>. QED  BY <1>2, <1>3, <2>8, <2>9, <2>13, <2>16, <2>17, <2>20 DEF IsNow, claim
<1>. QED  BY <1>2, <1>4, <1>5

LEMMA MatchDoes ==
    ASSUME IInv, NEW w \in Workers, NEW k \in DOMAIN contentions, NEW i \in Issues, Match(w, k, i)
    PROVE  /\ IInv' /\ OthersKeep(w)
           /\ UNCHANGED <<async, queue, epes, edit, vbms, sync, faults, cancels>>
           /\ job[w].pc = "match" /\ job[w].epe \in Rows /\ k \in job[w].reply /\ i \in job[w].ready
           /\ \A j \in Issues : /\ issue'[j].status = issue[j].status /\ issue'[j].epe = issue[j].epe
                                /\ issue'[j].contention = IF j = i THEN k ELSE issue[j].contention
           /\ job'[w].pc = "match" /\ job'[w].thing = job[w].thing /\ job'[w].todo = job[w].todo
           /\ job'[w].ref = job[w].ref /\ job'[w].epe = job[w].epe
           /\ job'[w].reply = job[w].reply \ {k} /\ job'[w].ready = job[w].ready \ {i}
<1> DEFINE rec == [job[w] EXCEPT !.reply = @ \ {k}, !.ready = @ \ {i}]
<1>1. Typed /\ job[w] \in JobRecords /\ JobRecords' = JobRecords
  BY TypeParts, RecordTypes, JobTypesKept DEF IInv, Match
<1>2. /\ UNCHANGED <<async, queue, epes, edit, vbms, sync, faults, cancels>>
      /\ job[w].pc = "match" /\ k \in job[w].reply /\ i \in job[w].ready
      /\ issue' = [issue EXCEPT ![i].contention = k] /\ Step(w, rec, "match")
  BY DEF Match, Busy
<1>3. job[w].thing \in Things /\ job[w].epe \in Rows /\ job[w].ref[job[w].epe] # None
  BY <1>2, RecordTypes, PcIn
<1>4. issue' \in [Issues -> IssueRecords] /\ \A j \in Issues :
           /\ issue'[j].status = issue[j].status /\ issue'[j].epe = issue[j].epe
           /\ issue'[j].contention = IF j = i THEN k ELSE issue[j].contention
  BY <1>1, <1>2 DEF Typed, IssueRecords
<1>5. /\ rec \in JobRecords /\ rec.thing = job[w].thing /\ rec.todo = job[w].todo
      /\ rec.ref = job[w].ref /\ rec.epe = job[w].epe
      /\ rec.reply = job[w].reply \ {k} /\ rec.ready = job[w].ready \ {i}
  BY <1>1 DEF JobRecords
<1> HIDE DEF rec
<1>6. IInv' /\ OthersKeep(w) /\ job'[w].pc = "match" /\ IsNow(w, rec)
  BY <1>1, <1>2, <1>3, <1>4, <1>5, GoesOn, PcIn DEF Typed, async
<1>. QED  BY <1>2, <1>3, <1>4, <1>5, <1>6 DEF IsNow

LEMMA MatchedDoes ==
    ASSUME IInv, NEW w \in Workers, Matched(w)
    PROVE  /\ IInv' /\ OthersKeep(w)
           /\ UNCHANGED <<async, queue, epes, issue, edit, vbms, sync, faults, cancels>>
           /\ job[w].pc = "match" /\ job[w].epe \in Rows
           /\ \/ job'[w] = Idle /\ job'[w].pc = "idle"
              \/ /\ job[w].ready = {} /\ job'[w].pc = "next" /\ job'[w].thing = job[w].thing
                 /\ job'[w].todo = job[w].todo \ {job[w].epe} /\ job'[w].ref = job[w].ref
<1> DEFINE rec == [job[w] EXCEPT !.todo = @ \ {job[w].epe}, !.epe = None, !.reply = {}]
<1>1. Typed /\ job[w] \in JobRecords /\ JobRecords' = JobRecords
  BY TypeParts, RecordTypes, JobTypesKept DEF IInv, Matched
<1>2. /\ UNCHANGED <<async, queue, epes, issue, edit, vbms, sync, faults, cancels>>
      /\ job[w].pc = "match"
      /\ \/ Leave(w)
         \/ job[w].ready = {} /\ Step(w, rec, "next")
  BY DEF Matched, Busy
<1>3. job[w].thing \in Things /\ job[w].epe \in Rows
  BY <1>2, RecordTypes, PcIn
<1>4. CASE Leave(w)
  <2>1. IInv' /\ OthersKeep(w) /\ job'[w] = Idle /\ job'[w].pc = "idle"
    BY <1>1, <1>2, <1>4, BreaksOff DEF Typed, async
  <2>. QED  BY <1>2, <1>3, <2>1
<1>5. CASE job[w].ready = {} /\ Step(w, rec, "next")
  <2>1. /\ rec \in JobRecords /\ rec.thing = job[w].thing
        /\ rec.todo = job[w].todo \ {job[w].epe} /\ rec.ref = job[w].ref
    BY <1>1 DEF JobRecords
  <2>2. Step(w, rec, "next")
    BY <1>5
  <2> HIDE DEF rec
  <2>3. IInv' /\ OthersKeep(w) /\ job'[w].pc = "next" /\ IsNow(w, rec)
    BY <1>1, <1>2, <1>3, <2>1, <2>2, GoesOn, PcIn DEF Typed, async
  <2>. QED  BY <1>2, <1>3, <1>5, <2>1, <2>3 DEF IsNow
<1>. QED  BY <1>2, <1>4, <1>5

LEMMA ProcessReviewDoes ==
    ASSUME IInv, NEW w \in Workers, ProcessReview(w)
    PROVE  /\ IInv' /\ OthersKeep(w)
           /\ UNCHANGED <<submitted, canceled, queue, epes, issue, edit, vbms, sync, faults, cancels>>
           /\ job[w].pc = "next" /\ job[w].todo = {}
           /\ processed' = processed \union {Review}
           /\ \/ job'[w] = Idle /\ job'[w].pc = "idle"
              \/ /\ job[w].thing \in Updates /\ job'[w].thing = job[w].thing /\ job'[w].pc = "off"
                 /\ \A i \in Issues : job'[w].off[i] =
                       IF i \in edit[job[w].thing].removed /\ issue[i].epe # None
                       THEN issue[i].contention ELSE None
                 /\ job'[w].unused =
                       {issue[i].epe : i \in {j \in edit[job[w].thing].removed : issue[j].epe # None}}
<1> DEFINE gone == {i \in edit[job[w].thing].removed : issue[i].epe # None}
           off == [i \in Issues |-> IF i \in gone THEN issue[i].contention ELSE None]
           unused == {issue[i].epe : i \in gone}
           rec == [Idle EXCEPT !.thing = job[w].thing, !.off = off, !.unused = unused]
<1>1. Typed /\ job[w] \in JobRecords /\ JobRecords' = JobRecords
  BY TypeParts, RecordTypes, JobTypesKept DEF IInv, ProcessReview
<1>2. /\ UNCHANGED <<submitted, canceled, queue, epes, issue, edit, vbms, sync, faults, cancels>>
      /\ job[w].pc = "next" /\ job[w].todo = {}
      /\ processed' = processed \union {Review}
      /\ \/ Leave(w)
         \/ job[w].thing # Review /\ Step(w, rec, "off")
  BY DEF ProcessReview, Busy
<1>3. job[w].thing \in Things /\ processed' \subseteq Things
  BY <1>1, <1>2, RecordTypes DEF Typed, Things
<1>4. CASE Leave(w)
  <2>1. IInv' /\ OthersKeep(w) /\ job'[w] = Idle /\ job'[w].pc = "idle"
    BY <1>1, <1>2, <1>3, <1>4, BreaksOff DEF Typed
  <2>. QED  BY <1>2, <2>1
<1>5. CASE job[w].thing # Review /\ Step(w, rec, "off")
  <2>1. job[w].thing \in Updates
    BY <1>3, <1>5 DEF Things
  <2>2. gone \subseteq Issues
    BY <1>1, <2>1 DEF Typed, EditRecords
  <2>3. off \in [Issues -> {None} \union DOMAIN contentions] /\ unused \subseteq Rows \union {None}
    BY <1>1, <2>2 DEF Typed, IssueRecords
  <2>4. \A i \in Issues : off[i] = IF i \in gone THEN issue[i].contention ELSE None
    OBVIOUS
  <2>5. Step(w, rec, "off")
    BY <1>5
  <2> HIDE DEF off, unused
  <2>6. rec \in JobRecords /\ rec.thing = job[w].thing /\ rec.off = off /\ rec.unused = unused
    BY <1>3, <2>3, IdleTyped DEF JobRecords
  <2> HIDE DEF rec
  <2>7. IInv' /\ OthersKeep(w) /\ job'[w].pc = "off" /\ IsNow(w, rec)
    BY <1>1, <1>2, <1>3, <2>1, <2>5, <2>6, GoesOn, PcIn DEF Typed
  <2>8. /\ job'[w].thing = job[w].thing
        /\ \A i \in Issues : job'[w].off[i] =
              IF i \in edit[job[w].thing].removed /\ issue[i].epe # None
              THEN issue[i].contention ELSE None
        /\ job'[w].unused =
              {issue[i].epe : i \in {j \in edit[job[w].thing].removed : issue[j].epe # None}}
    BY <2>4, <2>6, <2>7 DEF IsNow, unused
  <2>. QED  BY <1>2, <2>1, <2>7, <2>8
<1>. QED  BY <1>2, <1>4, <1>5

LEMMA RemoveContentionDoes ==
    ASSUME IInv, NEW w \in Workers, NEW i \in Issues, RemoveContention(w, i)
    PROVE  /\ IInv' /\ OthersKeep(w)
           /\ UNCHANGED <<async, queue, epes, issue, edit, claims, sync, faults, cancels>>
           /\ job[w].pc = "off" /\ job[w].off[i] # None
           /\ DOMAIN contentions' = DOMAIN contentions
           /\ \A k \in DOMAIN contentions :
                 /\ contentions'[k].claim = contentions[k].claim
                 /\ contentions'[k].live <=> contentions[k].live /\ k # job[w].off[i]
           /\ job'[w].pc = "off" /\ job'[w].thing = job[w].thing /\ job'[w].unused = job[w].unused
           /\ \A j \in Issues : job'[w].off[j] = IF j = i THEN None ELSE job[w].off[j]
<1> DEFINE rec == [job[w] EXCEPT !.off[i] = None]
<1>1. Typed /\ job[w] \in JobRecords
  BY TypeParts, RecordTypes DEF IInv
<1>2. /\ UNCHANGED <<async, queue, epes, issue, edit, claims, sync, faults, cancels>>
      /\ job[w].pc = "off" /\ job[w].off[i] # None /\ Step(w, rec, "off")
      /\ contentions' = [contentions EXCEPT ![job[w].off[i]].live = FALSE]
  BY DEF RemoveContention, Busy
<1>3. job[w].thing \in Updates /\ job[w].thing \in Things
  BY <1>2, RecordTypes, PcIn
<1>4. /\ contentions' \in Seq(ContentionRecords(DOMAIN claims)) /\ DOMAIN contentions' = DOMAIN contentions
      /\ \A k \in DOMAIN contentions :
            /\ contentions'[k].claim = contentions[k].claim
            /\ contentions'[k].live <=> contentions[k].live /\ k # job[w].off[i]
  BY <1>1, <1>2, ContentionOff DEF Typed
<1>5. EpeRecords' = EpeRecords /\ IssueRecords' = IssueRecords /\ JobRecords' = JobRecords
      /\ ContentionRecords(DOMAIN claims)' = ContentionRecords(DOMAIN claims)
  BY <1>2, <1>4 DEF EpeRecords, IssueRecords, JobRecords, ContentionRecords
<1>6. /\ rec \in JobRecords /\ rec.thing = job[w].thing /\ rec.unused = job[w].unused
      /\ \A j \in Issues : rec.off[j] = IF j = i THEN None ELSE job[w].off[j]
  BY <1>1 DEF JobRecords
<1> HIDE DEF rec
<1>7. job' \in [Workers -> JobRecords'] /\ \A v \in Workers : Placed(v)'
  BY <1>2, <1>3, <1>5, <1>6, StepTyped, PcIn
<1>8. job'[w] = [rec EXCEPT !.pc = "off"] /\ OthersKeep(w)
  <2>1. job \in [Workers -> JobRecords] /\ "off" \in Steps
    BY <1>1, PcIn DEF Typed
  <2>. QED  BY <1>2, <1>5, <1>6, <2>1, StepDoes DEF OthersKeep
<1>9. job'[w].pc = "off" /\ IsNow(w, rec)
  BY <1>6, <1>8 DEF JobRecords, IsNow
<1>10. Typed'
  BY <1>1, <1>2, <1>4, <1>5, <1>7 DEF Typed, async, ClaimRecords, EditRecords
<1>11. IInv'
  BY <1>7, <1>10, NextTypeParts DEF IInv
<1>12. /\ job'[w].thing = job[w].thing /\ job'[w].unused = job[w].unused
       /\ \A j \in Issues : job'[w].off[j] = IF j = i THEN None ELSE job[w].off[j]
  BY <1>6, <1>9 DEF IsNow
<1>. QED  BY <1>2, <1>4, <1>8, <1>9, <1>11, <1>12

LEMMA CheckUnusedDoes ==
    ASSUME IInv, NEW w \in Workers, NEW e \in Rows, CheckUnused(w, e)
    PROVE  /\ IInv' /\ OthersKeep(w)
           /\ UNCHANGED <<async, queue, epes, issue, edit, vbms, sync, faults, cancels>>
           /\ job[w].pc = "off" /\ (\A i \in Issues : job[w].off[i] = None) /\ e \in job[w].unused
           /\ job'[w].thing = job[w].thing /\ job'[w].off = job[w].off
           /\ \/ /\ ActiveIssues(e) = {}
                 /\ job'[w].pc = "cancel" /\ job'[w].epe = e /\ job'[w].unused = job[w].unused
              \/ /\ ActiveIssues(e) # {}
                 /\ job'[w].pc = "off" /\ job'[w].unused = job[w].unused \ {e}
<1>1. Typed /\ job[w] \in JobRecords /\ JobRecords' = JobRecords
  BY TypeParts, RecordTypes, JobTypesKept DEF IInv, CheckUnused
<1>2. /\ UNCHANGED <<async, queue, epes, issue, edit, vbms, sync, faults, cancels>>
      /\ job[w].pc = "off" /\ (\A i \in Issues : job[w].off[i] = None) /\ e \in job[w].unused
      /\ IF ActiveIssues(e) = {} THEN Step(w, [job[w] EXCEPT !.epe = e], "cancel")
         ELSE Step(w, [job[w] EXCEPT !.unused = @ \ {e}], "off")
  BY DEF CheckUnused, Busy
<1>3. job[w].thing \in Updates /\ job[w].thing \in Things
  BY <1>2, RecordTypes, PcIn
<1>4. CASE ActiveIssues(e) = {}
  <2> DEFINE rec == [job[w] EXCEPT !.epe = e]
  <2>1. /\ rec \in JobRecords /\ rec.thing = job[w].thing /\ rec.unused = job[w].unused
        /\ rec.off = job[w].off /\ rec.epe = e /\ Step(w, rec, "cancel")
    BY <1>1, <1>2, <1>4 DEF JobRecords
  <2> HIDE DEF rec
  <2>2. IInv' /\ OthersKeep(w) /\ job'[w].pc = "cancel" /\ IsNow(w, rec)
    BY <1>1, <1>2, <1>3, <2>1, GoesOn, PcIn DEF Typed, async
  <2>. QED  BY <1>2, <1>4, <2>1, <2>2 DEF IsNow
<1>5. CASE ActiveIssues(e) # {}
  <2> DEFINE rec == [job[w] EXCEPT !.unused = @ \ {e}]
  <2>1. /\ rec \in JobRecords /\ rec.thing = job[w].thing /\ rec.unused = job[w].unused \ {e}
        /\ rec.off = job[w].off /\ Step(w, rec, "off")
    BY <1>1, <1>2, <1>5 DEF JobRecords
  <2> HIDE DEF rec
  <2>2. IInv' /\ OthersKeep(w) /\ job'[w].pc = "off" /\ IsNow(w, rec)
    BY <1>1, <1>2, <1>3, <2>1, GoesOn, PcIn DEF Typed, async
  <2>. QED  BY <1>2, <1>5, <2>1, <2>2 DEF IsNow
<1>. QED  BY <1>4, <1>5

LEMMA CancelClaimDoes ==
    ASSUME IInv, NEW w \in Workers, CancelClaim(w)
    PROVE  /\ IInv' /\ OthersKeep(w)
           /\ UNCHANGED <<async, queue, epes, issue, edit, contentions, sync, faults, cancels>>
           /\ job[w].pc = "cancel" /\ job[w].epe \in Rows
           /\ DOMAIN claims' = DOMAIN claims
           /\ \A d \in DOMAIN claims :
                 /\ claims'[d].code = claims[d].code
                 /\ claims'[d].active <=> claims[d].active /\ d # epes[job[w].epe].ref
           /\ job'[w].pc = "save_cancel" /\ job'[w].thing = job[w].thing
           /\ job'[w].epe = job[w].epe /\ job'[w].unused = job[w].unused
           /\ job'[w].off = job[w].off
<1> DEFINE c == epes[job[w].epe].ref
<1>1. Typed /\ job[w] \in JobRecords
  BY TypeParts, RecordTypes DEF IInv
<1>2. /\ UNCHANGED <<async, queue, epes, issue, edit, contentions, sync, faults, cancels>>
      /\ job[w].pc = "cancel" /\ Step(w, job[w], "save_cancel")
      /\ claims' = IF c = None THEN claims ELSE [claims EXCEPT ![c].active = FALSE]
  BY DEF CancelClaim, Busy
<1>3. job[w].thing \in Updates /\ job[w].thing \in Things /\ job[w].epe \in Rows
  BY <1>2, RecordTypes, PcIn
<1>4. /\ claims' \in Seq(ClaimRecords) /\ DOMAIN claims' = DOMAIN claims
      /\ \A d \in DOMAIN claims : /\ claims'[d].code = claims[d].code
                                  /\ claims'[d].active <=> claims[d].active /\ d # c
  <2>1. CASE c = None
    <3>1. DOMAIN claims \subseteq Nat
      BY <1>1, LenProperties DEF Typed
    <3>. QED  BY <1>1, <1>2, <2>1, <3>1, NoneAssumption DEF Typed
  <2>2. CASE c # None
    BY <1>1, <1>2, <2>2, ClaimOff DEF Typed
  <2>. QED  BY <2>1, <2>2
<1>5. EpeRecords' = EpeRecords /\ IssueRecords' = IssueRecords /\ JobRecords' = JobRecords
      /\ ContentionRecords(DOMAIN claims)' = ContentionRecords(DOMAIN claims)
  BY <1>2, <1>4 DEF EpeRecords, IssueRecords, JobRecords, ContentionRecords
<1>6. job' \in [Workers -> JobRecords'] /\ \A v \in Workers : Placed(v)'
  BY <1>1, <1>2, <1>3, <1>5, StepTyped, PcIn
<1>7. job'[w] = [job[w] EXCEPT !.pc = "save_cancel"] /\ OthersKeep(w)
  BY <1>1, <1>2, <1>5, StepDoes, PcIn DEF Typed, OthersKeep
<1>8. job'[w].pc = "save_cancel" /\ IsNow(w, job[w])
  BY <1>1, <1>7 DEF JobRecords, IsNow
<1>9. Typed'
  BY <1>1, <1>2, <1>4, <1>5, <1>6 DEF Typed, async, ClaimRecords, EditRecords
<1>10. IInv'
  BY <1>6, <1>9, NextTypeParts DEF IInv
<1>. QED  BY <1>2, <1>3, <1>4, <1>7, <1>8, <1>10 DEF IsNow

LEMMA SaveCancelDoes ==
    ASSUME IInv, NEW w \in Workers, SaveCancel(w)
    PROVE  /\ IInv' /\ OthersKeep(w) /\ HandleCancelledEp(job[w].epe)
           /\ UNCHANGED <<submitted, processed, queue, edit, vbms, sync, faults, cancels>>
           /\ job[w].pc = "save_cancel" /\ job[w].epe \in Rows
           /\ job'[w].pc = "off" /\ job'[w].thing = job[w].thing
           /\ job'[w].unused = job[w].unused \ {job[w].epe} /\ job'[w].off = job[w].off
<1> DEFINE rec == [job[w] EXCEPT !.unused = @ \ {job[w].epe}, !.epe = None]
<1>1. Typed /\ job[w] \in JobRecords /\ JobRecords' = JobRecords
  BY TypeParts, RecordTypes, JobTypesKept DEF IInv, SaveCancel
<1>2. /\ UNCHANGED <<submitted, processed, queue, edit, vbms, sync, faults, cancels>>
      /\ job[w].pc = "save_cancel" /\ Step(w, rec, "off") /\ HandleCancelledEp(job[w].epe)
  BY DEF SaveCancel, Busy
<1>3. job[w].thing \in Updates /\ job[w].thing \in Things /\ job[w].epe \in Rows
  BY <1>2, RecordTypes, PcIn
<1>4. /\ epes' \in [Rows -> EpeRecords] /\ issue' \in [Issues -> IssueRecords]
      /\ canceled' \subseteq Things
  BY <1>2, <1>3, CancelledDoes
<1>5. /\ rec \in JobRecords /\ rec.thing = job[w].thing
      /\ rec.unused = job[w].unused \ {job[w].epe} /\ rec.off = job[w].off
  BY <1>1 DEF JobRecords
<1> HIDE DEF rec
<1>6. IInv' /\ OthersKeep(w) /\ job'[w].pc = "off" /\ IsNow(w, rec)
  BY <1>1, <1>2, <1>3, <1>4, <1>5, GoesOn, PcIn DEF Typed
<1>. QED  BY <1>2, <1>3, <1>5, <1>6 DEF IsNow

LEMMA ProcessUpdateDoes ==
    ASSUME IInv, NEW w \in Workers, ProcessUpdate(w)
    PROVE  /\ IInv' /\ OthersKeep(w)
           /\ UNCHANGED <<submitted, canceled, queue, epes, issue, edit, vbms, sync, faults, cancels>>
           /\ job[w].pc = "off" /\ job[w].unused = {} /\ \A i \in Issues : job[w].off[i] = None
           /\ job[w].thing \in Updates /\ processed' = processed \union {job[w].thing}
           /\ job'[w] = Idle /\ job'[w].pc = "idle"
<1>1. Typed
  BY TypeParts DEF IInv
<1>2. /\ UNCHANGED <<submitted, canceled, queue, epes, issue, edit, vbms, sync, faults, cancels>>
      /\ job[w].pc = "off" /\ job[w].unused = {} /\ (\A i \in Issues : job[w].off[i] = None)
      /\ processed' = processed \union {job[w].thing} /\ Leave(w)
  BY DEF ProcessUpdate, Busy
<1>3. job[w].thing \in Updates /\ processed' \subseteq Things
  BY <1>1, <1>2, RecordTypes, PcIn DEF Typed
<1>4. IInv' /\ OthersKeep(w) /\ job'[w] = Idle /\ job'[w].pc = "idle"
  BY <1>1, <1>2, <1>3, BreaksOff DEF Typed
<1>. QED  BY <1>2, <1>3, <1>4

LEMMA AbortDoes ==
    ASSUME IInv, NEW w \in Workers, Abort(w)
    PROVE  /\ IInv' /\ OthersKeep(w)
           /\ UNCHANGED <<async, queue, epes, issue, edit, vbms, sync, cancels>>
           /\ job'[w] = Idle /\ job'[w].pc = "idle"
<1>1. Typed
  BY TypeParts DEF IInv
<1>2. /\ UNCHANGED <<async, queue, epes, issue, edit, vbms, sync, cancels>>
      /\ faults' \in 0..MaxFaults /\ Leave(w)
  BY <1>1, Bounds DEF Abort, Typed
<1>3. IInv' /\ OthersKeep(w) /\ job'[w] = Idle /\ job'[w].pc = "idle"
  BY <1>1, <1>2, BreaksOff DEF Typed, async
<1>. QED  BY <1>2, <1>3

LEMMA WorkTyped ==
    ASSUME IInv, NEW w \in Workers, Work(w)
    PROVE  IInv'
BY RecoverDoes, ReadRecordsDoes, CheckUnusedDoes, RemoveContentionDoes, MatchDoes, ContendDoes,
   ClaimDoes, SaveClaimDoes, MatchedDoes, ProcessReviewDoes, CancelClaimDoes, SaveCancelDoes,
   ProcessUpdateDoes DEF Work

LEMMA TypesKept ==
    ASSUME IInv, [Next]_vars
    PROVE  IInv'
<1>1. CASE UNCHANGED vars
  <2>1. Typed'
    BY <1>1, TypeParts DEF IInv, Typed, vars, async, vbms, EpeRecords, IssueRecords, EditRecords,
                           ClaimRecords, ContentionRecords, JobRecords
  <2>. QED  BY <1>1, <2>1, NextTypeParts DEF IInv, Placed, vars
<1>2. CASE Next
  BY <1>2, UsersTyped, OthersTyped, StartDoes, WorkTyped, AbortDoes DEF Next
<1>. QED  BY <1>1, <1>2

\* Every row, every edit and everything a job has read has its type, whatever
\* runs at a time: no reference to an end product or a contention dangles.
THEOREM TypeCorrect == Spec => []TypeOK
<1>1. IInv => TypeOK
  BY DEF IInv
<1>. QED  BY <1>1, InitTyped, TypesKept, PTL DEF Spec

-----------------------------------------------------------------------------
(* Rows and edits, whoever runs *)

\* A row that does not exist refers to nothing; an issue that was added has a row.
RowsInOrder ==
    /\ \A e \in Rows : ~ epes[e].exists => epes[e].ref = None /\ epes[e].synced = None
    /\ \A i \in Issues : IF issue[i].status = "none"
                         THEN issue[i].epe = None /\ issue[i].contention = None
                         ELSE issue[i].epe \in Rows /\ epes[issue[i].epe].exists

\* What an update has begun to add nobody else adds; what a committed one
\* removed is not open again.
EditInOrder(u) ==
    /\ edit[u].phase = "done" <=> u \in submitted
    /\ \A i \in edit[u].added : edit[u].phase = "begun" /\ issue[i].status = "none"
    /\ \A i \in edit[u].removed : issue[i].status # "none"
    /\ edit[u].phase = "none" => edit[u].removed = {}
    /\ u \in submitted => \A i \in edit[u].removed : issue[i].status # "open"
    /\ \A v \in Updates : u # v => edit[u].added \intersect edit[v].added = {}
    /\ \A c \in Codes : edit[u].row[c] # None => epes[edit[u].row[c]].exists

\* Only what is submitted is worked on.
ThingsInOrder ==
    /\ Review \in submitted /\ processed \subseteq submitted /\ queue \subseteq submitted
    /\ sync # None => epes[sync].exists

\* An execution works on rows and issues that exist.
JobInOrder(w) ==
    /\ job[w].pc # "idle" => job[w].thing \in submitted
    /\ job[w].pc \in Before => \A e \in job[w].todo : epes[e].exists
    /\ job[w].pc \in {"claim", "save", "contend", "match"} => job[w].epe \in job[w].todo
    /\ job[w].pc \in {"contend", "match"} => \A i \in job[w].ready : issue[i].status # "none"
    /\ job[w].pc \in {"cancel", "save_cancel"} => job[w].epe \in job[w].unused
    /\ job[w].pc \in After => \A e \in job[w].unused : e \in Rows /\ epes[e].exists

Ordered ==
    /\ RowsInOrder /\ ThingsInOrder
    /\ \A u \in Updates : EditInOrder(u)
    /\ \A w \in Workers : JobInOrder(w)

RInv == IInv /\ Ordered

\* What any step but that of an update leaves as it is.
Grown ==
    /\ submitted \subseteq submitted'
    /\ \A e \in Rows : epes[e].exists => epes'[e].exists
    /\ \A i \in Issues : issue[i].status # "none" => issue'[i].status # "none"

RowsStay ==
    /\ \A e \in Rows : /\ epes'[e].exists = epes[e].exists
                       /\ ~ epes[e].exists => epes'[e].ref = epes[e].ref /\ epes'[e].synced = epes[e].synced
    /\ \A i \in Issues : /\ issue'[i].epe = issue[i].epe
                         /\ issue'[i].status = "none" <=> issue[i].status = "none"
                         /\ issue'[i].status = "open" => issue[i].status = "open"
                         /\ issue[i].status = "none" => issue'[i].contention = issue[i].contention
    /\ UNCHANGED <<submitted, edit>>

LEMMA RowsStayGrown ==
    ASSUME RowsStay
    PROVE  Grown
BY DEF RowsStay, Grown

LEMMA OrderKept ==
    ASSUME RInv, RowsStay
    PROVE  RowsInOrder' /\ \A u \in Updates : EditInOrder(u)'
<1>1. Typed
  BY TypeParts DEF RInv, IInv
<1>2. RowsInOrder'
  BY <1>1 DEF RInv, Ordered, RowsInOrder, RowsStay
<1>3. ASSUME NEW u \in Updates PROVE EditInOrder(u)'
  <2>1. /\ edit[u].added \subseteq Issues /\ edit[u].removed \subseteq Issues
        /\ \A c \in Codes : edit[u].row[c] # None => edit[u].row[c] \in Rows
    BY <1>1 DEF Typed, EditRecords
  <2>2. EditInOrder(u)
    BY DEF RInv, Ordered
  <2>. QED  BY <2>1, <2>2 DEF EditInOrder, RowsStay
<1>. QED  BY <1>2, <1>3

LEMMA JobStays ==
    ASSUME RInv, Grown, NEW v \in Workers, job'[v] = job[v]
    PROVE  JobInOrder(v)'
<1>1. Typed
  BY TypeParts DEF RInv, IInv
<1>2. JobInOrder(v) /\ job[v] \in JobRecords
  BY <1>1 DEF RInv, Ordered, Typed
<1>3. job[v].todo \subseteq Rows /\ job[v].ready \subseteq Issues
  BY <1>2 DEF JobRecords
<1>. QED  BY <1>2, <1>3 DEF JobInOrder, Grown

LEMMA IdleInOrder ==
    ASSUME NEW w \in Workers, job'[w].pc = "idle"
    PROVE  JobInOrder(w)'
BY PcIn DEF JobInOrder

LEMMA InitOrdered ==
    ASSUME Init
    PROVE  RInv
<1>1. /\ submitted = {Review} /\ processed = {} /\ queue = {Review}
      /\ edit = [u \in Updates |-> NoEdit]
      /\ sync = None /\ job = [w \in Workers |-> Idle]
  BY DEF Init
<1>2. PICK open \in SUBSET (Issues \ Added) \ {{}} :
          /\ epes = [e \in Rows |->
                [NoRow EXCEPT !.exists = e[2] = 1 /\ \E i \in open : Code(i) = e[1]]]
          /\ issue = [i \in Issues |->
                IF i \in open THEN [NoIssue EXCEPT !.status = "open", !.epe = <<Code(i), 1>>]
                ELSE NoIssue]
  BY Zenon DEF Init
<1>3. \A e \in Rows : /\ epes[e].ref = None /\ epes[e].synced = None
                      /\ epes[e].exists = (e[2] = 1 /\ \E i \in open : Code(i) = e[1])
  BY <1>2 DEF NoRow
<1>4. \A i \in Issues : /\ issue[i].contention = None
                        /\ issue[i].status = IF i \in open THEN "open" ELSE "none"
                        /\ issue[i].epe = IF i \in open THEN <<Code(i), 1>> ELSE None
  BY <1>2 DEF NoIssue
<1>5. \A i \in Issues : <<Code(i), 1>> \in Rows
  BY Bounds DEF Rows, Codes
<1>6. RowsInOrder
  BY <1>3, <1>4, <1>5 DEF RowsInOrder
<1>7. \A u \in Updates : EditInOrder(u)
  BY <1>1, ThingsAssumption DEF EditInOrder, NoEdit
<1>8. ThingsInOrder /\ \A w \in Workers : JobInOrder(w)
  BY <1>1, PcIn DEF ThingsInOrder, JobInOrder, Idle
<1>. QED  BY <1>6, <1>7, <1>8, InitTyped DEF RInv, Ordered

LEMMA CommitOrdered ==
    ASSUME RInv, NEW u \in Updates, CommitUpdate(u)
    PROVE  Ordered'
<1>1. Typed /\ Typed'
  BY UsersTyped, TypeParts, NextTypeParts DEF RInv, IInv
<1>2. /\ UNCHANGED <<processed, canceled, vbms, sync, job, faults, cancels>>
      /\ submitted' = submitted \union {u} /\ queue' = queue \union {u}
  BY DEF CommitUpdate
<1>3. /\ edit[u].phase = "begun" /\ edit'[u].phase = "done"
      /\ edit'[u].removed = edit[u].removed /\ edit'[u].added = {}
      /\ edit'[u].row = [c \in Codes |-> None]
      /\ \A v \in Updates : v # u => edit'[v] = edit[v]
      /\ \A e \in Rows : \/ epes'[e] = epes[e]
                         \/ /\ ~ epes[e].exists
                            /\ epes'[e].exists /\ epes'[e].ref = None /\ epes'[e].synced = None
      /\ \A i \in Issues :
            IF i \in edit[u].added
            THEN /\ issue'[i].status = "open" /\ issue'[i].contention = None
                 /\ issue'[i].epe \in Rows
                 /\ \/ edit[u].row[Code(i)] # None /\ issue'[i].epe = edit[u].row[Code(i)]
                    \/ epes'[issue'[i].epe].exists
            ELSE /\ issue'[i].epe = issue[i].epe /\ issue'[i].contention = issue[i].contention
                 /\ issue'[i].status = IF i \in edit[u].removed THEN "removed"
                                       ELSE issue[i].status
  BY CommitDoes DEF RInv
<1>4. RowsInOrder /\ ThingsInOrder /\ \A v \in Updates : EditInOrder(v)
  BY DEF RInv, Ordered
<1>5. \A v \in Updates : /\ edit[v].added \subseteq Issues /\ edit[v].removed \subseteq Issues
                         /\ \A c \in Codes : edit[v].row[c] # None => edit[v].row[c] \in Rows
  BY <1>1 DEF Typed, EditRecords
<1>6. \A e \in Rows : epes[e].exists => epes'[e].exists
  BY <1>3
<1>7. \A i \in edit[u].added : /\ issue[i].status = "none" /\ i \notin edit[u].removed
                               /\ epes'[issue'[i].epe].exists
  BY <1>3, <1>4, <1>5, <1>6, CodeIn DEF EditInOrder
<1>8. RowsInOrder'
  BY <1>3, <1>4, <1>6, <1>7 DEF RowsInOrder, EditInOrder
<1>9. ThingsInOrder'
  BY <1>1, <1>2, <1>4, <1>6 DEF ThingsInOrder, Typed
<1>10. Grown
  BY <1>2, <1>3, <1>6 DEF Grown
<1>11. \A w \in Workers : JobInOrder(w)'
  BY <1>2, <1>10, JobStays
<1>12. EditInOrder(u)'
  <2>1. \A i \in edit[u].removed : i \in Issues /\ issue'[i].status = "removed"
    BY <1>3, <1>4, <1>5, <1>7 DEF EditInOrder
  <2>. QED  BY <1>2, <1>3, <2>1 DEF EditInOrder
<1>13. ASSUME NEW v \in Updates, v # u PROVE EditInOrder(v)'
  <2>1. EditInOrder(v) /\ edit'[v] = edit[v] /\ (v \in submitted' <=> v \in submitted)
    BY <1>2, <1>3, <1>4, <1>13
  <2>2. \A i \in edit[v].added : i \in Issues /\ issue'[i].status = "none"
    BY <1>3, <1>4, <1>5, <1>13, <2>1 DEF EditInOrder
  <2>3. \A i \in edit[v].removed : /\ i \in Issues /\ i \notin edit[u].added
                                   /\ issue'[i].status # "none"
                                   /\ issue'[i].status = "open" => issue[i].status = "open"
    BY <1>3, <1>5, <1>7, <2>1 DEF EditInOrder
  <2>4. \A c \in Codes : edit[v].row[c] # None => epes'[edit[v].row[c]].exists
    BY <1>5, <1>6, <2>1 DEF EditInOrder
  <2>5. \A x \in Updates : v # x => edit'[v].added \intersect edit'[x].added = {}
    BY <1>3, <2>1 DEF EditInOrder
  <2>. QED  BY <2>1, <2>2, <2>3, <2>4, <2>5 DEF EditInOrder
<1>. QED  BY <1>8, <1>9, <1>11, <1>12, <1>13 DEF Ordered

LEMMA BeginOrdered ==
    ASSUME RInv, NEW u \in Updates, NEW removed \in SUBSET Issues, NEW added \in SUBSET Issues,
           BeginUpdate(u, removed, added)
    PROVE  Ordered'
<1>1. Typed
  BY TypeParts DEF RInv, IInv
<1>2. UNCHANGED <<async, queue, epes, issue, vbms, sync, job, faults, cancels>>
  BY DEF BeginUpdate
<1> DEFINE found == [c \in Codes |-> IF \E i \in added : Code(i) = c THEN FoundRow(c) ELSE None]
           new == [phase |-> "begun", removed |-> removed, added |-> added, row |-> found]
<1>3. /\ edit[u].phase = "none" /\ edit' = [edit EXCEPT ![u] = new]
      /\ \A i \in removed : issue[i].status = "open"
      /\ \A i \in added : issue[i].status = "none"
      /\ \A v \in Updates : added \intersect edit[v].added = {}
  BY DEF BeginUpdate
<1>4. \A c \in Codes : found[c] # None => epes[found[c]].exists
  BY FoundRowIn DEF StatusActive, Exists
<1> HIDE DEF found
<1>5. edit'[u] = new /\ \A v \in Updates : v # u => edit'[v] = edit[v]
  BY <1>1, <1>3 DEF Typed
<1>6. /\ edit'[u].phase = "begun" /\ edit'[u].removed = removed /\ edit'[u].added = added
      /\ edit'[u].row = found
  BY <1>5
<1> HIDE DEF new
<1>7. \A v \in Updates : EditInOrder(v)
  BY DEF RInv, Ordered
<1>8. EditInOrder(u)'
  BY <1>2, <1>3, <1>4, <1>5, <1>6, <1>7 DEF EditInOrder, async
<1>9. ASSUME NEW v \in Updates, v # u PROVE EditInOrder(v)'
  BY <1>2, <1>3, <1>5, <1>6, <1>7, <1>9 DEF EditInOrder, async
<1>10. RowsInOrder' /\ ThingsInOrder' /\ \A w \in Workers : JobInOrder(w)'
  BY <1>2 DEF RInv, Ordered, RowsInOrder, ThingsInOrder, JobInOrder, async
<1>. QED  BY <1>8, <1>9, <1>10 DEF Ordered

LEMMA WorkerOrdered ==
    ASSUME RInv, IInv', NEW w \in Workers, OthersKeep(w), RowsStay, JobInOrder(w)', ThingsInOrder'
    PROVE  RInv'
<1>1. RowsInOrder' /\ \A u \in Updates : EditInOrder(u)'
  BY OrderKept
<1>2. \A v \in Workers : v # w => JobInOrder(v)'
  BY RowsStayGrown, JobStays DEF OthersKeep
<1>. QED  BY <1>1, <1>2 DEF RInv, Ordered

\* What the references and the status of a row become, and all else of rows and
\* issues stays.
LEMMA RefsChange ==
    ASSUME RInv, UNCHANGED <<submitted, edit, issue>>, NEW e \in Rows, epes[e].exists,
           \A f \in Rows : /\ epes'[f].exists = epes[f].exists /\ epes'[f].synced = epes[f].synced
                           /\ f # e => epes'[f].ref = epes[f].ref
    PROVE  RowsStay
BY DEF RowsStay

LEMMA CancelledStay ==
    ASSUME RInv, UNCHANGED <<submitted, edit>>, NEW e \in Rows, epes[e].exists, HandleCancelledEp(e)
    PROVE  RowsStay
<1>1. \A i \in ActiveIssues(e) : issue[i].status = "open"
  BY DEF ActiveIssues
<1>. QED  BY <1>1, CancelledDoes DEF RowsStay, RInv

LEMMA StartOrdered ==
    ASSUME RInv, NEW w \in Workers, NEW t \in Things, StartJob(w, t)
    PROVE  RInv'
<1>1. /\ IInv' /\ OthersKeep(w)
      /\ UNCHANGED <<async, epes, issue, edit, vbms, sync, faults, cancels>>
      /\ t \in queue /\ queue' \subseteq queue
      /\ job'[w].pc = "next" /\ job'[w].thing = t
      /\ job'[w].todo = {e \in Rows : StatusActive(e)}
  BY StartDoes DEF RInv
<1>2. ThingsInOrder' /\ t \in submitted
  BY <1>1 DEF RInv, Ordered, ThingsInOrder, async
<1>3. JobInOrder(w)'
  BY <1>1, <1>2, PcIn DEF JobInOrder, StatusActive, Exists, async
<1>4. RowsStay
  BY <1>1 DEF RowsStay, async
<1>. QED  BY <1>1, <1>2, <1>3, <1>4, WorkerOrdered

LEMMA AbortOrdered ==
    ASSUME RInv, NEW w \in Workers, Abort(w)
    PROVE  RInv'
<1>1. /\ IInv' /\ OthersKeep(w) /\ job'[w].pc = "idle"
      /\ UNCHANGED <<async, queue, epes, issue, edit, vbms, sync, cancels>>
  BY AbortDoes DEF RInv
<1>2. ThingsInOrder' /\ RowsStay
  BY <1>1 DEF RInv, Ordered, ThingsInOrder, RowsStay, async
<1>. QED  BY <1>1, <1>2, IdleInOrder, WorkerOrdered

LEMMA WorkOrdered ==
    ASSUME RInv, NEW w \in Workers, Work(w)
    PROVE  RInv'
<1>1. /\ IInv /\ JobInOrder(w) /\ ThingsInOrder /\ RowsInOrder /\ \A u \in Updates : EditInOrder(u)
  BY DEF RInv, Ordered
<1>2. Typed /\ job[w] \in JobRecords
  BY <1>1, TypeParts, RecordTypes DEF IInv
<1>3. ASSUME NEW e \in Rows, Recover(w, e) PROVE RInv'
  <2>1. /\ IInv' /\ OthersKeep(w)
        /\ UNCHANGED <<async, queue, issue, edit, vbms, sync>>
        /\ job[w].pc = "next" /\ e \in job[w].todo
        /\ job'[w].thing = job[w].thing /\ job'[w].todo = job[w].todo
        /\ \/ job'[w].pc = "claim" /\ job'[w].epe = e
           \/ job'[w].pc = "next"
        /\ \A f \in Rows : /\ epes'[f].exists = epes[f].exists /\ epes'[f].synced = epes[f].synced
                           /\ f # e => epes'[f].ref = epes[f].ref
    BY <1>1, <1>3, RecoverDoes
  <2>2. RowsStay
    BY <1>1, <2>1, RefsChange, PcIn DEF JobInOrder, async
  <2>3. JobInOrder(w)' /\ ThingsInOrder'
    BY <1>1, <1>2, <2>1, PcIn DEF JobInOrder, ThingsInOrder, async, JobRecords, Typed
  <2>. QED  BY <2>1, <2>2, <2>3, WorkerOrdered
<1>4. CASE SaveClaim(w)
  <2>1. /\ IInv' /\ OthersKeep(w)
        /\ UNCHANGED <<async, queue, issue, edit, vbms, sync>>
        /\ job[w].pc = "save" /\ job[w].epe \in Rows
        /\ job'[w].pc = "next" /\ job'[w].thing = job[w].thing /\ job'[w].todo = job[w].todo
        /\ \A f \in Rows : /\ epes'[f].exists = epes[f].exists /\ epes'[f].synced = epes[f].synced
                           /\ f # job[w].epe => epes'[f].ref = epes[f].ref
    BY <1>1, <1>4, SaveClaimDoes
  <2>2. RowsStay
    BY <1>1, <2>1, RefsChange, PcIn DEF JobInOrder, async
  <2>3. JobInOrder(w)' /\ ThingsInOrder'
    BY <1>1, <1>2, <2>1, PcIn DEF JobInOrder, ThingsInOrder, async, JobRecords, Typed
  <2>. QED  BY <2>1, <2>2, <2>3, WorkerOrdered
<1>5. ASSUME NEW e \in Rows, ReadRecords(w, e) PROVE RInv'
  <2>1. /\ IInv' /\ OthersKeep(w)
        /\ UNCHANGED <<async, queue, epes, issue, edit, vbms, sync>>
        /\ job[w].pc = "next" /\ e \in job[w].todo /\ job'[w].thing = job[w].thing
        /\ \/ job'[w].pc = "next" /\ job'[w].todo = job[w].todo \ {e}
           \/ /\ job'[w].pc = "contend" /\ job'[w].todo = job[w].todo /\ job'[w].epe = e
              /\ job'[w].ready = {i \in ActiveIssues(e) : issue[i].contention = None}
    BY <1>1, <1>5, ReadRecordsDoes
  <2>2. RowsStay /\ ThingsInOrder'
    BY <1>1, <2>1 DEF RowsStay, ThingsInOrder, async
  <2>3. \A i \in ActiveIssues(e) : issue[i].status # "none"
    BY DEF ActiveIssues
  <2>4. JobInOrder(w)'
    BY <1>1, <2>1, <2>3, PcIn DEF JobInOrder, async
  <2>. QED  BY <2>1, <2>2, <2>4, WorkerOrdered
<1>6. CASE Claim(w)
  <2>1. /\ IInv' /\ OthersKeep(w)
        /\ UNCHANGED <<async, queue, epes, issue, edit, sync>> /\ job[w].pc = "claim"
        /\ \/ job'[w].pc = "idle"
           \/ /\ job'[w].pc = "save" /\ job'[w].epe = job[w].epe
              /\ job'[w].thing = job[w].thing /\ job'[w].todo = job[w].todo
    BY <1>1, <1>6, ClaimDoes
  <2>2. RowsStay /\ ThingsInOrder'
    BY <1>1, <2>1 DEF RowsStay, ThingsInOrder, async
  <2>3. JobInOrder(w)'
    BY <1>1, <2>1, PcIn DEF JobInOrder, async
  <2>. QED  BY <2>1, <2>2, <2>3, WorkerOrdered
<1>7. ASSUME NEW order \in Orders(Issues), Contend(w, order) PROVE RInv'
  <2>1. /\ IInv' /\ OthersKeep(w)
        /\ UNCHANGED <<async, queue, epes, issue, edit, sync>> /\ job[w].pc = "contend"
        /\ \/ job'[w].pc = "idle"
           \/ /\ job'[w].pc = "match" /\ job'[w].epe = job[w].epe
              /\ job'[w].thing = job[w].thing /\ job'[w].todo = job[w].todo
              /\ job'[w].ready = job[w].ready
    BY <1>1, <1>7, ContendDoes
  <2>2. RowsStay /\ ThingsInOrder'
    BY <1>1, <2>1 DEF RowsStay, ThingsInOrder, async
  <2>3. JobInOrder(w)'
    BY <1>1, <2>1, PcIn DEF JobInOrder, async
  <2>. QED  BY <2>1, <2>2, <2>3, WorkerOrdered
<1>8. ASSUME NEW k \in DOMAIN contentions, NEW i \in Issues, Match(w, k, i) PROVE RInv'
  <2>1. /\ IInv' /\ OthersKeep(w)
        /\ UNCHANGED <<async, queue, epes, edit, vbms, sync>>
        /\ job[w].pc = "match" /\ i \in job[w].ready
        /\ \A j \in Issues : /\ issue'[j].status = issue[j].status /\ issue'[j].epe = issue[j].epe
                             /\ j # i => issue'[j].contention = issue[j].contention
        /\ job'[w].pc = "match" /\ job'[w].thing = job[w].thing /\ job'[w].todo = job[w].todo
        /\ job'[w].epe = job[w].epe /\ job'[w].ready = job[w].ready \ {i}
    BY <1>1, <1>8, MatchDoes
  <2>2. issue[i].status # "none"
    BY <1>1, <2>1 DEF JobInOrder
  <2>3. RowsStay /\ ThingsInOrder'
    BY <1>1, <2>1, <2>2 DEF RowsStay, ThingsInOrder, async
  <2>4. job[w].ready \subseteq Issues
    BY <1>2 DEF JobRecords
  <2>5. JobInOrder(w)'
    BY <1>1, <2>1, <2>4, PcIn DEF JobInOrder, async
  <2>. QED  BY <2>1, <2>3, <2>5, WorkerOrdered
<1>9. CASE Matched(w)
  <2>1. /\ IInv' /\ OthersKeep(w)
        /\ UNCHANGED <<async, queue, epes, issue, edit, vbms, sync>> /\ job[w].pc = "match"
        /\ \/ job'[w].pc = "idle"
           \/ /\ job'[w].pc = "next" /\ job'[w].thing = job[w].thing
              /\ job'[w].todo \subseteq job[w].todo
    BY <1>1, <1>9, MatchedDoes
  <2>2. RowsStay /\ ThingsInOrder'
    BY <1>1, <2>1 DEF RowsStay, ThingsInOrder, async
  <2>3. JobInOrder(w)'
    BY <1>1, <2>1, PcIn DEF JobInOrder, async
  <2>. QED  BY <2>1, <2>2, <2>3, WorkerOrdered
<1>10. CASE ProcessReview(w)
  <2>1. /\ IInv' /\ OthersKeep(w)
        /\ UNCHANGED <<submitted, queue, epes, issue, edit, sync>>
        /\ job[w].pc = "next" /\ processed' = processed \union {Review}
        /\ \/ job'[w].pc = "idle"
           \/ /\ job[w].thing \in Updates /\ job'[w].thing = job[w].thing /\ job'[w].pc = "off"
              /\ job'[w].unused =
                    {issue[i].epe : i \in {j \in edit[job[w].thing].removed : issue[j].epe # None}}
    BY <1>1, <1>10, ProcessReviewDoes
  <2>2. RowsStay /\ ThingsInOrder'
    BY <1>1, <2>1 DEF RowsStay, ThingsInOrder
  <2>3. ASSUME job[w].thing \in Updates
        PROVE  \A i \in edit[job[w].thing].removed : /\ i \in Issues /\ issue[i].epe \in Rows
                                                     /\ epes[issue[i].epe].exists
    BY <1>1, <1>2, <2>3 DEF Typed, EditRecords, EditInOrder, RowsInOrder
  <2>4. JobInOrder(w)'
    <3>1. CASE job'[w].pc = "idle"
      BY <3>1, IdleInOrder
    <3>2. CASE job'[w].pc = "off"
      <4>1. \A e \in job'[w].unused : e \in Rows /\ epes'[e].exists
        BY <2>1, <2>3, <3>2
      <4>. QED  BY <1>1, <2>1, <3>2, <4>1, PcIn DEF JobInOrder
    <3>. QED  BY <2>1, <3>1, <3>2
  <2>. QED  BY <2>1, <2>2, <2>4, WorkerOrdered
<1>11. ASSUME NEW i \in Issues, RemoveContention(w, i) PROVE RInv'
  <2>1. /\ IInv' /\ OthersKeep(w)
        /\ UNCHANGED <<async, queue, epes, issue, edit, sync>>
        /\ job[w].pc = "off" /\ job'[w].pc = "off" /\ job'[w].thing = job[w].thing
        /\ job'[w].unused = job[w].unused
    BY <1>1, <1>11, RemoveContentionDoes
  <2>2. RowsStay /\ ThingsInOrder'
    BY <1>1, <2>1 DEF RowsStay, ThingsInOrder, async
  <2>3. JobInOrder(w)'
    BY <1>1, <2>1, PcIn DEF JobInOrder, async
  <2>. QED  BY <2>1, <2>2, <2>3, WorkerOrdered
<1>12. ASSUME NEW e \in Rows, CheckUnused(w, e) PROVE RInv'
  <2>1. /\ IInv' /\ OthersKeep(w)
        /\ UNCHANGED <<async, queue, epes, issue, edit, vbms, sync>>
        /\ job[w].pc = "off" /\ e \in job[w].unused /\ job'[w].thing = job[w].thing
        /\ \/ job'[w].pc = "cancel" /\ job'[w].epe = e /\ job'[w].unused = job[w].unused
           \/ job'[w].pc = "off" /\ job'[w].unused \subseteq job[w].unused
    BY <1>1, <1>12, CheckUnusedDoes
  <2>2. RowsStay /\ ThingsInOrder'
    BY <1>1, <2>1 DEF RowsStay, ThingsInOrder, async
  <2>3. JobInOrder(w)'
    BY <1>1, <2>1, PcIn DEF JobInOrder, async
  <2>. QED  BY <2>1, <2>2, <2>3, WorkerOrdered
<1>13. CASE CancelClaim(w)
  <2>1. /\ IInv' /\ OthersKeep(w)
        /\ UNCHANGED <<async, queue, epes, issue, edit, sync>>
        /\ job[w].pc = "cancel" /\ job'[w].pc = "save_cancel" /\ job'[w].thing = job[w].thing
        /\ job'[w].epe = job[w].epe /\ job'[w].unused = job[w].unused
    BY <1>1, <1>13, CancelClaimDoes
  <2>2. RowsStay /\ ThingsInOrder'
    BY <1>1, <2>1 DEF RowsStay, ThingsInOrder, async
  <2>3. JobInOrder(w)'
    BY <1>1, <2>1, PcIn DEF JobInOrder, async
  <2>. QED  BY <2>1, <2>2, <2>3, WorkerOrdered
<1>14. CASE SaveCancel(w)
  <2>1. /\ IInv' /\ OthersKeep(w) /\ HandleCancelledEp(job[w].epe)
        /\ UNCHANGED <<submitted, processed, queue, edit, vbms, sync>>
        /\ job[w].pc = "save_cancel" /\ job[w].epe \in Rows
        /\ job'[w].pc = "off" /\ job'[w].thing = job[w].thing
        /\ job'[w].unused \subseteq job[w].unused
    BY <1>1, <1>14, SaveCancelDoes
  <2>2. epes[job[w].epe].exists
    BY <1>1, <2>1, PcIn DEF JobInOrder
  <2>3. RowsStay
    BY <2>1, <2>2, CancelledStay
  <2>4. ThingsInOrder'
    BY <1>1, <1>2, <2>1, <2>3 DEF ThingsInOrder, RowsStay, Typed
  <2>5. JobInOrder(w)'
    BY <1>1, <2>1, <2>3, PcIn DEF JobInOrder, RowsStay
  <2>. QED  BY <2>1, <2>3, <2>4, <2>5, WorkerOrdered
<1>15. CASE ProcessUpdate(w)
  <2>1. /\ IInv' /\ OthersKeep(w) /\ job'[w].pc = "idle"
        /\ UNCHANGED <<submitted, queue, epes, issue, edit, sync>>
        /\ job[w].pc = "off" /\ processed' = processed \union {job[w].thing}
    BY <1>1, <1>15, ProcessUpdateDoes
  <2>2. RowsStay /\ ThingsInOrder'
    BY <1>1, <2>1, PcIn DEF RowsStay, ThingsInOrder, JobInOrder
  <2>. QED  BY <2>1, <2>2, IdleInOrder, WorkerOrdered
<1>. QED
  BY <1>3, <1>4, <1>5, <1>6, <1>7, <1>8, <1>9, <1>10, <1>11, <1>12, <1>13, <1>14, <1>15 DEF Work

LEMMA OthersOrdered ==
    ASSUME RInv,
           \/ \E t \in Things : Requeue(t)
           \/ \E c \in DOMAIN claims : CancelUpstream(c)
           \/ Sync
    PROVE  RInv'
<1>1. IInv /\ IInv' /\ ThingsInOrder
  BY OthersTyped DEF RInv, Ordered
<1>2. Typed
  BY <1>1, TypeParts DEF IInv
<1>3. SUFFICES RowsStay /\ ThingsInOrder' /\ job' = job
  BY <1>1, OrderKept, RowsStayGrown, JobStays DEF RInv, Ordered
<1>4. CASE \E t \in Things : Requeue(t)
  <2>1. UNCHANGED <<async, epes, issue, edit, sync, job>> /\ queue' \subseteq queue \union submitted
    BY <1>4 DEF Requeue
  <2>. QED  BY <1>1, <2>1 DEF RowsStay, ThingsInOrder, async
<1>5. CASE \E c \in DOMAIN claims : CancelUpstream(c)
  <2>1. UNCHANGED <<async, queue, epes, issue, edit, sync, job>>
    BY <1>5 DEF CancelUpstream
  <2>. QED  BY <1>1, <2>1 DEF RowsStay, ThingsInOrder, async
<1>6. ASSUME NEW e \in Rows, FetchResult(e) PROVE RowsStay /\ ThingsInOrder' /\ job' = job
  <2>1. UNCHANGED <<async, queue, epes, issue, edit, job>> /\ sync' = e /\ epes[e].exists
    BY <1>6 DEF FetchResult, StatusActive, Exists
  <2>. QED  BY <1>1, <2>1 DEF RowsStay, ThingsInOrder, async
<1>7. CASE SaveResult
  <2>1. /\ UNCHANGED <<submitted, processed, queue, edit, job>> /\ sync' = None
        /\ sync \in Rows /\ epes[sync].exists /\ HandleCancelledEp(sync)
    BY <1>1, <1>2, <1>7 DEF SaveResult, ThingsInOrder, Typed
  <2>2. RowsStay
    BY <2>1, CancelledStay
  <2>. QED  BY <1>1, <2>1, <2>2 DEF ThingsInOrder
<1>. QED  BY <1>4, <1>5, <1>6, <1>7 DEF Sync

LEMMA RowsKept ==
    ASSUME RInv, [Next]_vars
    PROVE  RInv'
<1>1. CASE UNCHANGED vars
  <2>1. RowsStay /\ ThingsInOrder' /\ job' = job
    BY <1>1 DEF RInv, Ordered, RowsStay, ThingsInOrder, vars, async
  <2>. QED  BY <2>1, TypesKept, OrderKept, RowsStayGrown, JobStays DEF RInv, Ordered
<1>2. CASE Next
  <2>1. ASSUME NEW u \in Updates,
               CommitUpdate(u) \/ \E removed, added \in SUBSET Issues : BeginUpdate(u, removed, added)
        PROVE  RInv'
    BY <2>1, UsersTyped, CommitOrdered, BeginOrdered DEF RInv
  <2>. QED  BY <1>2, <2>1, StartOrdered, WorkOrdered, AbortOrdered, OthersOrdered DEF Next
<1>. QED  BY <1>1, <1>2


-----------------------------------------------------------------------------
(* End products, one execution at a time *)

\* With two executions at a time the model loses what follows: they claim,
\* match and cancel over each other.
InTurn == \A v, w \in Workers : v = w

\* An end product in force that no row refers to.
Orphans == {d \in DOMAIN claims : claims[d].active /\ \A f \in Rows : epes[f].ref # d}

\* What a row refers to.
RowsAndClaims ==
    \A e \in Rows :
        /\ epes[e].synced = "CAN" => epes[e].ref # None /\ ~ claims[epes[e].ref].active
        /\ epes[e].ref # None =>
              /\ claims[epes[e].ref].code = e[1]
              /\ \A f \in Rows : epes[f].ref = epes[e].ref => e = f

\* A code has one orphan at most, and then a row that waits for it.
OrphansWaitedFor ==
    /\ \A c, d \in Orphans : claims[c].code = claims[d].code => c = d
    /\ \A d \in Orphans : \E e \in Rows :
          e[1] = claims[d].code /\ StatusActive(e) /\ epes[e].ref = None

\* What is found cancelled upstream is.
SyncKnows == sync # None => epes[sync].ref # None /\ ~ claims[epes[sync].ref].active

\* What an execution knows of the references is true, but for the end product
\* it has just established, the only orphan of its code.
RefsKnown(w) ==
    /\ job[w].pc \in Before =>
          \A e \in Rows : job[w].pc # "save" \/ e # job[w].epe => job[w].ref[e] = epes[e].ref
    /\ job[w].pc = "claim" =>
          /\ epes[job[w].epe].ref = None
          /\ \A d \in Orphans : claims[d].code # job[w].epe[1]
    /\ job[w].pc = "save" =>
          LET new == job[w].ref[job[w].epe]
          IN  /\ epes[job[w].epe].ref = None
              /\ new # None /\ claims[new].code = job[w].epe[1]
              /\ \A f \in Rows : epes[f].ref # new
              /\ \A d \in Orphans : claims[d].code = job[w].epe[1] => d = new

\* What an update has emptied is established before it is cancelled.
UnusedEstablished(w) ==
    /\ job[w].pc \in Before /\ job[w].thing \in Updates =>
          \A i \in edit[job[w].thing].removed :
              epes[issue[i].epe].ref # None \/ issue[i].epe \in job[w].todo
    /\ job[w].pc \in After =>
          \A e \in job[w].unused : e \in Rows /\ epes[e].ref # None
    /\ job[w].pc = "save_cancel" => ~ claims[epes[job[w].epe].ref].active

ClaimsInOrder ==
    /\ RowsAndClaims /\ OrphansWaitedFor /\ SyncKnows
    /\ \A w \in Workers : RefsKnown(w) /\ UnusedEstablished(w)

CInv == RInv /\ ClaimsInOrder

\* What the types say of rows, of the removed issues and of an execution.
LEMMA RowFacts ==
    ASSUME RInv
    PROVE  /\ \A e \in Rows : /\ epes[e].ref = None \/ epes[e].ref \in DOMAIN claims
                              /\ epes[e].synced = None \/ epes[e].synced = "CAN"
                              /\ ~ epes[e].exists => epes[e].ref = None /\ epes[e].synced = None
           /\ \A u \in Updates : \A i \in edit[u].removed :
                 i \in Issues /\ issue[i].epe \in Rows /\ epes[issue[i].epe].exists
           /\ sync = None \/ sync \in Rows
           /\ None \notin Nat /\ None \notin Rows /\ DOMAIN claims \subseteq Nat
<1>1. Typed /\ RowsInOrder /\ \A u \in Updates : EditInOrder(u)
  BY TypeParts DEF RInv, IInv, Ordered
<1>2. \A u \in Updates : edit[u].removed \subseteq Issues
  BY <1>1 DEF Typed, EditRecords
<1>3. DOMAIN claims \subseteq Nat
  BY <1>1, LenProperties DEF Typed
<1>. QED  BY <1>1, <1>2, <1>3, NoneAssumption DEF Typed, EpeRecords, RowsInOrder, EditInOrder

LEMMA WorkerFacts ==
    ASSUME RInv, NEW w \in Workers
    PROVE  /\ JobInOrder(w)
           /\ job[w].pc # "idle" => job[w].thing \in Things
           /\ job[w].pc \in AtRow => job[w].epe \in Rows
           /\ job[w].pc \in {"contend", "match"} => job[w].ref[job[w].epe] # None
           /\ job[w].pc \in After => job[w].thing \in Updates
           /\ job[w].todo \subseteq Rows
           /\ \A e \in Rows : job[w].ref[e] = None \/ job[w].ref[e] \in DOMAIN claims
<1>1. job[w] \in JobRecords /\ JobInOrder(w)
  BY RecordTypes DEF RInv, Ordered
<1>. QED  BY <1>1, RecordTypes DEF RInv, JobRecords

\* Rows and end products that stay as they are but for new rows.
LEMMA RefsStay ==
    ASSUME CInv, UNCHANGED <<claims, sync>>,
           \A e \in Rows : /\ epes'[e].ref = epes[e].ref /\ epes'[e].synced = epes[e].synced
                           /\ epes[e].exists => epes'[e].exists
    PROVE  /\ RowsAndClaims' /\ OrphansWaitedFor' /\ SyncKnows'
           /\ Orphans' = Orphans
<1>1. RowsAndClaims /\ OrphansWaitedFor /\ SyncKnows
  BY DEF CInv, ClaimsInOrder
<1>2. Orphans' = Orphans
  BY DEF Orphans
<1>3. RowsAndClaims' /\ SyncKnows'
  BY <1>1, RowFacts DEF CInv, RowsAndClaims, SyncKnows
<1>4. OrphansWaitedFor'
  BY <1>1, <1>2 DEF OrphansWaitedFor, StatusActive, Exists
<1>. QED  BY <1>2, <1>3, <1>4

LEMMA JobKnows ==
    ASSUME CInv, NEW w \in Workers, job'[w] = job[w],
           \A e \in Rows : epes'[e].ref = epes[e].ref,
           \A d \in DOMAIN claims : d \in DOMAIN claims' /\ claims'[d].code = claims[d].code,
           \A d \in DOMAIN claims : claims'[d].active => claims[d].active,
           Orphans' \subseteq Orphans,
           \A u \in Updates \intersect submitted : edit'[u].removed = edit[u].removed,
           \A u \in Updates \intersect submitted : \A i \in edit[u].removed : issue'[i].epe = issue[i].epe
    PROVE  RefsKnown(w)' /\ UnusedEstablished(w)'
<1>1. RefsKnown(w) /\ UnusedEstablished(w)
  BY DEF CInv, ClaimsInOrder
<1>2. \A d \in Orphans : d \in DOMAIN claims
  BY DEF Orphans
<1>3. RefsKnown(w)'
  BY <1>1, <1>2, RowFacts, WorkerFacts, PcIn DEF CInv, RefsKnown
<1>4. UnusedEstablished(w)'
  BY <1>1, RowFacts, WorkerFacts, PcIn DEF CInv, UnusedEstablished, JobInOrder
<1>. QED  BY <1>3, <1>4

\* End products of which some are off: no new orphan.
LEMMA ClaimsOff ==
    ASSUME CInv, UNCHANGED <<epes, sync>>, DOMAIN claims' = DOMAIN claims,
           \A d \in DOMAIN claims : /\ claims'[d].code = claims[d].code
                                    /\ claims'[d].active => claims[d].active
    PROVE  /\ RowsAndClaims' /\ OrphansWaitedFor' /\ SyncKnows'
           /\ Orphans' \subseteq Orphans
<1>1. RowsAndClaims /\ OrphansWaitedFor /\ SyncKnows
  BY DEF CInv, ClaimsInOrder
<1>2. Orphans' \subseteq Orphans
  BY DEF Orphans
<1>3. RowsAndClaims' /\ SyncKnows'
  BY <1>1, RowFacts DEF CInv, RowsAndClaims, SyncKnows
<1>4. \A d \in Orphans' : claims'[d].code = claims[d].code
  BY DEF Orphans
<1>5. OrphansWaitedFor'
  BY <1>1, <1>2, <1>4 DEF OrphansWaitedFor, StatusActive, Exists
<1>. QED  BY <1>2, <1>3, <1>5

\* A row known to be cancelled upstream is marked.
LEMMA MarkCancelled ==
    ASSUME CInv, UNCHANGED <<claims>>, sync' = None \/ sync' = sync,
           NEW e \in Rows, epes[e].ref # None, ~ claims[epes[e].ref].active, HandleCancelledEp(e)
    PROVE  /\ RowsAndClaims' /\ OrphansWaitedFor' /\ SyncKnows'
           /\ Orphans' = Orphans
<1>1. RowsAndClaims /\ OrphansWaitedFor /\ SyncKnows
  BY DEF CInv, ClaimsInOrder
<1>2. \A f \in Rows : /\ epes'[f].exists = epes[f].exists /\ epes'[f].ref = epes[f].ref
                      /\ epes'[f].synced = IF f = e THEN "CAN" ELSE epes[f].synced
  BY CancelledDoes DEF CInv, RInv
<1>3. Orphans' = Orphans
  BY <1>2 DEF Orphans
<1>4. RowsAndClaims' /\ SyncKnows'
  BY <1>1, <1>2, RowFacts DEF CInv, RowsAndClaims, SyncKnows
<1>5. OrphansWaitedFor'
  BY <1>1, <1>2, <1>3 DEF OrphansWaitedFor, StatusActive, Exists
<1>. QED  BY <1>3, <1>4, <1>5

\* A waiting row takes the only orphan of its code, or an end product that is
\* off since, when there is none.
LEMMA TakeOrphan ==
    ASSUME CInv, UNCHANGED <<claims, sync>>,
           NEW e \in Rows, epes[e].ref = None,
           NEW c \in DOMAIN claims, claims[c].code = e[1],
           \A f \in Rows : epes[f].ref # c,
           \A d \in Orphans : claims[d].code = e[1] => d = c,
           \A f \in Rows : /\ epes'[f].exists = epes[f].exists /\ epes'[f].synced = epes[f].synced
                           /\ epes'[f].ref = IF f = e THEN c ELSE epes[f].ref
    PROVE  RowsAndClaims' /\ OrphansWaitedFor' /\ SyncKnows'
<1>1. RowsAndClaims /\ OrphansWaitedFor /\ SyncKnows /\ c # None
  BY RowFacts DEF CInv, ClaimsInOrder
<1>2. Orphans' = Orphans \ {c}
  BY RowFacts DEF Orphans, CInv
<1>3. RowsAndClaims' /\ SyncKnows'
  BY <1>1, RowFacts DEF CInv, RowsAndClaims, SyncKnows
<1>4. OrphansWaitedFor'
  <2>1. ASSUME NEW d \in Orphans \ {c}
        PROVE  \E f \in Rows : f[1] = claims[d].code /\ StatusActive(f)' /\ epes'[f].ref = None
    <3>1. PICK f \in Rows : f[1] = claims[d].code /\ StatusActive(f) /\ epes[f].ref = None
      BY <1>1, <2>1 DEF OrphansWaitedFor
    <3>2. f # e
      BY <2>1, <3>1
    <3>. QED  BY <3>1, <3>2 DEF StatusActive, Exists
  <2>2. \A d, b \in Orphans' : claims'[d].code = claims'[b].code => d = b
    BY <1>1, <1>2 DEF OrphansWaitedFor
  <2>. QED  BY <1>2, <2>1, <2>2 DEF OrphansWaitedFor
<1>. QED  BY <1>3, <1>4

LEMMA InitClaims ==
    ASSUME Init
    PROVE  CInv
<1>1. RInv
  BY InitOrdered
<1>2. /\ edit = [u \in Updates |-> NoEdit] /\ claims = <<>>
      /\ sync = None /\ job = [w \in Workers |-> Idle]
  BY DEF Init
<1>3. \A e \in Rows : epes[e].ref = None /\ epes[e].synced = None
  <2>1. PICK open \in SUBSET (Issues \ Added) \ {{}} :
          epes = [e \in Rows |->
                [NoRow EXCEPT !.exists = e[2] = 1 /\ \E i \in open : Code(i) = e[1]]]
    BY Zenon DEF Init
  <2>. QED  BY <2>1 DEF NoRow
<1>4. Orphans = {}
  BY <1>2 DEF Orphans
<1>5. RowsAndClaims
  BY <1>3, NoneAssumption DEF RowsAndClaims
<1>6. OrphansWaitedFor /\ SyncKnows
  BY <1>2, <1>4 DEF OrphansWaitedFor, SyncKnows
<1>7. \A w \in Workers : RefsKnown(w) /\ UnusedEstablished(w)
  BY <1>2, PcIn DEF RefsKnown, UnusedEstablished, Idle
<1>. QED  BY <1>1, <1>5, <1>6, <1>7 DEF CInv, ClaimsInOrder

LEMMA IdleKnows ==
    ASSUME NEW w \in Workers, job'[w].pc = "idle"
    PROVE  RefsKnown(w)' /\ UnusedEstablished(w)'
BY PcIn DEF RefsKnown, UnusedEstablished

LEMMA UsersClaims ==
    ASSUME CInv, NEW u \in Updates,
           CommitUpdate(u) \/ \E removed, added \in SUBSET Issues : BeginUpdate(u, removed, added)
    PROVE  ClaimsInOrder'
<1>1. RInv /\ IInv /\ (\A v \in Updates : EditInOrder(v))
  BY DEF CInv, RInv, Ordered
<1>2. SUFFICES
        /\ UNCHANGED <<claims, sync, job>>
        /\ \A e \in Rows : /\ epes'[e].ref = epes[e].ref /\ epes'[e].synced = epes[e].synced
                           /\ epes[e].exists => epes'[e].exists
        /\ \A v \in Updates \intersect submitted : edit'[v].removed = edit[v].removed
        /\ \A v \in Updates \intersect submitted : \A i \in edit[v].removed :
              issue'[i].epe = issue[i].epe
  BY RefsStay, JobKnows DEF ClaimsInOrder
<1>3. CASE CommitUpdate(u)
  <2>1. UNCHANGED <<claims, sync, job>>
    BY <1>3 DEF CommitUpdate, vbms
  <2>2. /\ edit'[u].removed = edit[u].removed
        /\ \A v \in Updates : v # u => edit'[v] = edit[v]
        /\ \A e \in Rows : \/ epes'[e] = epes[e]
                           \/ /\ ~ epes[e].exists
                              /\ epes'[e].exists /\ epes'[e].ref = None /\ epes'[e].synced = None
        /\ \A i \in Issues : i \notin edit[u].added => issue'[i].epe = issue[i].epe
    BY <1>1, <1>3, CommitDoes
  <2>3. \A v \in Updates : \A i \in edit[v].removed : i \in Issues /\ i \notin edit[u].added
    BY <1>1, RowFacts DEF EditInOrder
  <2>. QED  BY <1>1, <2>1, <2>2, <2>3, RowFacts
<1>4. ASSUME NEW removed \in SUBSET Issues, NEW added \in SUBSET Issues, BeginUpdate(u, removed, added)
      PROVE  /\ UNCHANGED <<claims, sync, job, epes, issue>>
             /\ \A v \in Updates \intersect submitted : edit'[v].removed = edit[v].removed
  <2>1. UNCHANGED <<claims, sync, job, epes, issue>> /\ edit[u].phase = "none"
    BY <1>4 DEF BeginUpdate, vbms
  <2>2. u \notin submitted
    BY <1>1, <2>1 DEF EditInOrder
  <2>3. edit \in [Updates -> EditRecords]
    BY <1>1, TypeParts DEF IInv, Typed
  <2>4. \A v \in Updates : v # u => edit'[v] = edit[v]
    BY <1>4, <2>3 DEF BeginUpdate
  <2>. QED  BY <2>1, <2>2, <2>4
<1>. QED  BY <1>3, <1>4

LEMMA OthersClaims ==
    ASSUME CInv,
           \/ \E t \in Things : Requeue(t)
           \/ \E c \in DOMAIN claims : CancelUpstream(c)
           \/ Sync
    PROVE  ClaimsInOrder'
<1>1. RInv /\ IInv /\ RowsAndClaims /\ OrphansWaitedFor /\ SyncKnows
  BY DEF CInv, RInv, ClaimsInOrder
<1>2. CASE \E t \in Things : Requeue(t)
  <2>1. UNCHANGED <<epes, claims, issue, edit, sync, job>>
    BY <1>2 DEF Requeue, vbms
  <2>. QED  BY <2>1, RefsStay, JobKnows DEF ClaimsInOrder
<1>3. ASSUME NEW c \in DOMAIN claims, CancelUpstream(c) PROVE ClaimsInOrder'
  <2>1. UNCHANGED <<epes, issue, edit, sync, job>> /\ claims' = [claims EXCEPT ![c].active = FALSE]
    BY <1>3 DEF CancelUpstream
  <2>2. claims \in Seq(ClaimRecords)
    BY <1>1, TypeParts DEF IInv, Typed
  <2>3. DOMAIN claims' = DOMAIN claims
    BY <2>1, <2>2, ClaimOff
  <2>4. \A d \in DOMAIN claims : /\ claims'[d].code = claims[d].code
                                 /\ claims'[d].active => claims[d].active
    BY <2>1, <2>2, ClaimOff
  <2>. QED  BY <2>1, <2>3, <2>4, ClaimsOff, JobKnows DEF ClaimsInOrder
<1>4. ASSUME NEW e \in Rows, FetchResult(e) PROVE ClaimsInOrder'
  <2>1. UNCHANGED <<epes, claims, issue, edit, job>> /\ sync' = e
        /\ epes[e].ref # None /\ ~ claims[epes[e].ref].active
    BY <1>4 DEF FetchResult, vbms
  <2>2. RowsAndClaims' /\ OrphansWaitedFor' /\ SyncKnows' /\ Orphans' = Orphans
    BY <1>1, <2>1 DEF RowsAndClaims, OrphansWaitedFor, SyncKnows, Orphans, StatusActive, Exists
  <2>. QED  BY <2>1, <2>2, JobKnows DEF ClaimsInOrder
<1>5. CASE SaveResult
  <2>1. /\ UNCHANGED <<claims, edit, job>> /\ sync' = None
        /\ sync \in Rows /\ epes[sync].ref # None /\ ~ claims[epes[sync].ref].active
        /\ HandleCancelledEp(sync)
    BY <1>1, <1>5, RowFacts DEF SaveResult, SyncKnows, vbms
  <2>2. /\ \A f \in Rows : epes'[f].ref = epes[f].ref
        /\ \A i \in Issues : issue'[i].epe = issue[i].epe
    BY <1>1, <2>1, CancelledDoes
  <2>3. \A v \in Updates : \A i \in edit[v].removed : i \in Issues
    BY <1>1, RowFacts
  <2>. QED  BY <2>1, <2>2, <2>3, MarkCancelled, JobKnows DEF ClaimsInOrder
<1>. QED  BY <1>2, <1>3, <1>4, <1>5 DEF Sync

LEMMA StartClaims ==
    ASSUME CInv, InTurn, NEW w \in Workers, NEW t \in Things, StartJob(w, t)
    PROVE  ClaimsInOrder'
<1>1. RInv /\ IInv /\ RowsAndClaims /\ ThingsInOrder
  BY DEF CInv, RInv, ClaimsInOrder, Ordered
<1>2. UNCHANGED <<epes, issue, edit, claims, sync>>
  BY <1>1, StartDoes DEF vbms
<1>3. /\ job'[w].pc = "next" /\ job'[w].thing = t
      /\ job'[w].todo = {e \in Rows : StatusActive(e)}
      /\ \A e \in Rows : job'[w].ref[e] = epes[e].ref
  BY <1>1, StartDoes
<1>4. RefsKnown(w)'
  BY <1>2, <1>3, PcIn DEF RefsKnown
<1>5. UnusedEstablished(w)'
  BY <1>1, <1>2, <1>3, RowFacts, PcIn DEF UnusedEstablished, StatusActive, Exists, RowsAndClaims
<1>6. RowsAndClaims' /\ OrphansWaitedFor' /\ SyncKnows'
  BY <1>2, RefsStay
<1>. QED  BY <1>4, <1>5, <1>6 DEF InTurn, ClaimsInOrder

LEMMA RecoverClaims ==
    ASSUME CInv, InTurn, NEW w \in Workers, NEW e \in Rows, Recover(w, e)
    PROVE  ClaimsInOrder'
<1>1. /\ RInv /\ IInv /\ RefsKnown(w) /\ UnusedEstablished(w)
  BY DEF CInv, RInv, ClaimsInOrder
<1>2. /\ UNCHANGED <<issue, edit, claims, sync>>
      /\ job[w].pc = "next" /\ e \in job[w].todo /\ job[w].ref[e] = None
      /\ job'[w].thing = job[w].thing /\ job'[w].todo = job[w].todo
  BY <1>1, RecoverDoes DEF vbms
<1>3. epes[e].ref = None
  BY <1>1, <1>2, PcIn DEF RefsKnown
<1>4. \A d : d \in Matching(e) <=> d \in Orphans /\ claims[d].code = e[1]
  BY DEF Matching, Orphans
<1>5. CASE /\ Matching(e) = {} /\ UNCHANGED epes
           /\ job'[w].pc = "claim" /\ job'[w].epe = e /\ job'[w].ref = job[w].ref
  <2>1. RowsAndClaims' /\ OrphansWaitedFor' /\ SyncKnows' /\ Orphans' = Orphans
    BY <1>2, <1>5, RefsStay
  <2>2. RefsKnown(w)'
    BY <1>1, <1>2, <1>3, <1>4, <1>5, <2>1, PcIn DEF RefsKnown
  <2>3. UnusedEstablished(w)'
    BY <1>1, <1>2, <1>5, PcIn DEF UnusedEstablished
  <2>. QED  BY <2>1, <2>2, <2>3 DEF InTurn, ClaimsInOrder
<1>6. ASSUME NEW c \in Matching(e),
             /\ \A f \in Rows : /\ epes'[f].exists = epes[f].exists
                                /\ epes'[f].synced = epes[f].synced
                                /\ epes'[f].ref = IF f = e THEN c ELSE epes[f].ref
             /\ job'[w].pc = "next"
             /\ \A f \in Rows : job'[w].ref[f] = IF f = e THEN c ELSE job[w].ref[f]
      PROVE  ClaimsInOrder'
  <2>1. /\ c \in DOMAIN claims /\ claims[c].code = e[1] /\ c # None
        /\ \A f \in Rows : epes[f].ref # c
        /\ \A d \in Orphans : claims[d].code = e[1] => d = c
    BY <1>4, RowFacts DEF CInv, ClaimsInOrder, OrphansWaitedFor, Orphans
  <2>2. RowsAndClaims' /\ OrphansWaitedFor' /\ SyncKnows'
    BY <1>2, <1>3, <1>6, <2>1, TakeOrphan
  <2>3. RefsKnown(w)'
    BY <1>1, <1>2, <1>6, PcIn DEF RefsKnown
  <2>4. UnusedEstablished(w)'
    BY <1>1, <1>2, <1>6, <2>1, RowFacts, PcIn DEF UnusedEstablished
  <2>. QED  BY <2>2, <2>3, <2>4 DEF InTurn, ClaimsInOrder
<1>. QED  BY <1>1, <1>5, <1>6, RecoverDoes

LEMMA ClaimClaims ==
    ASSUME CInv, InTurn, NEW w \in Workers, Claim(w)
    PROVE  ClaimsInOrder'
<1>1. /\ RInv /\ IInv /\ RefsKnown(w) /\ UnusedEstablished(w)
      /\ RowsAndClaims /\ OrphansWaitedFor /\ SyncKnows
  BY DEF CInv, RInv, ClaimsInOrder
<1>2. UNCHANGED <<epes, issue, edit, sync>> /\ job[w].pc = "claim" /\ job[w].epe \in Rows
  BY <1>1, ClaimDoes
<1>3. CASE claims' = claims /\ job'[w].pc = "idle"
  BY <1>2, <1>3, RefsStay, IdleKnows DEF InTurn, ClaimsInOrder
<1>4. ASSUME NEW new \in Nat,
             /\ new \notin DOMAIN claims /\ DOMAIN claims' = DOMAIN claims \union {new}
             /\ \A d \in DOMAIN claims : claims'[d] = claims[d]
             /\ claims'[new].code = job[w].epe[1] /\ claims'[new].active
             /\ job'[w].pc = "save" /\ job'[w].epe = job[w].epe
             /\ job'[w].thing = job[w].thing /\ job'[w].todo = job[w].todo
             /\ \A f \in Rows : job'[w].ref[f] = IF f = job[w].epe THEN new ELSE job[w].ref[f]
      PROVE  ClaimsInOrder'
  <2> DEFINE e == job[w].epe
  <2>1. /\ e \in Rows /\ epes[e].ref = None /\ e \in job[w].todo
        /\ \A d \in Orphans : claims[d].code # e[1]
    BY <1>1, <1>2, WorkerFacts, PcIn DEF RefsKnown, JobInOrder
  <2>2. StatusActive(e)
    BY <1>1, <1>2, <2>1, RowFacts, WorkerFacts, PcIn DEF RowsAndClaims, StatusActive, Exists, JobInOrder
  <2>3. new # None /\ \A f \in Rows : epes[f].ref # new
    BY <1>1, <1>4, RowFacts
  <2>4. /\ \A d \in Orphans' : d # new => d \in Orphans
        /\ \A d \in Orphans : d \in DOMAIN claims
    BY <1>2, <1>4 DEF Orphans
  <2>5. RowsAndClaims' /\ SyncKnows'
    BY <1>1, <1>2, <1>4, RowFacts DEF RowsAndClaims, SyncKnows
  <2>6. \A d \in Orphans' : d # new => /\ claims'[d].code = claims[d].code /\ claims[d].code # e[1]
    BY <1>4, <2>1, <2>4
  <2>7. \A c, d \in Orphans' : claims'[c].code = claims'[d].code => c = d
    BY <1>1, <1>4, <2>4, <2>6 DEF OrphansWaitedFor
  <2>8. \A d \in Orphans' : \E f \in Rows :
           f[1] = claims'[d].code /\ StatusActive(f) /\ epes[f].ref = None
    BY <1>1, <1>4, <2>1, <2>2, <2>4, <2>6 DEF OrphansWaitedFor
  <2>9. OrphansWaitedFor'
    BY <1>2, <2>7, <2>8 DEF OrphansWaitedFor, StatusActive, Exists
  <2>10. RefsKnown(w)'
    BY <1>1, <1>2, <1>4, <2>1, <2>3, <2>6, PcIn DEF RefsKnown
  <2>11. UnusedEstablished(w)'
    BY <1>1, <1>2, <1>4, PcIn DEF UnusedEstablished
  <2>. QED  BY <2>5, <2>9, <2>10, <2>11 DEF InTurn, ClaimsInOrder
<1>. QED  BY <1>1, <1>3, <1>4, ClaimDoes

LEMMA SaveClaimClaims ==
    ASSUME CInv, InTurn, NEW w \in Workers, SaveClaim(w)
    PROVE  ClaimsInOrder'
<1>1. /\ RInv /\ IInv /\ RefsKnown(w) /\ UnusedEstablished(w)
  BY DEF CInv, RInv, ClaimsInOrder
<1>2. /\ UNCHANGED <<issue, edit, claims, sync>>
      /\ job[w].pc = "save" /\ job[w].epe \in Rows
      /\ \A f \in Rows : /\ epes'[f].exists = epes[f].exists
                         /\ epes'[f].synced = epes[f].synced
                         /\ epes'[f].ref = IF f = job[w].epe THEN job[w].ref[f] ELSE epes[f].ref
      /\ job'[w].pc = "next" /\ job'[w].thing = job[w].thing
      /\ job'[w].todo = job[w].todo /\ job'[w].ref = job[w].ref
  BY <1>1, SaveClaimDoes DEF vbms
<1> DEFINE e == job[w].epe
           c == job[w].ref[e]
<1>3. /\ epes[e].ref = None /\ c # None /\ claims[c].code = e[1]
      /\ \A f \in Rows : epes[f].ref # c
      /\ \A d \in Orphans : claims[d].code = e[1] => d = c
  BY <1>1, <1>2, PcIn DEF RefsKnown
<1>4. c \in DOMAIN claims
  BY <1>1, <1>2, <1>3, WorkerFacts
<1>5. \A f \in Rows : epes'[f].ref = IF f = e THEN c ELSE epes[f].ref
  BY <1>2
<1>6. RowsAndClaims' /\ OrphansWaitedFor' /\ SyncKnows'
  <2> HIDE DEF c
  <2>. QED  BY <1>2, <1>3, <1>4, <1>5, TakeOrphan
<1>7. RefsKnown(w)'
  BY <1>1, <1>2, PcIn DEF RefsKnown
<1>8. UnusedEstablished(w)'
  BY <1>1, <1>2, <1>3, RowFacts, PcIn DEF UnusedEstablished
<1>. QED  BY <1>6, <1>7, <1>8 DEF InTurn, ClaimsInOrder

\* The steps that change neither a reference nor an end product.
LEMMA ReadingClaims ==
    ASSUME CInv, InTurn, NEW w \in Workers, UNCHANGED <<epes, claims, sync, edit>>,
           \A i \in Issues : issue'[i].epe = issue[i].epe,
           job'[w].pc # "idle" => job'[w].thing = job[w].thing,
           job'[w].pc \in Before =>
                /\ job[w].pc \in Before \ {"save"} /\ job'[w].pc \notin {"claim", "save"}
                /\ job'[w].ref = job[w].ref
                /\ \A e \in job[w].todo : e \notin job'[w].todo => epes[e].ref # None,
           job'[w].pc \in After => job[w].pc \in After /\ job'[w].unused \subseteq job[w].unused,
           job'[w].pc # "save_cancel"
    PROVE  ClaimsInOrder'
<1>1. RefsKnown(w) /\ UnusedEstablished(w)
  BY DEF CInv, ClaimsInOrder
<1>2. RowsAndClaims' /\ OrphansWaitedFor' /\ SyncKnows'
  BY RefsStay
<1>3. RefsKnown(w)'
  BY <1>1, PcIn DEF RefsKnown
<1>4. UnusedEstablished(w)'
  BY <1>1, RowFacts, PcIn DEF UnusedEstablished, CInv
<1>. QED  BY <1>2, <1>3, <1>4 DEF InTurn, ClaimsInOrder

LEMMA ReviewClaims ==
    ASSUME CInv, InTurn, NEW w \in Workers, ProcessReview(w)
    PROVE  ClaimsInOrder'
<1>1. /\ RInv /\ IInv /\ UnusedEstablished(w)
  BY DEF CInv, RInv, ClaimsInOrder
<1>2. UNCHANGED <<epes, issue, edit, claims, sync>> /\ job[w].pc = "next" /\ job[w].todo = {}
  BY <1>1, ProcessReviewDoes DEF vbms
<1>3. CASE job'[w].pc = "idle"
  BY <1>2, <1>3, RefsStay, IdleKnows DEF InTurn, ClaimsInOrder
<1>4. CASE /\ job[w].thing \in Updates /\ job'[w].pc = "off"
           /\ job'[w].unused =
                 {issue[i].epe : i \in {j \in edit[job[w].thing].removed : issue[j].epe # None}}
  <2>1. RowsAndClaims' /\ OrphansWaitedFor' /\ SyncKnows'
    BY <1>2, RefsStay
  <2>2. \A i \in edit[job[w].thing].removed : issue[i].epe \in Rows /\ epes[issue[i].epe].ref # None
    BY <1>1, <1>2, <1>4, RowFacts, PcIn DEF UnusedEstablished
  <2>3. UnusedEstablished(w)' /\ RefsKnown(w)'
    BY <1>2, <1>4, <2>2, PcIn DEF UnusedEstablished, RefsKnown
  <2>. QED  BY <2>1, <2>3 DEF InTurn, ClaimsInOrder
<1>. QED  BY <1>1, <1>3, <1>4, ProcessReviewDoes

LEMMA CancelClaimClaims ==
    ASSUME CInv, InTurn, NEW w \in Workers, CancelClaim(w)
    PROVE  ClaimsInOrder'
<1>1. /\ RInv /\ IInv /\ UnusedEstablished(w)
  BY DEF CInv, RInv, ClaimsInOrder
<1>2. /\ UNCHANGED <<epes, issue, edit, sync>>
      /\ job[w].pc = "cancel" /\ job[w].epe \in Rows
      /\ DOMAIN claims' = DOMAIN claims
      /\ \A d \in DOMAIN claims :
            /\ claims'[d].code = claims[d].code
            /\ claims'[d].active <=> claims[d].active /\ d # epes[job[w].epe].ref
      /\ job'[w].pc = "save_cancel" /\ job'[w].epe = job[w].epe /\ job'[w].unused = job[w].unused
  BY <1>1, CancelClaimDoes
<1>3. epes[job[w].epe].ref \in DOMAIN claims
  BY <1>1, <1>2, RowFacts, WorkerFacts, PcIn DEF UnusedEstablished, JobInOrder
<1>4. RowsAndClaims' /\ OrphansWaitedFor' /\ SyncKnows'
  BY <1>2, ClaimsOff
<1>5. RefsKnown(w)' /\ UnusedEstablished(w)'
  BY <1>1, <1>2, <1>3, PcIn DEF RefsKnown, UnusedEstablished
<1>. QED  BY <1>4, <1>5 DEF InTurn, ClaimsInOrder

LEMMA SaveCancelClaims ==
    ASSUME CInv, InTurn, NEW w \in Workers, SaveCancel(w)
    PROVE  ClaimsInOrder'
<1>1. /\ RInv /\ IInv /\ UnusedEstablished(w)
  BY DEF CInv, RInv, ClaimsInOrder
<1>2. /\ UNCHANGED <<edit, claims, sync>> /\ HandleCancelledEp(job[w].epe)
      /\ job[w].pc = "save_cancel" /\ job[w].epe \in Rows
      /\ job'[w].pc = "off" /\ job'[w].unused \subseteq job[w].unused
  BY <1>1, SaveCancelDoes DEF vbms
<1>3. epes[job[w].epe].ref # None /\ ~ claims[epes[job[w].epe].ref].active
  BY <1>1, <1>2, WorkerFacts, PcIn DEF UnusedEstablished, JobInOrder
<1>4. RowsAndClaims' /\ OrphansWaitedFor' /\ SyncKnows'
  BY <1>2, <1>3, MarkCancelled
<1>5. \A f \in Rows : epes'[f].ref = epes[f].ref
  BY <1>1, <1>2, CancelledDoes
<1>6. RefsKnown(w)' /\ UnusedEstablished(w)'
  BY <1>1, <1>2, <1>5, PcIn DEF RefsKnown, UnusedEstablished
<1>. QED  BY <1>4, <1>6 DEF InTurn, ClaimsInOrder

LEMMA WorkClaims ==
    ASSUME CInv, InTurn, NEW w \in Workers, Work(w)
    PROVE  ClaimsInOrder'
<1>1. RInv /\ IInv /\ RefsKnown(w)
  BY DEF CInv, RInv, ClaimsInOrder
<1>2. ASSUME NEW e \in Rows, ReadRecords(w, e) PROVE ClaimsInOrder'
  <2>1. /\ UNCHANGED <<epes, issue, edit, claims, sync>>
        /\ job[w].pc = "next" /\ e \in job[w].todo /\ job[w].ref[e] # None
        /\ job'[w].thing = job[w].thing /\ job'[w].ref = job[w].ref
        /\ job'[w].pc \in {"next", "contend"}
        /\ \A f \in job[w].todo : f \notin job'[w].todo => f = e
    BY <1>1, <1>2, ReadRecordsDoes DEF vbms
  <2>2. epes[e].ref # None
    BY <1>1, <2>1, PcIn DEF RefsKnown
  <2>. QED  BY <2>1, <2>2, ReadingClaims, PcIn
<1>3. ASSUME NEW order \in Orders(Issues), Contend(w, order) PROVE ClaimsInOrder'
  <2>1. /\ UNCHANGED <<epes, issue, edit, claims, sync>> /\ job[w].pc = "contend"
        /\ \/ job'[w].pc = "idle"
           \/ /\ job'[w].pc = "match" /\ job'[w].thing = job[w].thing
              /\ job'[w].todo = job[w].todo /\ job'[w].ref = job[w].ref
    BY <1>1, <1>3, ContendDoes
  <2>. QED  BY <2>1, ReadingClaims, PcIn
<1>4. ASSUME NEW k \in DOMAIN contentions, NEW i \in Issues, Match(w, k, i) PROVE ClaimsInOrder'
  <2>1. /\ UNCHANGED <<epes, edit, claims, sync>> /\ job[w].pc = "match"
        /\ \A j \in Issues : issue'[j].epe = issue[j].epe
        /\ job'[w].pc = "match" /\ job'[w].thing = job[w].thing
        /\ job'[w].todo = job[w].todo /\ job'[w].ref = job[w].ref
    BY <1>1, <1>4, MatchDoes DEF vbms
  <2>. QED  BY <2>1, ReadingClaims, PcIn
<1>5. CASE Matched(w)
  <2>1. /\ UNCHANGED <<epes, issue, edit, claims, sync>> /\ job[w].pc = "match" /\ job[w].epe \in Rows
        /\ \/ job'[w].pc = "idle"
           \/ /\ job'[w].pc = "next" /\ job'[w].thing = job[w].thing
              /\ job'[w].todo = job[w].todo \ {job[w].epe} /\ job'[w].ref = job[w].ref
    BY <1>1, <1>5, MatchedDoes DEF vbms
  <2>2. epes[job[w].epe].ref # None
    BY <1>1, <2>1, WorkerFacts, PcIn DEF RefsKnown
  <2>. QED  BY <2>1, <2>2, ReadingClaims, PcIn
<1>6. ASSUME NEW i \in Issues, RemoveContention(w, i) PROVE ClaimsInOrder'
  <2>1. /\ UNCHANGED <<epes, issue, edit, claims, sync>>
        /\ job[w].pc = "off" /\ job'[w].pc = "off" /\ job'[w].thing = job[w].thing
        /\ job'[w].unused = job[w].unused
    BY <1>1, <1>6, RemoveContentionDoes
  <2>. QED  BY <2>1, ReadingClaims, PcIn
<1>7. ASSUME NEW e \in Rows, CheckUnused(w, e) PROVE ClaimsInOrder'
  <2>1. /\ UNCHANGED <<epes, issue, edit, claims, sync>>
        /\ job[w].pc = "off" /\ job'[w].pc \in {"off", "cancel"} /\ job'[w].thing = job[w].thing
        /\ job'[w].unused \subseteq job[w].unused
    BY <1>1, <1>7, CheckUnusedDoes DEF vbms
  <2>. QED  BY <2>1, ReadingClaims, PcIn
<1>8. CASE ProcessUpdate(w)
  <2>1. UNCHANGED <<epes, issue, edit, claims, sync>> /\ job'[w].pc = "idle"
    BY <1>1, <1>8, ProcessUpdateDoes DEF vbms
  <2>. QED  BY <2>1, ReadingClaims, PcIn
<1>. QED
  BY <1>2, <1>3, <1>4, <1>5, <1>6, <1>7, <1>8, RecoverClaims, ClaimClaims, SaveClaimClaims,
     ReviewClaims, CancelClaimClaims, SaveCancelClaims DEF Work

LEMMA ClaimsKept ==
    ASSUME CInv, InTurn, [Next]_vars
    PROVE  CInv'
<1>1. SUFFICES ClaimsInOrder'
  BY RowsKept DEF CInv
<1>2. CASE UNCHANGED vars
  BY <1>2, RefsStay, JobKnows DEF ClaimsInOrder, vars, vbms
<1>3. ASSUME NEW w \in Workers, Abort(w) PROVE ClaimsInOrder'
  <2>1. UNCHANGED <<epes, issue, edit, claims, sync>> /\ job'[w].pc = "idle"
    BY <1>3, AbortDoes DEF vbms, CInv, RInv
  <2>. QED  BY <2>1, ReadingClaims, PcIn
<1>4. CASE Next
  BY <1>3, <1>4, UsersClaims, OthersClaims, StartClaims, WorkClaims DEF Next
<1>. QED  BY <1>2, <1>4

\* An end product in force is the one of an active row of its code.
LEMMA RowOfClaim ==
    ASSUME CInv
    PROVE  LET active == {d \in DOMAIN claims : claims[d].active}
               rows(d) == {e \in Rows : /\ StatusActive(e) /\ e[1] = claims[d].code
                                        /\ epes[e].ref = IF d \in Orphans THEN None ELSE d}
           IN  /\ \A d \in active : rows(d) # {}
               /\ \A c, d \in active : claims[c].code = claims[d].code /\ c # d
                                         => rows(c) \intersect rows(d) = {}
<1>1. RowsAndClaims /\ OrphansWaitedFor /\ RInv
  BY DEF CInv, ClaimsInOrder
<1>2. ASSUME NEW d \in DOMAIN claims, claims[d].active, d \notin Orphans
      PROVE  \E e \in Rows : StatusActive(e) /\ e[1] = claims[d].code /\ epes[e].ref = d
  <2>1. PICK e \in Rows : epes[e].ref = d
    BY <1>2 DEF Orphans
  <2>2. d # None
    BY <1>1, RowFacts
  <2>3. StatusActive(e) /\ e[1] = claims[d].code
    BY <1>1, <1>2, <2>1, <2>2, RowFacts DEF RowsAndClaims, StatusActive, Exists
  <2>. QED  BY <2>1, <2>3
<1>3. \A d \in Orphans : \E e \in Rows :
          StatusActive(e) /\ e[1] = claims[d].code /\ epes[e].ref = None
  BY <1>1 DEF OrphansWaitedFor
<1>4. \A d \in DOMAIN claims : d # None
  BY <1>1, RowFacts
<1>. QED  BY <1>1, <1>2, <1>3, <1>4 DEF OrphansWaitedFor

LEMMA ClaimsCounted ==
    ASSUME CInv
    PROVE  OneClaimPerRow
<1> SUFFICES ASSUME NEW c \in Codes
    PROVE Cardinality({d \in DOMAIN claims : claims[d].active /\ claims[d].code = c})
            <= Cardinality({n \in 1..MaxRows : StatusActive(<<c, n>>)})
  BY DEF OneClaimPerRow
<1> DEFINE inForce == {d \in DOMAIN claims : claims[d].active /\ claims[d].code = c}
           waiting == {n \in 1..MaxRows : StatusActive(<<c, n>>)}
           found(d, n) == /\ n \in waiting
                          /\ epes[<<c, n>>].ref = IF d \in Orphans THEN None ELSE d
           row == [d \in inForce |-> CHOOSE n \in waiting : found(d, n)]
<1>1. \A d \in inForce : \E n \in waiting : found(d, n)
  <2> SUFFICES ASSUME NEW d \in inForce PROVE \E n \in waiting : found(d, n)
    OBVIOUS
  <2>1. PICK e \in Rows : /\ StatusActive(e) /\ e[1] = c
                          /\ epes[e].ref = IF d \in Orphans THEN None ELSE d
    BY RowOfClaim
  <2>2. e = <<c, e[2]>> /\ e[2] \in 1..MaxRows
    BY <2>1 DEF Rows
  <2>. QED  BY <2>1, <2>2
<1>2. \A d \in inForce : found(d, row[d])
  BY <1>1
<1>3. \A d \in inForce : d # None
  BY RowFacts DEF CInv
<1>4. \A b, d \in inForce : row[b] = row[d] => b = d
  <2> SUFFICES ASSUME NEW b \in inForce, NEW d \in inForce, row[b] = row[d] PROVE b = d
    OBVIOUS
  <2>1. (IF b \in Orphans THEN None ELSE b) = (IF d \in Orphans THEN None ELSE d)
    BY <1>2
  <2>2. b \in Orphans /\ d \in Orphans => b = d
    BY DEF CInv, ClaimsInOrder, OrphansWaitedFor
  <2>. QED  BY <1>3, <2>1, <2>2
<1>5. row \in [inForce -> waiting]
  BY <1>2
<1>6. IsFiniteSet(waiting)
  <2>1. IsFiniteSet(1..MaxRows)
    BY FS_Interval, Bounds
  <2>. QED  BY <2>1, FS_Subset
<1>7. IsFiniteSet(inForce)
  <2>1. PICK n \in Nat : DOMAIN claims = 1..n
    BY TypeParts, LenProperties DEF CInv, RInv, IInv, Typed
  <2>2. IsFiniteSet(DOMAIN claims)
    BY <2>1, FS_Interval
  <2>. QED  BY <2>2, FS_Subset
<1>8. row \in Injection(inForce, waiting)
  BY <1>4, <1>5 DEF Injection, IsInjective
<1>. QED  BY <1>6, <1>7, <1>8, FS_Injection

\* One end product at most is in force for an active row, with one execution
\* at a time: what was established and never recorded is recovered.
THEOREM OneClaimEach == InTurn => (Spec => []OneClaimPerRow)
<1> SUFFICES ASSUME InTurn PROVE Spec => []OneClaimPerRow
  OBVIOUS
<1>1. Init => CInv
  BY InitClaims
<1>2. CInv /\ [Next]_vars => CInv'
  BY ClaimsKept
<1>3. CInv => OneClaimPerRow
  BY ClaimsCounted
<1>. QED  BY <1>1, <1>2, <1>3, PTL DEF Spec

-----------------------------------------------------------------------------
(* Contentions, one execution at a time *)

\* The contention of an issue is of its row's end product, and there as long as
\* the issue is open.
IssuesAndContentions ==
    \A i \in Issues : issue[i].contention # None =>
        /\ epes[issue[i].epe].ref # None
        /\ contentions[issue[i].contention].claim = epes[issue[i].epe].ref
        /\ issue[i].status = "open" => contentions[issue[i].contention].live

\* What an execution is about to match.
MatchingInOrder(w) ==
    /\ job[w].pc \in {"contend", "match"} =>
          \A i \in job[w].ready :
              /\ issue[i].epe = job[w].epe /\ issue[i].contention = None
              /\ \A u \in Updates \intersect processed : i \notin edit[u].removed
    /\ job[w].pc = "contend" =>
          \A i \in Issues : issue[i].epe = job[w].epe /\ issue[i].contention # None
                                => issue[i].contention \in job[w].known
    /\ job[w].pc = "match" =>
          \A k \in job[w].reply :
              /\ contentions[k].claim = job[w].ref[job[w].epe] /\ contentions[k].live
              /\ \A i \in Issues : issue[i].contention # k

\* What an execution is about to take off.
RemovalInOrder(w) ==
    job[w].pc \in After => \A i \in Issues :
        /\ job[w].off[i] # None =>
              job[w].off[i] = issue[i].contention /\ i \in edit[job[w].thing].removed
        /\ i \in edit[job[w].thing].removed /\ issue[i].contention # None =>
              job[w].off[i] # None \/ ~ contentions[issue[i].contention].live

\* What a processed update removed is off.
RemovedIsOff ==
    \A u \in Updates \intersect processed : \A i \in edit[u].removed :
        issue[i].contention # None => ~ contentions[issue[i].contention].live

ContentionsInOrder ==
    /\ ContentionsDistinct /\ IssuesAndContentions /\ RemovedIsOff
    /\ \A w \in Workers : MatchingInOrder(w) /\ RemovalInOrder(w)

KInv == CInv /\ ContentionsInOrder

LEMMA IssueFacts ==
    ASSUME RInv
    PROVE  /\ \A i \in Issues :
                /\ issue[i].contention = None \/ issue[i].contention \in DOMAIN contentions
                /\ issue[i].status = "none" => issue[i].epe = None /\ issue[i].contention = None
                /\ issue[i].status # "none" => issue[i].epe \in Rows /\ epes[issue[i].epe].exists
           /\ \A u \in Updates : \A i \in edit[u].removed : issue[i].status # "none"
           /\ \A u \in Updates : u \in submitted => \A i \in edit[u].removed : issue[i].status # "open"
           /\ processed \subseteq submitted
           /\ \A w \in Workers : /\ job[w].ready \subseteq Issues
                                 /\ job[w].reply \subseteq DOMAIN contentions
                                 /\ job[w].pc # "idle" => job[w].thing \in submitted
                                 /\ job[w].pc \in {"contend", "match"} =>
                                      \A i \in job[w].ready : issue[i].status # "none"
<1>1. Typed /\ RowsInOrder /\ ThingsInOrder /\ (\A u \in Updates : EditInOrder(u))
  BY TypeParts DEF RInv, IInv, Ordered
<1>2. \A i \in Issues :
          /\ issue[i].contention = None \/ issue[i].contention \in DOMAIN contentions
          /\ issue[i].status = "none" => issue[i].epe = None /\ issue[i].contention = None
          /\ issue[i].status # "none" => issue[i].epe \in Rows /\ epes[issue[i].epe].exists
  BY <1>1 DEF Typed, IssueRecords, RowsInOrder
<1>3. ASSUME NEW w \in Workers
      PROVE  /\ job[w].ready \subseteq Issues
             /\ job[w].reply \subseteq DOMAIN contentions
             /\ job[w].pc # "idle" => job[w].thing \in submitted
             /\ job[w].pc \in {"contend", "match"} =>
                  \A i \in job[w].ready : issue[i].status # "none"
  <2>1. job[w] \in JobRecords /\ JobInOrder(w)
    BY RecordTypes DEF RInv, Ordered
  <2>. QED  BY <2>1 DEF JobRecords, JobInOrder
<1>. QED  BY <1>1, <1>2, <1>3 DEF EditInOrder, ThingsInOrder

LEMMA KeyFacts ==
    ASSUME RInv
    PROVE  \A k \in DOMAIN contentions : k # None
<1>1. contentions \in Seq(ContentionRecords(DOMAIN claims))
  BY TypeParts DEF RInv, IInv, Typed
<1>. QED  BY <1>1, LenProperties, NoneAssumption

LEMMA NextKeys ==
    ASSUME IInv'
    PROVE  \A k \in DOMAIN contentions' : k # None
<1>1. contentions' \in Seq(ContentionRecords(DOMAIN claims)')
  BY NextTypeParts DEF IInv, Typed
<1>. QED  BY <1>1, LenProperties, NoneAssumption

\* Issues and contentions that stay, but for issues that are added or closed and
\* contentions that are new.
IssuesKeep ==
    /\ \A i \in Issues :
          /\ issue[i].status # "none" => /\ issue'[i].epe = issue[i].epe
                                         /\ issue'[i].contention = issue[i].contention
                                         /\ issue'[i].status = "open" => issue[i].status = "open"
          /\ issue[i].status = "none" => issue'[i].contention = None
    /\ \A e \in Rows : epes[e].ref # None => epes'[e].ref = epes[e].ref
    /\ \A k \in DOMAIN contentions : contentions'[k] = contentions[k]
    /\ \A u \in Updates \intersect submitted : edit'[u].removed = edit[u].removed

LEMMA ContentionsKeep ==
    ASSUME KInv, IssuesKeep, processed' \subseteq processed \union {Review}
    PROVE  ContentionsDistinct' /\ IssuesAndContentions' /\ RemovedIsOff'
<1>1. ContentionsDistinct /\ IssuesAndContentions /\ RemovedIsOff /\ RInv
  BY DEF KInv, CInv, ContentionsInOrder
<1>2. ContentionsDistinct'
  BY <1>1, IssueFacts DEF ContentionsDistinct, IssuesKeep
<1>3. IssuesAndContentions'
  BY <1>1, IssueFacts DEF IssuesAndContentions, IssuesKeep
<1>4. \A u \in Updates : u \in processed' => u \in processed /\ u \in submitted
  BY <1>1, IssueFacts, ThingsAssumption
<1>5. RemovedIsOff'
  BY <1>1, <1>4, IssueFacts, RowFacts DEF RemovedIsOff, IssuesKeep
<1>. QED  BY <1>2, <1>3, <1>5

LEMMA JobMatches ==
    ASSUME KInv, IssuesKeep, processed' = processed, NEW w \in Workers, job'[w] = job[w]
    PROVE  MatchingInOrder(w)' /\ RemovalInOrder(w)'
<1>1. MatchingInOrder(w) /\ RemovalInOrder(w) /\ RInv
  BY DEF KInv, CInv, ContentionsInOrder
<1>2. MatchingInOrder(w)'
  <2>1. \A u \in Updates \intersect processed : edit'[u].removed = edit[u].removed
    BY <1>1, IssueFacts DEF IssuesKeep
  <2>2. job[w].pc \in {"contend", "match"} =>
            \A i \in job[w].ready : /\ i \in Issues /\ issue'[i].epe = issue[i].epe
                                    /\ issue'[i].contention = issue[i].contention
    BY <1>1, IssueFacts DEF IssuesKeep
  <2>3. \A i \in Issues : \/ issue'[i].contention = None
                          \/ /\ issue'[i].contention = issue[i].contention
                             /\ issue'[i].epe = issue[i].epe
    BY DEF IssuesKeep
  <2>4. \A k \in job[w].reply : contentions'[k] = contentions[k] /\ k # None
    BY <1>1, IssueFacts, KeyFacts DEF IssuesKeep
  <2>. QED  BY <1>1, <2>1, <2>2, <2>3, <2>4 DEF MatchingInOrder
<1>3. RemovalInOrder(w)'
  <2>1. CASE job[w].pc \in After
    <3>1. job[w].thing \in Updates \intersect submitted
      BY <1>1, <2>1, IssueFacts, WorkerFacts, PcIn
    <3>2. edit'[job[w].thing].removed = edit[job[w].thing].removed
      BY <3>1 DEF IssuesKeep
    <3>3. \A i \in edit[job[w].thing].removed :
             /\ i \in Issues /\ issue'[i].contention = issue[i].contention
             /\ issue[i].contention # None =>
                  contentions'[issue[i].contention] = contentions[issue[i].contention]
      BY <1>1, <3>1, IssueFacts, RowFacts DEF IssuesKeep
    <3>. QED  BY <1>1, <2>1, <3>2, <3>3 DEF RemovalInOrder
  <2>. QED  BY <2>1 DEF RemovalInOrder
<1>. QED  BY <1>2, <1>3

LEMMA IdleMatches ==
    ASSUME NEW w \in Workers, job'[w].pc \in {"idle", "next", "claim", "save"}
    PROVE  MatchingInOrder(w)' /\ RemovalInOrder(w)'
BY PcIn DEF MatchingInOrder, RemovalInOrder

LEMMA InitContentions ==
    ASSUME Init
    PROVE  KInv
<1>1. CInv
  BY InitClaims
<1>2. /\ processed = {} /\ job = [w \in Workers |-> Idle]
  BY DEF Init
<1>3. \A i \in Issues : issue[i].contention = None
  <2>1. PICK open \in SUBSET (Issues \ Added) \ {{}} :
          issue = [i \in Issues |->
                IF i \in open THEN [NoIssue EXCEPT !.status = "open", !.epe = <<Code(i), 1>>]
                ELSE NoIssue]
    BY Zenon DEF Init
  <2>. QED  BY <2>1 DEF NoIssue
<1>4. ContentionsDistinct /\ IssuesAndContentions /\ RemovedIsOff
  BY <1>2, <1>3 DEF ContentionsDistinct, IssuesAndContentions, RemovedIsOff
<1>5. \A w \in Workers : MatchingInOrder(w) /\ RemovalInOrder(w)
  BY <1>2, PcIn DEF MatchingInOrder, RemovalInOrder, Idle
<1>. QED  BY <1>1, <1>4, <1>5 DEF KInv, ContentionsInOrder

LEMMA UsersContentions ==
    ASSUME KInv, NEW u \in Updates,
           CommitUpdate(u) \/ \E removed, added \in SUBSET Issues : BeginUpdate(u, removed, added)
    PROVE  ContentionsInOrder'
<1>1. RInv /\ IInv /\ (\A v \in Updates : EditInOrder(v))
  BY DEF KInv, CInv, RInv, Ordered
<1>2. SUFFICES IssuesKeep /\ UNCHANGED <<processed, job>>
  BY ContentionsKeep, JobMatches DEF ContentionsInOrder
<1>3. CASE CommitUpdate(u)
  <2>1. UNCHANGED <<contentions, processed, job>>
    BY <1>3 DEF CommitUpdate, vbms
  <2>2. /\ edit'[u].removed = edit[u].removed
        /\ \A v \in Updates : v # u => edit'[v] = edit[v]
        /\ \A e \in Rows : \/ epes'[e] = epes[e]
                           \/ ~ epes[e].exists
        /\ \A i \in Issues :
              IF i \in edit[u].added
              THEN issue'[i].contention = None
              ELSE /\ issue'[i].epe = issue[i].epe /\ issue'[i].contention = issue[i].contention
                   /\ issue'[i].status = IF i \in edit[u].removed THEN "removed"
                                         ELSE issue[i].status
    BY <1>1, <1>3, CommitDoes
  <2>3. \A i \in edit[u].added : issue[i].status = "none"
    BY <1>1 DEF EditInOrder
  <2>. QED  BY <1>1, <2>1, <2>2, <2>3, RowFacts, IssueFacts DEF IssuesKeep
<1>4. ASSUME NEW removed \in SUBSET Issues, NEW added \in SUBSET Issues, BeginUpdate(u, removed, added)
      PROVE  IssuesKeep /\ UNCHANGED <<processed, job>>
  <2>1. UNCHANGED <<contentions, processed, job, epes, issue>> /\ edit[u].phase = "none"
    BY <1>4 DEF BeginUpdate, vbms, async
  <2>2. u \notin submitted
    BY <1>1, <2>1 DEF EditInOrder
  <2>3. edit \in [Updates -> EditRecords]
    BY <1>1, TypeParts DEF IInv, Typed
  <2>4. \A v \in Updates : v # u => edit'[v] = edit[v]
    BY <1>4, <2>3 DEF BeginUpdate
  <2>. QED  BY <1>1, <2>1, <2>2, <2>4, IssueFacts DEF IssuesKeep
<1>. QED  BY <1>3, <1>4

\* handle_cancelled_ep! closes issues and nothing else of them.
LEMMA CancelledKeep ==
    ASSUME RInv, NEW e \in Rows, HandleCancelledEp(e), UNCHANGED <<contentions, edit>>
    PROVE  IssuesKeep
<1>1. IInv
  BY DEF RInv
<1>. QED  BY <1>1, CancelledDoes, IssueFacts DEF IssuesKeep, ActiveIssues

LEMMA SameKeep ==
    ASSUME RInv, UNCHANGED <<issue, contentions, edit>>,
           \A e \in Rows : epes[e].ref # None => epes'[e].ref = epes[e].ref
    PROVE  IssuesKeep
BY IssueFacts DEF IssuesKeep

LEMMA OthersContentions ==
    ASSUME KInv,
           \/ \E t \in Things : Requeue(t)
           \/ \E c \in DOMAIN claims : CancelUpstream(c)
           \/ Sync
    PROVE  ContentionsInOrder'
<1>1. RInv /\ SyncKnows
  BY DEF KInv, CInv, ClaimsInOrder
<1>2. SUFFICES IssuesKeep /\ UNCHANGED <<processed, job>>
  BY ContentionsKeep, JobMatches DEF ContentionsInOrder
<1>3. CASE \E t \in Things : Requeue(t)
  BY <1>1, <1>3, SameKeep DEF Requeue, vbms, async
<1>4. CASE \E c \in DOMAIN claims : CancelUpstream(c)
  BY <1>1, <1>4, SameKeep DEF CancelUpstream, async
<1>5. CASE \E e \in Rows : FetchResult(e)
  BY <1>1, <1>5, SameKeep DEF FetchResult, vbms, async
<1>6. CASE SaveResult
  <2>1. UNCHANGED <<contentions, edit, processed, job>> /\ sync \in Rows /\ HandleCancelledEp(sync)
    BY <1>1, <1>6, RowFacts DEF SaveResult, vbms
  <2>. QED  BY <1>1, <2>1, CancelledKeep
<1>. QED  BY <1>3, <1>4, <1>5, <1>6 DEF Sync

LEMMA StartContentions ==
    ASSUME KInv, InTurn, NEW w \in Workers, NEW t \in Things, StartJob(w, t)
    PROVE  ContentionsInOrder'
<1>1. RInv /\ IInv
  BY DEF KInv, CInv, RInv
<1>2. UNCHANGED <<processed, epes, issue, edit, contentions>> /\ job'[w].pc = "next"
  BY <1>1, StartDoes DEF async, vbms
<1>. QED  BY <1>1, <1>2, SameKeep, ContentionsKeep, IdleMatches DEF InTurn, ContentionsInOrder

LEMMA AbortContentions ==
    ASSUME KInv, InTurn, NEW w \in Workers, Abort(w)
    PROVE  ContentionsInOrder'
<1>1. RInv /\ IInv
  BY DEF KInv, CInv, RInv
<1>2. UNCHANGED <<processed, epes, issue, edit, contentions>> /\ job'[w].pc = "idle"
  BY <1>1, AbortDoes DEF async, vbms
<1>. QED  BY <1>1, <1>2, SameKeep, ContentionsKeep, IdleMatches DEF InTurn, ContentionsInOrder

\* The steps before the contentions of a row are read, and those that end.
LEMMA EstablishContentions ==
    ASSUME KInv, InTurn, NEW w \in Workers,
           \/ \E e \in Rows : Recover(w, e)
           \/ Claim(w) \/ SaveClaim(w) \/ Matched(w)
    PROVE  ContentionsInOrder'
<1>1. RInv /\ IInv /\ RefsKnown(w)
  BY DEF KInv, CInv, RInv, ClaimsInOrder
<1>2. SUFFICES /\ UNCHANGED <<issue, contentions, edit, processed>>
               /\ \A e \in Rows : epes[e].ref # None => epes'[e].ref = epes[e].ref
               /\ job'[w].pc \in {"idle", "next", "claim", "save"}
  BY <1>1, SameKeep, ContentionsKeep, IdleMatches DEF InTurn, ContentionsInOrder
<1>3. ASSUME NEW e \in Rows, Recover(w, e)
      PROVE  /\ UNCHANGED <<issue, contentions, edit, processed>>
             /\ \A f \in Rows : epes[f].ref # None => epes'[f].ref = epes[f].ref
             /\ job'[w].pc \in {"idle", "next", "claim", "save"}
  <2>1. /\ UNCHANGED <<issue, contentions, edit, processed>>
        /\ job[w].pc = "next" /\ job[w].ref[e] = None
        /\ job'[w].pc \in {"next", "claim"}
        /\ \A f \in Rows : f # e => epes'[f].ref = epes[f].ref
    BY <1>1, <1>3, RecoverDoes DEF async, vbms
  <2>2. epes[e].ref = None
    BY <1>1, <2>1, PcIn DEF RefsKnown
  <2>. QED  BY <2>1, <2>2
<1>4. CASE SaveClaim(w)
  <2>1. /\ UNCHANGED <<issue, contentions, edit, processed>>
        /\ job[w].pc = "save" /\ job'[w].pc = "next"
        /\ \A f \in Rows : f # job[w].epe => epes'[f].ref = epes[f].ref
    BY <1>1, <1>4, SaveClaimDoes DEF async, vbms
  <2>2. epes[job[w].epe].ref = None
    BY <1>1, <2>1, PcIn DEF RefsKnown
  <2>. QED  BY <2>1, <2>2
<1>5. CASE Claim(w)
  <2>1. UNCHANGED <<issue, contentions, edit, processed, epes>> /\ job'[w].pc \in {"idle", "save"}
    BY <1>1, <1>5, ClaimDoes DEF async
  <2>. QED  BY <2>1
<1>6. CASE Matched(w)
  <2>1. UNCHANGED <<issue, contentions, edit, processed, epes>> /\ job'[w].pc \in {"idle", "next"}
    BY <1>1, <1>6, MatchedDoes DEF async, vbms
  <2>. QED  BY <2>1
<1>. QED  BY <1>3, <1>4, <1>5, <1>6

LEMMA ReadContentions ==
    ASSUME KInv, InTurn, NEW w \in Workers, NEW e \in Rows, ReadRecords(w, e)
    PROVE  ContentionsInOrder'
<1>1. RInv /\ IInv
  BY DEF KInv, CInv, RInv
<1>2. UNCHANGED <<processed, epes, issue, edit, contentions>>
  BY <1>1, ReadRecordsDoes DEF async, vbms
<1>3. ContentionsDistinct' /\ IssuesAndContentions' /\ RemovedIsOff'
  BY <1>1, <1>2, SameKeep, ContentionsKeep
<1>4. CASE job'[w].pc = "next"
  BY <1>3, <1>4, IdleMatches DEF InTurn, ContentionsInOrder
<1>5. CASE /\ job'[w].pc = "contend" /\ job'[w].epe = e
           /\ job'[w].ready = {i \in ActiveIssues(e) : issue[i].contention = None}
           /\ job'[w].known = KnownContentions(e)
  <2>1. \A i \in job'[w].ready : /\ issue[i].epe = e /\ issue[i].contention = None
                                 /\ \A u \in Updates \intersect processed : i \notin edit[u].removed
    BY <1>1, <1>5, IssueFacts DEF ActiveIssues
  <2>2. \A i \in Issues : issue[i].epe = e /\ issue[i].contention # None
                             => issue[i].contention \in job'[w].known
    BY <1>5 DEF KnownContentions
  <2>3. MatchingInOrder(w)' /\ RemovalInOrder(w)'
    BY <1>2, <1>5, <2>1, <2>2, PcIn DEF MatchingInOrder, RemovalInOrder
  <2>. QED  BY <1>3, <2>3 DEF InTurn, ContentionsInOrder
<1>. QED  BY <1>1, <1>4, <1>5, ReadRecordsDoes

\* What is new to the execution is the contention of no issue.
LEMMA ContendContentions ==
    ASSUME KInv, InTurn, NEW w \in Workers, NEW order \in Orders(Issues), Contend(w, order)
    PROVE  ContentionsInOrder'
<1>1. /\ RInv /\ IInv /\ RowsAndClaims /\ RefsKnown(w) /\ MatchingInOrder(w) /\ IssuesAndContentions
  BY DEF KInv, CInv, RInv, ClaimsInOrder, ContentionsInOrder
<1>2. /\ UNCHANGED <<processed, epes, issue, edit>>
      /\ job[w].pc = "contend" /\ job[w].epe \in Rows /\ job[w].ref[job[w].epe] # None
  BY <1>1, ContendDoes DEF async
<1>3. CASE contentions' = contentions /\ job'[w].pc = "idle"
  BY <1>1, <1>2, <1>3, SameKeep, ContentionsKeep, IdleMatches DEF InTurn, ContentionsInOrder
<1>4. CASE /\ DOMAIN contentions \subseteq DOMAIN contentions'
           /\ \A k \in DOMAIN contentions : contentions'[k] = contentions[k]
           /\ job'[w].pc = "match" /\ job'[w].epe = job[w].epe
           /\ job'[w].ref = job[w].ref /\ job'[w].ready = job[w].ready
           /\ job'[w].reply = {k \in DOMAIN contentions' :
                 contentions'[k].claim = job[w].ref[job[w].epe] /\ contentions'[k].live} \ job[w].known
  <2>1. IssuesKeep
    BY <1>1, <1>2, <1>4, IssueFacts DEF IssuesKeep
  <2>2. ContentionsDistinct' /\ IssuesAndContentions' /\ RemovedIsOff'
    BY <1>2, <2>1, ContentionsKeep
  <2>3. ASSUME NEW k \in job'[w].reply, NEW i \in Issues
        PROVE  issue[i].contention # k
    <3> SUFFICES ASSUME issue[i].contention = k PROVE FALSE
      OBVIOUS
    <3>1. k # None
      <4>1. IInv' /\ k \in DOMAIN contentions'
        BY <1>1, <1>4, ContendDoes
      <4>. QED  BY <4>1, NextKeys
    <3>2. k \in DOMAIN contentions /\ issue[i].status # "none" /\ issue[i].epe \in Rows
      BY <1>1, <3>1, IssueFacts
    <3>3. contentions[k].claim = job[w].ref[job[w].epe] /\ k \notin job[w].known
      BY <1>4, <3>2
    <3>4. job[w].ref[job[w].epe] = epes[job[w].epe].ref
      BY <1>1, <1>2, PcIn DEF RefsKnown
    <3>5. epes[issue[i].epe].ref = epes[job[w].epe].ref
      BY <1>1, <3>1, <3>3, <3>4 DEF IssuesAndContentions
    <3>6. issue[i].epe = job[w].epe
      BY <1>1, <1>2, <3>2, <3>4, <3>5 DEF RowsAndClaims
    <3>. QED  BY <1>1, <1>2, <3>1, <3>3, <3>6 DEF MatchingInOrder
  <2>4. MatchingInOrder(w)' /\ RemovalInOrder(w)'
    BY <1>1, <1>2, <1>4, <2>3, PcIn DEF MatchingInOrder, RemovalInOrder
  <2>. QED  BY <2>2, <2>4 DEF InTurn, ContentionsInOrder
<1>. QED  BY <1>1, <1>2, <1>3, <1>4, ContendDoes

LEMMA MatchContentions ==
    ASSUME KInv, InTurn, NEW w \in Workers, NEW k \in DOMAIN contentions, NEW i \in Issues, Match(w, k, i)
    PROVE  ContentionsInOrder'
<1>1. /\ RInv /\ IInv /\ RefsKnown(w) /\ MatchingInOrder(w)
      /\ ContentionsDistinct /\ IssuesAndContentions /\ RemovedIsOff
  BY DEF KInv, CInv, RInv, ClaimsInOrder, ContentionsInOrder
<1>2. /\ UNCHANGED <<processed, epes, edit, contentions>>
      /\ job[w].pc = "match" /\ job[w].epe \in Rows /\ k \in job[w].reply /\ i \in job[w].ready
      /\ \A j \in Issues : /\ issue'[j].status = issue[j].status /\ issue'[j].epe = issue[j].epe
                           /\ issue'[j].contention = IF j = i THEN k ELSE issue[j].contention
      /\ job'[w].pc = "match" /\ job'[w].ref = job[w].ref /\ job'[w].epe = job[w].epe
      /\ job'[w].reply = job[w].reply \ {k} /\ job'[w].ready = job[w].ready \ {i}
  BY <1>1, MatchDoes DEF async, vbms
<1>3. /\ issue[i].epe = job[w].epe /\ issue[i].contention = None
      /\ \A u \in Updates \intersect processed : i \notin edit[u].removed
      /\ contentions[k].claim = job[w].ref[job[w].epe] /\ contentions[k].live
      /\ \A j \in Issues : issue[j].contention # k
  BY <1>1, <1>2 DEF MatchingInOrder
<1>4. job[w].ref[job[w].epe] = epes[job[w].epe].ref /\ job[w].ref[job[w].epe] # None /\ k # None
  BY <1>1, <1>2, WorkerFacts, KeyFacts, PcIn DEF RefsKnown
<1>5. ContentionsDistinct'
  BY <1>1, <1>2, <1>3 DEF ContentionsDistinct
<1>6. IssuesAndContentions'
  BY <1>1, <1>2, <1>3, <1>4 DEF IssuesAndContentions
<1>7. RemovedIsOff'
  BY <1>1, <1>2, <1>3, RowFacts DEF RemovedIsOff
<1>8. \A j \in job[w].ready : j \in Issues
  BY <1>1, IssueFacts
<1>9. MatchingInOrder(w)' /\ RemovalInOrder(w)'
  BY <1>1, <1>2, <1>3, <1>8, PcIn DEF MatchingInOrder, RemovalInOrder
<1>. QED  BY <1>5, <1>6, <1>7, <1>9 DEF InTurn, ContentionsInOrder

LEMMA ReviewContentions ==
    ASSUME KInv, InTurn, NEW w \in Workers, ProcessReview(w)
    PROVE  ContentionsInOrder'
<1>1. /\ RInv /\ IInv
  BY DEF KInv, CInv, RInv
<1>2. UNCHANGED <<epes, issue, edit, contentions>> /\ processed' = processed \union {Review}
  BY <1>1, ProcessReviewDoes DEF vbms
<1>3. ContentionsDistinct' /\ IssuesAndContentions' /\ RemovedIsOff'
  BY <1>1, <1>2, SameKeep, ContentionsKeep
<1>4. CASE job'[w].pc = "idle"
  BY <1>3, <1>4, IdleMatches DEF InTurn, ContentionsInOrder
<1>5. CASE /\ job[w].thing \in Updates /\ job'[w].thing = job[w].thing /\ job'[w].pc = "off"
           /\ \A i \in Issues : job'[w].off[i] =
                 IF i \in edit[job[w].thing].removed /\ issue[i].epe # None
                 THEN issue[i].contention ELSE None
  <2>1. \A i \in edit[job[w].thing].removed : issue[i].epe # None
    BY <1>1, <1>5, RowFacts
  <2>2. MatchingInOrder(w)' /\ RemovalInOrder(w)'
    BY <1>2, <1>5, <2>1, PcIn DEF MatchingInOrder, RemovalInOrder
  <2>. QED  BY <1>3, <2>2 DEF InTurn, ContentionsInOrder
<1>. QED  BY <1>1, <1>4, <1>5, ProcessReviewDoes

LEMMA RemoveContentions ==
    ASSUME KInv, InTurn, NEW w \in Workers, NEW i \in Issues, RemoveContention(w, i)
    PROVE  ContentionsInOrder'
<1>1. /\ RInv /\ IInv /\ RemovalInOrder(w)
      /\ ContentionsDistinct /\ IssuesAndContentions /\ RemovedIsOff
  BY DEF KInv, CInv, RInv, ContentionsInOrder
<1>2. /\ UNCHANGED <<processed, epes, issue, edit>>
      /\ job[w].pc = "off" /\ job[w].off[i] # None
      /\ \A k \in DOMAIN contentions :
            /\ contentions'[k].claim = contentions[k].claim
            /\ contentions'[k].live <=> contentions[k].live /\ k # job[w].off[i]
      /\ job'[w].pc = "off" /\ job'[w].thing = job[w].thing
      /\ \A j \in Issues : job'[w].off[j] = IF j = i THEN None ELSE job[w].off[j]
  BY <1>1, RemoveContentionDoes DEF async
<1>3. /\ job[w].off[i] = issue[i].contention /\ issue[i].contention \in DOMAIN contentions
      /\ issue[i].status # "open" /\ job[w].thing \in Updates
  BY <1>1, <1>2, IssueFacts, WorkerFacts, PcIn DEF RemovalInOrder
<1>4. ContentionsDistinct' /\ RemovedIsOff'
  BY <1>1, <1>2, IssueFacts, RowFacts DEF ContentionsDistinct, RemovedIsOff
<1>5. IssuesAndContentions'
  <2>1. \A j \in Issues : j # i /\ issue[j].contention # None => issue[j].contention # issue[i].contention
    BY <1>1 DEF ContentionsDistinct
  <2>. QED  BY <1>1, <1>2, <1>3, <2>1, IssueFacts DEF IssuesAndContentions
<1>6. MatchingInOrder(w)'
  BY <1>2, PcIn DEF MatchingInOrder
<1>7. RemovalInOrder(w)'
  BY <1>1, <1>2, <1>3, IssueFacts, PcIn DEF RemovalInOrder
<1>. QED  BY <1>4, <1>5, <1>6, <1>7 DEF InTurn, ContentionsInOrder

LEMMA CancelContentions ==
    ASSUME KInv, InTurn, NEW w \in Workers,
           (\E e \in Rows : CheckUnused(w, e)) \/ CancelClaim(w) \/ SaveCancel(w)
    PROVE  ContentionsInOrder'
<1>1. /\ RInv /\ IInv /\ RemovalInOrder(w)
  BY DEF KInv, CInv, RInv, ContentionsInOrder
<1>2. SUFFICES /\ IssuesKeep /\ UNCHANGED <<contentions, edit, processed>>
               /\ \A i \in Issues : issue'[i].contention = issue[i].contention
               /\ job[w].pc \in After /\ job'[w].pc \in After
               /\ job'[w].thing = job[w].thing /\ job'[w].off = job[w].off
  <2>1. RemovalInOrder(w)' /\ MatchingInOrder(w)'
    BY <1>1, <1>2, PcIn DEF RemovalInOrder, MatchingInOrder
  <2>. QED  BY <1>2, <2>1, ContentionsKeep DEF InTurn, ContentionsInOrder
<1>3. ASSUME NEW e \in Rows, CheckUnused(w, e)
      PROVE  /\ UNCHANGED <<contentions, edit, processed, issue, epes>>
             /\ job[w].pc \in After /\ job'[w].pc \in After
             /\ job'[w].thing = job[w].thing /\ job'[w].off = job[w].off
  BY <1>1, <1>3, CheckUnusedDoes, PcIn DEF async, vbms
<1>4. CASE CancelClaim(w)
  <2>1. /\ UNCHANGED <<contentions, edit, processed, issue, epes>>
        /\ job[w].pc \in After /\ job'[w].pc \in After
        /\ job'[w].thing = job[w].thing /\ job'[w].off = job[w].off
    BY <1>1, <1>4, CancelClaimDoes, PcIn DEF async
  <2>. QED  BY <1>1, <2>1, SameKeep
<1>5. CASE SaveCancel(w)
  <2>1. /\ UNCHANGED <<contentions, edit, processed>>
        /\ HandleCancelledEp(job[w].epe) /\ job[w].epe \in Rows
        /\ job[w].pc \in After /\ job'[w].pc \in After
        /\ job'[w].thing = job[w].thing /\ job'[w].off = job[w].off
    BY <1>1, <1>5, SaveCancelDoes, PcIn DEF vbms
  <2>2. \A i \in Issues : issue'[i].contention = issue[i].contention
    BY <1>1, <2>1, CancelledDoes
  <2>. QED  BY <1>1, <2>1, <2>2, CancelledKeep
<1>. QED  BY <1>1, <1>3, <1>4, <1>5, SameKeep

\* An update ends once the contentions of all it removed are off.
LEMMA EndContentions ==
    ASSUME KInv, InTurn, NEW w \in Workers, ProcessUpdate(w)
    PROVE  ContentionsInOrder'
<1>1. /\ RInv /\ IInv /\ RemovalInOrder(w)
      /\ ContentionsDistinct /\ IssuesAndContentions /\ RemovedIsOff
  BY DEF KInv, CInv, RInv, ContentionsInOrder
<1>2. /\ UNCHANGED <<epes, issue, edit, contentions>>
      /\ job[w].pc = "off" /\ \A i \in Issues : job[w].off[i] = None
  BY <1>1, ProcessUpdateDoes DEF vbms
<1>3. job[w].thing \in Updates /\ processed' = processed \union {job[w].thing} /\ job'[w].pc = "idle"
  BY <1>1, ProcessUpdateDoes
<1>4. \A i \in edit[job[w].thing].removed :
          issue[i].contention # None => ~ contentions[issue[i].contention].live
  BY <1>1, <1>2, <1>3, RowFacts, PcIn DEF RemovalInOrder
<1>5. RemovedIsOff'
  BY <1>1, <1>2, <1>3, <1>4 DEF RemovedIsOff
<1>6. ContentionsDistinct' /\ IssuesAndContentions'
  BY <1>1, <1>2 DEF ContentionsDistinct, IssuesAndContentions
<1>. QED  BY <1>3, <1>5, <1>6, IdleMatches DEF InTurn, ContentionsInOrder

LEMMA ContentionsKept ==
    ASSUME KInv, InTurn, [Next]_vars
    PROVE  KInv'
<1>1. CInv /\ RInv
  BY DEF KInv, CInv
<1>2. SUFFICES ContentionsInOrder'
  BY <1>1, ClaimsKept DEF KInv
<1>3. CASE UNCHANGED vars
  BY <1>1, <1>3, SameKeep, ContentionsKeep, JobMatches DEF ContentionsInOrder, vars, vbms, async
<1>4. ASSUME NEW w \in Workers, Work(w) PROVE ContentionsInOrder'
  BY <1>4, EstablishContentions, ReadContentions, ContendContentions, MatchContentions,
     ReviewContentions, RemoveContentions, CancelContentions, EndContentions DEF Work
<1>5. CASE Next
  BY <1>4, <1>5, UsersContentions, OthersContentions, StartContentions, AbortContentions DEF Next
<1>. QED  BY <1>3, <1>5

\* No two issues share a contention, with one execution at a time, whatever
\* contentions of lost replies are on the claim.
THEOREM ContentionsApart == InTurn => (Spec => []ContentionsDistinct)
<1> SUFFICES ASSUME InTurn PROVE Spec => []ContentionsDistinct
  OBVIOUS
<1>1. Init => KInv
  BY InitContentions
<1>2. KInv /\ [Next]_vars => KInv'
  BY ContentionsKept
<1>3. KInv => ContentionsDistinct
  BY DEF KInv, ContentionsInOrder
<1>. QED  BY <1>1, <1>2, <1>3, PTL DEF Spec

-----------------------------------------------------------------------------
(* What is left to do, one execution at a time *)

\* The open issues that have no contention yet.
Uncontended == {i \in Issues : /\ issue[i].status = "open" /\ StatusActive(issue[i].epe)
                               /\ issue[i].contention = None}

Unprocessed == (Updates \intersect submitted) \ processed

\* An execution deals with each of them, or another update is to come.
ContentionsToCome(w) ==
    Unprocessed \subseteq {job[w].thing} =>
          /\ job[w].pc \in Before => \A i \in Uncontended :
                /\ issue[i].epe \in job[w].todo
                /\ job[w].pc \in {"contend", "match"} /\ issue[i].epe = job[w].epe
                      => i \in job[w].ready
          /\ job[w].pc \in After => Uncontended = {}

\* An unprocessed update has removed an issue of the row.
Emptiers(e) == {v \in Unprocessed : \E i \in edit[v].removed : issue[i].epe = e}

\* A row without open issues has been emptied by one, or is inactive.
EmptiedIsSeen ==
    \A e \in Rows : StatusActive(e) /\ ActiveIssues(e) = {} => Emptiers(e) # {}

\* An execution deals with the rows its update has emptied.
CancellationsToCome(w) ==
    job[w].pc \in After => \A i \in edit[job[w].thing].removed :
        LET e == issue[i].epe
        IN  StatusActive(e) /\ ActiveIssues(e) = {} =>
                e \in job[w].unused \/ ~ (Emptiers(e) \subseteq {job[w].thing})

WorkInOrder ==
    /\ submitted \subseteq processed => Uncontended = {}
    /\ EmptiedIsSeen
    /\ \A w \in Workers : ContentionsToCome(w) /\ CancellationsToCome(w)

WInv == KInv /\ WorkInOrder

\* Nothing is left to do that was not before.
WorkStays ==
    /\ UNCHANGED <<submitted, Unprocessed>>
    /\ \A u \in Updates \intersect submitted : edit'[u].removed = edit[u].removed
    /\ \A i \in Issues : /\ issue'[i].epe = issue[i].epe
                         /\ issue'[i].contention = None => issue[i].contention = None
                         /\ issue'[i].status = "open" => issue[i].status = "open"
    /\ \A e \in Rows : StatusActive(e)' => StatusActive(e) /\ ActiveIssues(e)' = ActiveIssues(e)

LEMMA WorkFacts ==
    ASSUME WInv
    PROVE  /\ RInv /\ IInv /\ processed \subseteq submitted
           /\ \A i \in Issues : issue[i].status = "open" => issue[i].epe \in Rows
           /\ \A u \in Updates : \A i \in edit[u].removed : i \in Issues /\ issue[i].epe \in Rows
           /\ \A e \in Rows : \A v : v \in Emptiers(e) <=>
                 v \in Unprocessed /\ \E i \in edit[v].removed : issue[i].epe = e
           /\ \A v : v \in Unprocessed <=> v \in Updates /\ v \in submitted /\ v \notin processed
           /\ \A w \in Workers : /\ job[w].pc # "idle" => job[w].thing \in submitted
                                 /\ job[w].pc \in After => job[w].thing \in Updates
BY IssueFacts, RowFacts, WorkerFacts DEF WInv, KInv, CInv, RInv, Emptiers, Unprocessed

LEMMA LeftStays ==
    ASSUME WInv, WorkStays
    PROVE  /\ Uncontended' \subseteq Uncontended
           /\ \A e \in Rows : Emptiers(e)' = Emptiers(e)
           /\ EmptiedIsSeen'
<1>1. \A i \in Issues : issue[i].status = "open" => issue[i].epe \in Rows
  BY WorkFacts
<1>2. Uncontended' \subseteq Uncontended
  BY <1>1 DEF Uncontended, WorkStays
<1>3. ASSUME NEW e \in Rows PROVE Emptiers(e)' = Emptiers(e)
  <2>1. \A v \in Unprocessed : /\ edit'[v].removed = edit[v].removed
                               /\ \A i \in edit[v].removed : issue'[i].epe = issue[i].epe
    BY WorkFacts DEF WorkStays
  <2>2. Unprocessed' = Unprocessed
    BY DEF WorkStays
  <2>. QED  BY <2>1, <2>2 DEF Emptiers
<1>4. EmptiedIsSeen'
  BY <1>3 DEF WInv, WorkInOrder, EmptiedIsSeen, WorkStays
<1>. QED  BY <1>2, <1>3, <1>4

\* All that is submitted stays processed or not.
LEMMA SettledStays ==
    ASSUME WInv, WorkStays, processed' = processed
    PROVE  submitted' \subseteq processed' => Uncontended' = {}
BY LeftStays DEF WInv, WorkInOrder, WorkStays

LEMMA JobWork ==
    ASSUME WInv, WorkStays, NEW w \in Workers, job'[w] = job[w]
    PROVE  ContentionsToCome(w)' /\ CancellationsToCome(w)'
<1>1. ContentionsToCome(w) /\ CancellationsToCome(w)
  BY DEF WInv, WorkInOrder
<1>2. ContentionsToCome(w)'
  <2>1. Uncontended \subseteq Issues /\ Uncontended' \subseteq Uncontended
    BY LeftStays DEF Uncontended
  <2>. QED  BY <1>1, <2>1 DEF ContentionsToCome, WorkStays
<1>3. CancellationsToCome(w)'
  <2> SUFFICES ASSUME job[w].pc \in After PROVE CancellationsToCome(w)'
    BY DEF CancellationsToCome
  <2>1. job[w].thing \in Updates \intersect submitted
    BY WorkFacts, PcIn
  <2>2. /\ edit'[job[w].thing].removed = edit[job[w].thing].removed
        /\ \A i \in edit[job[w].thing].removed : /\ issue'[i].epe = issue[i].epe
                                                 /\ issue[i].epe \in Rows
    BY <2>1, WorkFacts DEF WorkStays
  <2>. QED  BY <1>1, <2>2, LeftStays DEF CancellationsToCome, WorkStays
<1>. QED  BY <1>2, <1>3

LEMMA IdleWork ==
    ASSUME NEW w \in Workers, job'[w].pc = "idle"
    PROVE  ContentionsToCome(w)' /\ CancellationsToCome(w)'
BY PcIn DEF ContentionsToCome, CancellationsToCome

\* Rows and issues that stay as they are, or one row that is marked cancelled.
LEMMA SameWork ==
    ASSUME UNCHANGED <<submitted, processed, edit>>,
           \A i \in Issues : /\ issue'[i].epe = issue[i].epe /\ issue'[i].status = issue[i].status
                             /\ issue'[i].contention = None => issue[i].contention = None,
           \A e \in Rows : epes'[e].exists = epes[e].exists /\ epes'[e].synced = epes[e].synced
    PROVE  WorkStays
<1>1. Unprocessed' = Unprocessed
  BY DEF Unprocessed
<1>2. \A e \in Rows : StatusActive(e)' = StatusActive(e) /\ ActiveIssues(e)' = ActiveIssues(e)
  BY DEF StatusActive, Exists, ActiveIssues
<1>. QED  BY <1>1, <1>2 DEF WorkStays

LEMMA CancelledWork ==
    ASSUME IInv, UNCHANGED <<submitted, processed, edit>>, NEW e \in Rows, HandleCancelledEp(e)
    PROVE  WorkStays /\ ~ StatusActive(e)'
<1>1. Unprocessed' = Unprocessed
  BY DEF Unprocessed
<1>2. /\ \A f \in Rows : /\ epes'[f].exists = epes[f].exists
                         /\ epes'[f].synced = IF f = e THEN "CAN" ELSE epes[f].synced
      /\ \A i \in Issues :
            /\ issue'[i].epe = issue[i].epe /\ issue'[i].contention = issue[i].contention
            /\ issue'[i].status = IF i \in ActiveIssues(e) THEN "end_product_canceled"
                                  ELSE issue[i].status
  BY CancelledDoes
<1>3. ~ StatusActive(e)'
  BY <1>2, NoneAssumption DEF StatusActive
<1>4. \A f \in Rows : StatusActive(f)' => StatusActive(f) /\ ActiveIssues(f)' = ActiveIssues(f)
  BY <1>2, <1>3 DEF StatusActive, Exists, ActiveIssues
<1>. QED  BY <1>1, <1>2, <1>3, <1>4 DEF WorkStays

LEMMA InitWork ==
    ASSUME Init
    PROVE  WInv
<1>1. KInv
  BY InitContentions
<1>2. /\ submitted = {Review} /\ processed = {} /\ job = [w \in Workers |-> Idle]
  BY DEF Init
<1>3. PICK open \in SUBSET (Issues \ Added) \ {{}} :
          /\ epes = [e \in Rows |->
                [NoRow EXCEPT !.exists = e[2] = 1 /\ \E i \in open : Code(i) = e[1]]]
          /\ issue = [i \in Issues |->
                IF i \in open THEN [NoIssue EXCEPT !.status = "open", !.epe = <<Code(i), 1>>]
                ELSE NoIssue]
  BY Zenon DEF Init
<1>4. \A e \in Rows : epes[e].exists = (e[2] = 1 /\ \E i \in open : Code(i) = e[1])
  BY <1>3 DEF NoRow
<1>5. \A i \in open : i \in Issues /\ issue[i].status = "open" /\ issue[i].epe = <<Code(i), 1>>
  BY <1>3 DEF NoIssue
<1>6. \A e \in Rows : StatusActive(e) => ActiveIssues(e) # {}
  <2> SUFFICES ASSUME NEW e \in Rows, StatusActive(e) PROVE ActiveIssues(e) # {}
    OBVIOUS
  <2>1. PICK i \in open : Code(i) = e[1] /\ e[2] = 1
    BY <1>4 DEF StatusActive, Exists
  <2>2. e = <<Code(i), 1>>
    BY <2>1 DEF Rows
  <2>. QED  BY <1>5, <2>2 DEF ActiveIssues
<1>7. ~ (submitted \subseteq processed)
  BY <1>2
<1>8. \A w \in Workers : ContentionsToCome(w) /\ CancellationsToCome(w)
  BY <1>2, PcIn DEF ContentionsToCome, CancellationsToCome, Idle
<1>. QED  BY <1>1, <1>6, <1>7, <1>8 DEF WInv, WorkInOrder, EmptiedIsSeen

\* A committed update is to be processed, and it is seen by the rows it empties.
LEMMA CommitWork ==
    ASSUME WInv, NEW u \in Updates, CommitUpdate(u)
    PROVE  WorkInOrder'
<1>1. /\ RInv /\ IInv /\ EmptiedIsSeen /\ (\A v \in Updates : EditInOrder(v))
      /\ \A w \in Workers : CancellationsToCome(w)
  BY WorkFacts DEF RInv, Ordered, WInv, WorkInOrder
<1>2. UNCHANGED <<processed, job>> /\ submitted' = submitted \union {u}
  BY DEF CommitUpdate
<1>3. /\ edit[u].phase = "begun" /\ edit'[u].removed = edit[u].removed
      /\ \A v \in Updates : v # u => edit'[v] = edit[v]
      /\ \A e \in Rows : \/ epes'[e] = epes[e]
                         \/ /\ ~ epes[e].exists
                            /\ \E i \in edit[u].added : issue'[i].epe = e
      /\ \A i \in Issues :
            IF i \in edit[u].added
            THEN issue'[i].status = "open" /\ issue'[i].epe \in Rows
            ELSE /\ issue'[i].epe = issue[i].epe
                 /\ issue'[i].status = IF i \in edit[u].removed THEN "removed"
                                       ELSE issue[i].status
  BY <1>1, CommitDoes
<1>4. u \notin submitted /\ u \notin processed
  BY <1>1, <1>3, IssueFacts DEF EditInOrder
<1>5. Unprocessed' = Unprocessed \union {u} /\ u \notin Unprocessed
  BY <1>2, <1>4 DEF Unprocessed
<1>6. \A i \in edit[u].added : i \in Issues /\ issue[i].status = "none"
  <2>1. edit[u].added \subseteq Issues
    BY <1>1, TypeParts DEF IInv, Typed, EditRecords
  <2>. QED  BY <1>1, <2>1 DEF EditInOrder
<1>7. \A v \in Updates : \A i \in edit[v].removed :
          i \in Issues /\ issue'[i].epe = issue[i].epe /\ issue[i].epe \in Rows
  BY <1>1, <1>3, <1>6, RowFacts, IssueFacts
<1>8. \A v \in Updates : edit'[v].removed = edit[v].removed
  BY <1>3
<1>9. \A e \in Rows : Emptiers(e) \subseteq Emptiers(e)'
  <2> SUFFICES ASSUME NEW e \in Rows, NEW v \in Unprocessed,
                      NEW i \in edit[v].removed, issue[i].epe = e
      PROVE  v \in Emptiers(e)'
    BY DEF Emptiers
  <2>1. v \in Unprocessed' /\ i \in edit'[v].removed /\ issue'[i].epe = e
    BY <1>5, <1>7, <1>8 DEF Unprocessed
  <2>. QED  BY <2>1 DEF Emptiers
<1>10. ASSUME NEW e \in Rows, StatusActive(e)', ActiveIssues(e)' = {}
       PROVE  StatusActive(e) /\ (ActiveIssues(e) = {} \/ u \in Emptiers(e)')
  <2>1. epes'[e] = epes[e]
    <3>1. ASSUME NEW i \in edit[u].added, issue'[i].epe = e PROVE FALSE
      <4>1. i \in ActiveIssues(e)'
        BY <1>3, <1>6, <3>1 DEF ActiveIssues
      <4>. QED  BY <1>10, <4>1
    <3>. QED  BY <1>3, <3>1
  <2>2. StatusActive(e)
    BY <1>10, <2>1 DEF StatusActive, Exists
  <2>3. ASSUME NEW i \in ActiveIssues(e) PROVE u \in Emptiers(e)'
    <3>1. i \in Issues /\ issue[i].status = "open" /\ issue[i].epe = e /\ i \notin ActiveIssues(e)'
      BY <1>10, <2>3 DEF ActiveIssues
    <3>2. i \notin edit[u].added
      BY <1>6, <3>1
    <3>3. issue'[i].epe = e /\ i \in edit[u].removed
      BY <1>3, <3>1, <3>2 DEF ActiveIssues
    <3>. QED  BY <1>3, <1>5, <3>3 DEF Emptiers
  <2>. QED  BY <2>2, <2>3
<1>11. EmptiedIsSeen'
  BY <1>1, <1>9, <1>10 DEF EmptiedIsSeen
<1>12. ASSUME NEW w \in Workers PROVE ContentionsToCome(w)' /\ CancellationsToCome(w)'
  <2>1. job'[w] = job[w] /\ (job[w].pc # "idle" => job[w].thing # u)
    BY <1>2, <1>4, WorkFacts
  <2>2. ContentionsToCome(w)'
    BY <1>5, <2>1, PcIn DEF ContentionsToCome
  <2>3. CancellationsToCome(w)'
    <3> SUFFICES ASSUME job[w].pc \in After, NEW i \in edit[job[w].thing].removed,
                        NEW e \in Rows, e = issue[i].epe,
                        StatusActive(e)', ActiveIssues(e)' = {}, e \notin job[w].unused
        PROVE  ~ (Emptiers(e)' \subseteq {job[w].thing})
      <4>1. \A i \in edit[job[w].thing].removed :
               job[w].pc \in After => issue'[i].epe = issue[i].epe /\ issue[i].epe \in Rows
        BY <1>7, WorkFacts
      <4>2. job[w].pc \in After => edit'[job[w].thing].removed = edit[job[w].thing].removed
        BY <1>8, WorkFacts
      <4>. QED  BY <2>1, <4>1, <4>2 DEF CancellationsToCome
    <3>1. job[w].thing # u
      BY <2>1, PcIn
    <3>2. CASE u \in Emptiers(e)'
      BY <3>1, <3>2
    <3>3. CASE StatusActive(e) /\ ActiveIssues(e) = {}
      BY <1>1, <1>9, <3>3 DEF CancellationsToCome
    <3>. QED  BY <1>10, <3>2, <3>3
  <2>. QED  BY <2>2, <2>3
<1>13. ~ (submitted' \subseteq processed')
  BY <1>2, <1>4
<1>. QED  BY <1>11, <1>12, <1>13 DEF WorkInOrder

LEMMA BeginWork ==
    ASSUME WInv, NEW u \in Updates, NEW removed \in SUBSET Issues, NEW added \in SUBSET Issues,
           BeginUpdate(u, removed, added)
    PROVE  WorkInOrder'
<1>1. IInv /\ (\A v \in Updates : EditInOrder(v))
  BY DEF WInv, KInv, CInv, RInv, Ordered
<1>2. UNCHANGED <<submitted, processed, epes, issue, job>> /\ edit[u].phase = "none"
  BY DEF BeginUpdate, async
<1>3. edit \in [Updates -> EditRecords] /\ u \notin submitted
  BY <1>1, <1>2, TypeParts DEF IInv, Typed, EditInOrder
<1>4. \A v \in Updates : v # u => edit'[v] = edit[v]
  BY <1>3 DEF BeginUpdate
<1>5. WorkStays
  BY <1>2, <1>3, <1>4 DEF WorkStays, Unprocessed, StatusActive, Exists, ActiveIssues
<1>. QED  BY <1>2, <1>5, SettledStays, LeftStays, JobWork DEF WorkInOrder

LEMMA OthersWork ==
    ASSUME WInv,
           \/ \E t \in Things : Requeue(t)
           \/ \E c \in DOMAIN claims : CancelUpstream(c)
           \/ Sync
    PROVE  WorkInOrder'
<1>1. SUFFICES WorkStays /\ UNCHANGED <<processed, job>>
  BY SettledStays, LeftStays, JobWork DEF WorkInOrder
<1>2. CASE \E t \in Things : Requeue(t)
  <2>1. UNCHANGED <<submitted, processed, edit, issue, epes, job>>
    BY <1>2 DEF Requeue, async
  <2>. QED  BY <2>1, SameWork
<1>3. CASE \E c \in DOMAIN claims : CancelUpstream(c)
  <2>1. UNCHANGED <<submitted, processed, edit, issue, epes, job>>
    BY <1>3 DEF CancelUpstream, async
  <2>. QED  BY <2>1, SameWork
<1>4. CASE \E e \in Rows : FetchResult(e)
  <2>1. UNCHANGED <<submitted, processed, edit, issue, epes, job>>
    BY <1>4 DEF FetchResult, async
  <2>. QED  BY <2>1, SameWork
<1>5. CASE SaveResult
  <2>1. UNCHANGED <<submitted, processed, edit, job>> /\ sync \in Rows /\ HandleCancelledEp(sync)
    BY <1>5, RowFacts DEF SaveResult, WInv, KInv, CInv
  <2>. QED  BY <2>1, CancelledWork, WorkFacts
<1>. QED  BY <1>2, <1>3, <1>4, <1>5 DEF Sync

LEMMA StartWork ==
    ASSUME WInv, InTurn, NEW w \in Workers, NEW t \in Things, StartJob(w, t)
    PROVE  WorkInOrder'
<1>1. UNCHANGED <<submitted, processed, edit, issue, epes>> /\ job'[w].pc = "next"
      /\ job'[w].todo = {e \in Rows : StatusActive(e)}
  BY WorkFacts, StartDoes DEF async
<1>2. WorkStays
  BY <1>1, SameWork
<1>3. \A i \in Uncontended : issue[i].epe \in job'[w].todo
  BY <1>1, WorkFacts DEF Uncontended
<1>4. Uncontended' \subseteq Uncontended
  BY <1>2, LeftStays
<1>5. ContentionsToCome(w)' /\ CancellationsToCome(w)'
  BY <1>1, <1>3, <1>4, PcIn DEF ContentionsToCome, CancellationsToCome
<1>. QED  BY <1>1, <1>2, <1>5, SettledStays, LeftStays DEF InTurn, WorkInOrder

LEMMA AbortWork ==
    ASSUME WInv, InTurn, NEW w \in Workers, Abort(w)
    PROVE  WorkInOrder'
<1>1. UNCHANGED <<submitted, processed, edit, issue, epes>> /\ job'[w].pc = "idle"
  BY WorkFacts, AbortDoes DEF async
<1>. QED  BY <1>1, SameWork, SettledStays, LeftStays, IdleWork DEF InTurn, WorkInOrder

\* A step of an execution that goes on, before it is done with the rows: what it
\* still has to do it has read, or reads now.
LEMMA BeforeWork ==
    ASSUME WInv, InTurn, NEW w \in Workers, WorkStays, UNCHANGED <<processed>>,
           job[w].pc \in Before, job'[w].pc \in Before, job'[w].thing = job[w].thing,
           \A i \in Uncontended' : issue[i].epe \in job[w].todo =>
                /\ issue[i].epe \in job[w].todo
                     /\ (job[w].pc \in {"contend", "match"} /\ issue[i].epe = job[w].epe
                            => i \in job[w].ready)
                     => issue[i].epe \in job'[w].todo
                /\ job'[w].pc \in {"contend", "match"} /\ issue[i].epe = job'[w].epe =>
                        \/ i \in job'[w].ready
                        \/ /\ job[w].pc \in {"contend", "match"} /\ job'[w].epe = job[w].epe
                           /\ i \notin job[w].ready
    PROVE  WorkInOrder'
<1>1. ContentionsToCome(w)
  BY DEF WInv, WorkInOrder
<1>2. Uncontended' \subseteq Uncontended /\ Uncontended \subseteq Issues
  BY LeftStays DEF Uncontended
<1>3. \A i \in Issues : issue'[i].epe = issue[i].epe
  BY DEF WorkStays
<1>4. ContentionsToCome(w)'
  BY <1>1, <1>2, <1>3, PcIn DEF ContentionsToCome, WorkStays
<1>5. CancellationsToCome(w)'
  BY PcIn DEF CancellationsToCome
<1>. QED  BY <1>4, <1>5, SettledStays, LeftStays DEF InTurn, WorkInOrder

LEMMA EstablishWork ==
    ASSUME WInv, InTurn, NEW w \in Workers,
           (\E e \in Rows : Recover(w, e)) \/ Claim(w) \/ SaveClaim(w)
    PROVE  WorkInOrder'
<1>1. SUFFICES /\ UNCHANGED <<submitted, processed, edit, issue>>
               /\ \A e \in Rows : epes'[e].exists = epes[e].exists /\ epes'[e].synced = epes[e].synced
               /\ \/ job'[w].pc = "idle"
                  \/ /\ job[w].pc \in Before /\ job'[w].pc \in {"next", "claim", "save"}
                     /\ job'[w].thing = job[w].thing /\ job'[w].todo = job[w].todo
  <2>1. WorkStays
    BY <1>1, SameWork
  <2>2. CASE job'[w].pc = "idle"
    BY <1>1, <2>1, <2>2, SettledStays, LeftStays, IdleWork DEF InTurn, WorkInOrder
  <2>. QED  BY <1>1, <2>1, <2>2, BeforeWork, PcIn
<1>2. ASSUME NEW e \in Rows, Recover(w, e)
      PROVE  /\ UNCHANGED <<submitted, processed, edit, issue>>
             /\ \A f \in Rows : epes'[f].exists = epes[f].exists /\ epes'[f].synced = epes[f].synced
             /\ job[w].pc \in Before /\ job'[w].pc \in {"next", "claim", "save"}
             /\ job'[w].thing = job[w].thing /\ job'[w].todo = job[w].todo
  BY <1>2, WorkFacts, RecoverDoes, PcIn DEF async
<1>3. CASE Claim(w)
  <2>1. /\ UNCHANGED <<submitted, processed, edit, issue, epes>> /\ job[w].pc = "claim"
        /\ \/ job'[w].pc = "idle"
           \/ /\ job'[w].pc = "save"
              /\ job'[w].thing = job[w].thing /\ job'[w].todo = job[w].todo
    BY <1>3, WorkFacts, ClaimDoes DEF async
  <2>. QED  BY <2>1, PcIn
<1>4. CASE SaveClaim(w)
  <2>1. /\ UNCHANGED <<submitted, processed, edit, issue>> /\ job[w].pc = "save"
        /\ \A f \in Rows : epes'[f].exists = epes[f].exists /\ epes'[f].synced = epes[f].synced
        /\ job'[w].pc = "next" /\ job'[w].thing = job[w].thing /\ job'[w].todo = job[w].todo
    BY <1>4, WorkFacts, SaveClaimDoes DEF async
  <2>. QED  BY <2>1, PcIn
<1>. QED  BY <1>2, <1>3, <1>4

LEMMA ContendWork ==
    ASSUME WInv, InTurn, NEW w \in Workers,
           \/ \E e \in Rows : ReadRecords(w, e)
           \/ \E order \in Orders(Issues) : Contend(w, order)
           \/ \E k \in DOMAIN contentions, i \in Issues : Match(w, k, i)
           \/ Matched(w)
    PROVE  WorkInOrder'
<1>1. RInv /\ IInv
  BY WorkFacts
<1>2. ASSUME NEW e \in Rows, ReadRecords(w, e) PROVE WorkInOrder'
  <2>1. /\ UNCHANGED <<submitted, processed, edit, issue, epes>>
        /\ job[w].pc = "next" /\ job'[w].thing = job[w].thing
        /\ \/ /\ \A i \in ActiveIssues(e) : issue[i].contention # None
              /\ job'[w].pc = "next" /\ job'[w].todo = job[w].todo \ {e}
           \/ /\ job'[w].pc = "contend" /\ job'[w].todo = job[w].todo /\ job'[w].epe = e
              /\ job'[w].ready = {i \in ActiveIssues(e) : issue[i].contention = None}
    BY <1>1, <1>2, ReadRecordsDoes DEF async, vbms
  <2>2. WorkStays
    BY <2>1, SameWork
  <2>3. \A i \in Uncontended' : issue[i].epe = e => i \in ActiveIssues(e) /\ issue[i].contention = None
    BY <2>2, LeftStays DEF Uncontended, ActiveIssues
  <2>. QED  BY <2>1, <2>2, <2>3, BeforeWork, PcIn
<1>3. ASSUME NEW order \in Orders(Issues), Contend(w, order) PROVE WorkInOrder'
  <2>1. /\ UNCHANGED <<submitted, processed, edit, issue, epes>> /\ job[w].pc = "contend"
        /\ \/ job'[w].pc = "idle"
           \/ /\ job'[w].pc = "match" /\ job'[w].thing = job[w].thing
              /\ job'[w].epe = job[w].epe /\ job'[w].ready = job[w].ready
              /\ job'[w].todo = job[w].todo
    BY <1>1, <1>3, ContendDoes DEF async, vbms
  <2>2. WorkStays
    BY <2>1, SameWork
  <2>3. CASE job'[w].pc = "idle"
    BY <2>1, <2>2, <2>3, SettledStays, LeftStays, IdleWork DEF InTurn, WorkInOrder
  <2>. QED  BY <2>1, <2>2, <2>3, BeforeWork, PcIn
<1>4. ASSUME NEW k \in DOMAIN contentions, NEW i \in Issues, Match(w, k, i) PROVE WorkInOrder'
  <2>1. /\ UNCHANGED <<submitted, processed, edit, epes>> /\ job[w].pc = "match"
        /\ job'[w].pc = "match" /\ job'[w].thing = job[w].thing
        /\ job'[w].epe = job[w].epe /\ job'[w].ready = job[w].ready \ {i}
        /\ job'[w].todo = job[w].todo
        /\ \A j \in Issues : /\ issue'[j].status = issue[j].status /\ issue'[j].epe = issue[j].epe
                             /\ issue'[j].contention = IF j = i THEN k ELSE issue[j].contention
    BY <1>1, <1>4, MatchDoes DEF async, vbms
  <2>2. k # None
    BY <1>1, KeyFacts
  <2>3. WorkStays
    BY <2>1, <2>2, SameWork
  <2>4. i \notin Uncontended'
    BY <2>1, <2>2 DEF Uncontended
  <2>. QED  BY <2>1, <2>3, <2>4, BeforeWork, PcIn
<1>5. CASE Matched(w)
  <2>1. /\ UNCHANGED <<submitted, processed, edit, issue, epes>> /\ job[w].pc = "match"
        /\ \/ job'[w].pc = "idle"
           \/ /\ job[w].ready = {} /\ job'[w].pc = "next" /\ job'[w].thing = job[w].thing
              /\ job'[w].todo = job[w].todo \ {job[w].epe}
    BY <1>1, <1>5, MatchedDoes DEF async, vbms
  <2>2. WorkStays
    BY <2>1, SameWork
  <2>3. CASE job'[w].pc = "idle"
    BY <2>1, <2>2, <2>3, SettledStays, LeftStays, IdleWork DEF InTurn, WorkInOrder
  <2>. QED  BY <2>1, <2>2, <2>3, BeforeWork, PcIn
<1>. QED  BY <1>2, <1>3, <1>4, <1>5

\* The review is processed: every row is done, so nothing is without contention
\* unless another update is to come.
LEMMA ReviewWork ==
    ASSUME WInv, InTurn, NEW w \in Workers, ProcessReview(w)
    PROVE  WorkInOrder'
<1>1. RInv /\ IInv /\ ContentionsToCome(w)
  BY WorkFacts DEF WInv, WorkInOrder
<1>2. /\ UNCHANGED <<submitted, edit, issue, epes>>
      /\ job[w].pc = "next" /\ job[w].todo = {} /\ processed' = processed \union {Review}
  BY <1>1, ProcessReviewDoes
<1>3. Unprocessed' = Unprocessed
  BY <1>2, ThingsAssumption DEF Unprocessed
<1>4. WorkStays
  BY <1>2, <1>3 DEF WorkStays, StatusActive, Exists, ActiveIssues
<1>5. Unprocessed \subseteq {job[w].thing} => Uncontended = {}
  BY <1>1, <1>2, PcIn DEF ContentionsToCome
<1>6. submitted' \subseteq processed' => Uncontended' = {}
  BY <1>2, <1>3, <1>4, <1>5, LeftStays DEF Unprocessed
<1>7. CASE job'[w].pc = "idle"
  BY <1>4, <1>6, <1>7, LeftStays, IdleWork DEF InTurn, WorkInOrder
<1>8. CASE /\ job[w].thing \in Updates /\ job'[w].thing = job[w].thing /\ job'[w].pc = "off"
           /\ job'[w].unused =
                 {issue[i].epe : i \in {j \in edit[job[w].thing].removed : issue[j].epe # None}}
  <2>1. ContentionsToCome(w)'
    BY <1>3, <1>4, <1>5, <1>8, LeftStays, PcIn DEF ContentionsToCome
  <2>2. \A i \in edit[job[w].thing].removed : issue[i].epe # None
    BY <1>8, WorkFacts, NoneAssumption
  <2>3. CancellationsToCome(w)'
    BY <1>2, <1>8, <2>2 DEF CancellationsToCome
  <2>. QED  BY <1>4, <1>6, <2>1, <2>3, LeftStays DEF InTurn, WorkInOrder
<1>. QED  BY <1>1, <1>7, <1>8, ProcessReviewDoes

\* A step of an update that takes off or cancels what it removed.
LEMMA AfterWork ==
    ASSUME WInv, InTurn, NEW w \in Workers, WorkStays, UNCHANGED <<processed>>,
           job[w].pc \in After, job'[w].pc \in After, job'[w].thing = job[w].thing,
           \A e \in Rows : StatusActive(e)' /\ ActiveIssues(e)' = {} /\ e \in job[w].unused
                              => e \in job'[w].unused
    PROVE  WorkInOrder'
<1>1. ContentionsToCome(w) /\ CancellationsToCome(w)
  BY DEF WInv, WorkInOrder
<1>2. ContentionsToCome(w)'
  BY <1>1, LeftStays, PcIn DEF ContentionsToCome, WorkStays
<1>3. CancellationsToCome(w)'
  <2>1. job[w].thing \in Updates \intersect submitted
    BY WorkFacts, PcIn
  <2>2. /\ edit'[job[w].thing].removed = edit[job[w].thing].removed
        /\ \A i \in edit[job[w].thing].removed : /\ issue'[i].epe = issue[i].epe
                                                 /\ issue[i].epe \in Rows
    BY <2>1, WorkFacts DEF WorkStays
  <2>. QED  BY <1>1, <2>2, LeftStays DEF CancellationsToCome, WorkStays
<1>. QED  BY <1>2, <1>3, SettledStays, LeftStays DEF InTurn, WorkInOrder

LEMMA RemoveWork ==
    ASSUME WInv, InTurn, NEW w \in Workers,
           \/ \E i \in Issues : RemoveContention(w, i)
           \/ \E e \in Rows : CheckUnused(w, e)
           \/ CancelClaim(w) \/ SaveCancel(w)
    PROVE  WorkInOrder'
<1>1. RInv /\ IInv
  BY WorkFacts
<1>2. ASSUME NEW i \in Issues, RemoveContention(w, i) PROVE WorkInOrder'
  <2>1. /\ UNCHANGED <<submitted, processed, edit, issue, epes>>
        /\ job[w].pc = "off" /\ job'[w].pc = "off" /\ job'[w].thing = job[w].thing
        /\ job'[w].unused = job[w].unused
    BY <1>1, <1>2, RemoveContentionDoes DEF async
  <2>. QED  BY <2>1, SameWork, AfterWork, PcIn
<1>3. ASSUME NEW e \in Rows, CheckUnused(w, e) PROVE WorkInOrder'
  <2>1. /\ UNCHANGED <<submitted, processed, edit, issue, epes>>
        /\ job[w].pc = "off" /\ job'[w].thing = job[w].thing
        /\ \/ job'[w].pc = "cancel" /\ job'[w].unused = job[w].unused
           \/ /\ ActiveIssues(e) # {}
              /\ job'[w].pc = "off" /\ job'[w].unused = job[w].unused \ {e}
    BY <1>1, <1>3, CheckUnusedDoes DEF async, vbms
  <2>2. WorkStays /\ ActiveIssues(e)' = ActiveIssues(e)
    BY <2>1, SameWork DEF ActiveIssues
  <2>. QED  BY <2>1, <2>2, AfterWork, PcIn
<1>4. CASE CancelClaim(w)
  <2>1. /\ UNCHANGED <<submitted, processed, edit, issue, epes>>
        /\ job[w].pc = "cancel" /\ job'[w].pc = "save_cancel" /\ job'[w].thing = job[w].thing
        /\ job'[w].unused = job[w].unused
    BY <1>1, <1>4, CancelClaimDoes DEF async
  <2>. QED  BY <2>1, SameWork, AfterWork, PcIn
<1>5. CASE SaveCancel(w)
  <2>1. /\ UNCHANGED <<submitted, processed, edit>>
        /\ HandleCancelledEp(job[w].epe) /\ job[w].epe \in Rows
        /\ job[w].pc = "save_cancel" /\ job'[w].pc = "off" /\ job'[w].thing = job[w].thing
        /\ job'[w].unused = job[w].unused \ {job[w].epe}
    BY <1>1, <1>5, SaveCancelDoes
  <2>2. WorkStays /\ \A e \in Rows : e = job[w].epe => ~ StatusActive(e)'
    BY <1>1, <2>1, CancelledWork
  <2>. QED  BY <2>1, <2>2, AfterWork, PcIn
<1>. QED  BY <1>2, <1>3, <1>4, <1>5

\* An update ends when no row it has emptied is left to cancel.
LEMMA EndWork ==
    ASSUME WInv, InTurn, NEW w \in Workers, ProcessUpdate(w)
    PROVE  WorkInOrder'
<1>1. RInv /\ IInv /\ ContentionsToCome(w) /\ CancellationsToCome(w) /\ EmptiedIsSeen
  BY WorkFacts DEF WInv, WorkInOrder
<1>2. /\ UNCHANGED <<submitted, edit, issue, epes>>
      /\ job[w].pc = "off" /\ job[w].unused = {} /\ job[w].thing \in Updates
      /\ processed' = processed \union {job[w].thing} /\ job'[w].pc = "idle"
  BY <1>1, ProcessUpdateDoes
<1>3. Unprocessed' = Unprocessed \ {job[w].thing} /\ Uncontended' = Uncontended
  BY <1>2 DEF Unprocessed, Uncontended, StatusActive, Exists
<1>4. submitted' \subseteq processed' => Uncontended' = {}
  BY <1>1, <1>2, <1>3, PcIn DEF ContentionsToCome, Unprocessed
<1>5. EmptiedIsSeen'
  <2> SUFFICES ASSUME NEW e \in Rows, StatusActive(e), ActiveIssues(e) = {}
      PROVE  Emptiers(e)' # {}
    BY <1>2 DEF EmptiedIsSeen, StatusActive, Exists, ActiveIssues
  <2>1. \E v \in Emptiers(e) : v # job[w].thing
    <3>1. CASE job[w].thing \in Emptiers(e)
      <4>1. PICK i \in edit[job[w].thing].removed : issue[i].epe = e
        BY <3>1, WorkFacts
      <4>. QED  BY <1>1, <1>2, <4>1, PcIn DEF CancellationsToCome
    <3>2. CASE job[w].thing \notin Emptiers(e)
      BY <1>1, <3>2 DEF EmptiedIsSeen
    <3>. QED  BY <3>1, <3>2
  <2>2. \A v \in Emptiers(e) : v # job[w].thing => v \in Emptiers(e)'
    BY <1>2, <1>3 DEF Emptiers
  <2>. QED  BY <2>1, <2>2
<1>. QED  BY <1>2, <1>4, <1>5, IdleWork DEF InTurn, WorkInOrder

LEMMA WorkKept ==
    ASSUME WInv, InTurn, [Next]_vars
    PROVE  WInv'
<1>1. SUFFICES WorkInOrder'
  BY ContentionsKept DEF WInv
<1>2. CASE UNCHANGED vars
  <2>1. UNCHANGED <<submitted, processed, edit, issue, epes, job>>
    BY <1>2 DEF vars, async
  <2>. QED  BY <2>1, SameWork, SettledStays, LeftStays, JobWork DEF WorkInOrder
<1>3. ASSUME NEW w \in Workers, Work(w) PROVE WorkInOrder'
  BY <1>3, EstablishWork, ContendWork, ReviewWork, RemoveWork, EndWork DEF Work
<1>4. CASE Next
  BY <1>3, <1>4, CommitWork, BeginWork, OthersWork, StartWork, AbortWork DEF Next
<1>. QED  BY <1>2, <1>4

LEMMA WorkMeans ==
    ASSUME WInv
    PROVE  ProcessedMeansContended /\ RemovalCarriedOut
<1>1. /\ (submitted \subseteq processed => Uncontended = {}) /\ EmptiedIsSeen
      /\ IssuesAndContentions /\ RemovedIsOff
  BY DEF WInv, WorkInOrder, KInv, ContentionsInOrder
<1>2. ProcessedMeansContended
  BY <1>1 DEF ProcessedMeansContended, IssuesAndContentions, Uncontended
<1>3. RemovalCarriedOut
  <2>1. submitted \subseteq processed => \A e \in Rows : Emptiers(e) = {}
    BY DEF Emptiers, Unprocessed
  <2>. QED  BY <1>1, <2>1, WorkFacts DEF RemovalCarriedOut, RemovedIsOff, EmptiedIsSeen
<1>. QED  BY <1>2, <1>3

\* What rows, end products, contentions and the record of an execution have to do
\* with each other, with one execution at a time: nothing that an execution
\* broke off is lost or done twice, and what is left to do, something will do.
THEOREM InductiveInvariant == InTurn => (Spec => []WInv)
<1> SUFFICES ASSUME InTurn PROVE Spec => []WInv
  OBVIOUS
<1>1. Init => WInv
  BY InitWork
<1>2. WInv /\ [Next]_vars => WInv'
  BY WorkKept
<1>. QED  BY <1>1, <1>2, PTL DEF Spec

\* Once everything submitted is processed, each open issue of an active row has
\* its contention in VBMS, with one execution at a time, however many of them
\* broke off on the way.
THEOREM AllContended == InTurn => (Spec => []ProcessedMeansContended)
<1>1. WInv => ProcessedMeansContended
  BY WorkMeans
<1>. QED  BY <1>1, InductiveInvariant, PTL

\* What a processed update removed is off the claim, and in the end no row that
\* was emptied is left active, with one execution at a time.
THEOREM RemovalsDone == InTurn => (Spec => []RemovalCarriedOut)
<1>1. WInv => RemovalCarriedOut
  BY WorkMeans
<1>. QED  BY <1>1, InductiveInvariant, PTL
=============================================================================
