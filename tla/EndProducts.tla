---------------------------- MODULE EndProducts ----------------------------
(***************************************************************************)
(* Establishing a claim review: end product establishments (EPEs), the     *)
(* contentions of its request issues, edits of the issues, and the         *)
(* cancellation of end products, here or upstream                          *)
(* (app/models/end_product_establishment.rb, claim_review.rb,              *)
(* request_issues_update.rb, request_issue_contention.rb and the jobs      *)
(* DecisionReviewProcessJob, SyncReviewsJob, EndProductSyncJob).           *)
(*                                                                         *)
(* One action is one call to VBMS or BGS, or one statement or committed    *)
(* transaction of the database. What a job has read stays in its record.   *)
(* A reply is lost, an error raised or a worker killed between any two     *)
(* actions of a job (Abort); SyncReviewsJob queues the work again.         *)
(***************************************************************************)
EXTENDS Naturals, Sequences, FiniteSets

CONSTANTS
    Issues,         \* request issues, of the intake or added later
    Added,          \* the issues only an update can add
    Nonrating,      \* the issues whose end product is the nonrating one
    Alike,          \* the issues whose contentions have one text
    Updates,        \* RequestIssuesUpdates
    Workers,        \* executions of DecisionReviewProcessJob at a time
    Review,         \* the claim review, as a thing to establish
    MaxRows,        \* bound on the EPEs of a code
    MaxClaims,      \* bound on the end products in VBMS, also their modifiers
    MaxContentions, \* bound on the contentions in VBMS
    MaxFaults,      \* bound on the executions that break off
    MaxCancels,     \* bound on the end products cancelled upstream
    None

ASSUME ThingsAssumption ==
    /\ Review \notin Updates /\ None \notin Updates
    /\ IsFiniteSet(Issues) /\ Added \subseteq Issues /\ None \notin Issues
ASSUME BoundsAssumption ==
    /\ {MaxRows, MaxClaims, MaxContentions, MaxFaults, MaxCancels} \subseteq Nat
    /\ MaxRows > 0

Things == Updates \union {Review}
Code(i) == IF i \in Nonrating THEN "nonrating" ELSE "rating"
Text(i) == IF i \in Alike THEN "alike" ELSE i
Codes  == {Code(i) : i \in Issues}
Rows   == Codes \X (1..MaxRows)

ASSUME NoneAssumption == None \notin Nat /\ None \notin Rows /\ None # "CAN"

VARIABLES
    submitted, processed, canceled, \* Asyncable: sets of things
    queue,       \* things whose job is queued
    epes,        \* rows of end_product_establishments, by code
    issue,       \* rows of request_issues
    edit,        \* what each update has read, and what it removes
    claims,      \* end products in VBMS
    contentions, \* contentions in VBMS
    sync,        \* EPE an EndProductSyncJob has found cancelled, or None
    job,         \* what each worker has read and does next
    faults, cancels

async == <<submitted, processed, canceled>>
vbms  == <<claims, contentions>>
vars  == <<async, queue, epes, issue, edit, vbms, sync, job, faults, cancels>>

NoRow   == [exists |-> FALSE, ref |-> None, synced |-> None]
NoIssue == [status |-> "none", epe |-> None, contention |-> None]
NoEdit  == [phase |-> "none", removed |-> {}, added |-> {}, row |-> [c \in Codes |-> None]]
Idle    == [thing |-> None, pc |-> "idle", todo |-> {}, ref |-> [e \in Rows |-> None],
            epe |-> None, taken |-> {}, ready |-> {}, known |-> {}, reply |-> {},
            off |-> [i \in Issues |-> None], unused |-> {}]

-----------------------------------------------------------------------------
(* Rows *)

Exists(e) == epes[e].exists

\* EndProductEstablishment#status_active?: not known to be inactive.
StatusActive(e) == Exists(e) /\ epes[e].synced = None

\* RequestIssue.active, of an EPE.
ActiveIssues(e) == {i \in Issues : issue[i].status = "open" /\ issue[i].epe = e}

\* Fault: only the contentions of active issues are known.
KnownOfActive(e) == {issue[i].contention : i \in ActiveIssues(e)} \ {None}

\* all_contention_records: the contentions of any issue of the EPE.
KnownContentions(e) ==
    {issue[i].contention : i \in {j \in Issues : issue[j].epe = e}} \ {None}

\* Fault: nothing is recovered.
MatchingNothing(e) == {}

\* matches_end_product?: an active end product alike that no other EPE has.
Matching(e) ==
    {c \in DOMAIN claims :
        /\ claims[c].active
        /\ claims[c].code = e[1]
        /\ \A f \in Rows : epes[f].ref # c}

\* EndProductModifierFinder#find: neither in the list of the veteran's end
\* products, all of them recent, nor on another EPE of the review.
FreeModifiers(taken) ==
    {m \in 1..MaxClaims :
        /\ m \notin taken
        /\ \A f \in Rows : epes[f].ref # None => claims[epes[f].ref].modifier # m}

\* The sequences without repetition over a set.
Orders(S) ==
    {f \in UNION {[1..n -> S] : n \in 0..Cardinality(S)} :
        \A m, n \in DOMAIN f : f[m] = f[n] => m = n}

Least(S) == CHOOSE n \in S : \A m \in S : n <= m

\* The next row of a code.
NewRow(c) == <<c, Least({n \in 1..MaxRows : ~ Exists(<<c, n>>)})>>

\* Fault: the status is misspelled.
HandleMisspelled(e) ==
    /\ epes' = [epes EXCEPT ![e].synced = "CANCELED"]
    /\ UNCHANGED <<canceled, issue>>

\* handle_cancelled_ep!: the source is canceled unless it is processed, and
\* every open issue of the EPE closed.
HandleCancelledEp(e) ==
    /\ epes' = [epes EXCEPT ![e].synced = "CAN"]
    /\ canceled' = IF Review \in processed THEN canceled ELSE canceled \union {Review}
    /\ issue' = [i \in Issues |-> IF i \in ActiveIssues(e)
                                  THEN [issue[i] EXCEPT !.status = "end_product_canceled"]
                                  ELSE issue[i]]

-----------------------------------------------------------------------------
\* The review as its intake leaves it, its job queued.
Init ==
    /\ submitted = {Review} /\ processed = {} /\ canceled = {}
    /\ queue = {Review}
    /\ \E open \in SUBSET (Issues \ Added) \ {{}} :
          /\ epes = [e \in Rows |->
                [NoRow EXCEPT !.exists = e[2] = 1 /\ \E i \in open : Code(i) = e[1]]]
          /\ issue = [i \in Issues |->
                IF i \in open THEN [NoIssue EXCEPT !.status = "open", !.epe = <<Code(i), 1>>]
                ELSE NoIssue]
    /\ edit = [u \in Updates |-> NoEdit]
    /\ claims = <<>> /\ contentions = <<>>
    /\ sync = None
    /\ job = [w \in Workers |-> Idle]
    /\ faults = 0 /\ cancels = 0

-----------------------------------------------------------------------------
(* Users: RequestIssuesUpdate#perform! *)

\* validate_before_perform: no other update of the review is processable.
NoOtherProcessable(u) == Updates \intersect submitted \subseteq processed \union {u}

\* The active EPE end_product_establishment_for_issue finds for a code.
FoundRow(c) ==
    LET found == {n \in 1..MaxRows : StatusActive(<<c, n>>)}
    IN  IF found = {} THEN None ELSE <<c, Least(found)>>

\* The transaction begins and reads what it is about to change.
BeginUpdate(u, removed, added) ==
    /\ edit[u].phase = "none"
    /\ NoOtherProcessable(u)
    /\ removed \subseteq {i \in Issues : issue[i].status = "open"}
    /\ added \subseteq {i \in Issues : issue[i].status = "none"}
    /\ \A v \in Updates : added \intersect edit[v].added = {}
    /\ removed \union added # {}
    /\ \A i \in added : FoundRow(Code(i)) = None => ~ Exists(<<Code(i), MaxRows>>)
    /\ edit' = [edit EXCEPT ![u] =
          [phase |-> "begun", removed |-> removed, added |-> added,
           row |-> [c \in Codes |-> IF \E i \in added : Code(i) = c THEN FoundRow(c) ELSE None]]]
    /\ UNCHANGED <<async, queue, epes, issue, vbms, sync, job, faults, cancels>>

\* create_issues!, with a new EPE for a code that had none, and remove! or
\* withdraw!; the update is submitted and its job queued.
CommitUpdate(u) ==
    /\ edit[u].phase = "begun"
    /\ \A i \in edit[u].added : edit[u].row[Code(i)] = None => ~ Exists(<<Code(i), MaxRows>>)
    /\ LET new == {NewRow(Code(i)) : i \in {j \in edit[u].added : edit[u].row[Code(j)] = None}}
           RowOf(i) == IF edit[u].row[Code(i)] # None THEN edit[u].row[Code(i)]
                       ELSE NewRow(Code(i))
       IN /\ epes' = [e \in Rows |->
                IF e \in new THEN [NoRow EXCEPT !.exists = TRUE] ELSE epes[e]]
          /\ issue' = [i \in Issues |->
                IF i \in edit[u].added THEN [NoIssue EXCEPT !.status = "open", !.epe = RowOf(i)]
                ELSE IF i \in edit[u].removed THEN [issue[i] EXCEPT !.status = "removed"]
                ELSE issue[i]]
    /\ edit' = [edit EXCEPT ![u] = [NoEdit EXCEPT !.phase = "done", !.removed = edit[u].removed]]
    /\ submitted' = submitted \union {u}
    /\ queue' = queue \union {u}
    /\ UNCHANGED <<processed, canceled, vbms, sync, job, faults, cancels>>

-----------------------------------------------------------------------------
(* DecisionReviewProcessJob and SyncReviewsJob *)

\* Fault: SyncReviewsJob leaves out RequestIssuesUpdate.
RequeueReview(t) ==
    /\ t = Review /\ t \in submitted \ (processed \union canceled \union queue)
    /\ \A w \in Workers : job[w].thing # t
    /\ queue' = queue \union {t}
    /\ UNCHANGED <<async, epes, issue, edit, vbms, sync, job, faults, cancels>>

\* SyncReviewsJob: what is processable is queued again.
Requeue(t) ==
    /\ t \in submitted \ (processed \union canceled \union queue)
    /\ \A w \in Workers : job[w].thing # t
    /\ queue' = queue \union {t}
    /\ UNCHANGED <<async, epes, issue, edit, vbms, sync, job, faults, cancels>>

\* The worker goes on at pc, with the record changed.
Step(w, record, pc) == job' = [job EXCEPT ![w] = [record EXCEPT !.pc = pc]]
Leave(w) == job' = [job EXCEPT ![w] = Idle]
Busy(w, pc) == job[w].pc = pc

\* attempted!, and the EPEs of the review are loaded; those not active are
\* passed over. Nothing asks whether the thing is processed already.
StartJob(w, t) ==
    /\ Busy(w, "idle")
    /\ t \in queue
    /\ queue' = queue \ {t}
    /\ Step(w, [Idle EXCEPT !.thing = t,
                            !.todo = {e \in Rows : StatusActive(e)},
                            !.ref = [e \in Rows |-> epes[e].ref]], "next")
    /\ UNCHANGED <<async, epes, issue, edit, vbms, sync, faults, cancels>>

\* save_recovered_end_product!: the first execution lists the veteran's end
\* products too, last_submitted_at never being equal to submitted_at.
Recover(w, e) ==
    /\ Busy(w, "next")
    /\ e \in job[w].todo /\ job[w].ref[e] = None
    /\ IF Matching(e) = {}
       THEN /\ Step(w, [job[w] EXCEPT !.epe = e,
                           !.taken = {claims[c].modifier : c \in DOMAIN claims}], "claim")
            /\ UNCHANGED epes
       ELSE \E c \in Matching(e) :
              /\ epes' = [epes EXCEPT ![e].ref = c]
              /\ Step(w, [job[w] EXCEPT !.ref[e] = c], "next")
    /\ UNCHANGED <<async, queue, issue, edit, vbms, sync, faults, cancels>>

\* establish_claim_in_vbms. VBMS refuses a modifier in use.
Claim(w) ==
    /\ Busy(w, "claim")
    /\ Len(claims) < MaxClaims /\ FreeModifiers(job[w].taken) # {}
    /\ LET m == Least(FreeModifiers(job[w].taken))
       IN IF \E c \in DOMAIN claims : claims[c].active /\ claims[c].modifier = m
          THEN Leave(w) /\ UNCHANGED claims
          ELSE /\ claims' = Append(claims, [code |-> job[w].epe[1], modifier |-> m, active |-> TRUE])
               /\ Step(w, [job[w] EXCEPT !.ref[job[w].epe] = Len(claims) + 1, !.taken = {}], "save")
    /\ UNCHANGED <<async, queue, epes, issue, edit, contentions, sync, faults, cancels>>

\* The reply is recorded: reference_id, established_at, modifier.
SaveClaim(w) ==
    /\ Busy(w, "save")
    /\ epes' = [epes EXCEPT ![job[w].epe].ref = job[w].ref[job[w].epe]]
    /\ Step(w, [job[w] EXCEPT !.epe = None], "next")
    /\ UNCHANGED <<async, queue, issue, edit, vbms, sync, faults, cancels>>

\* Fault: an EPE that had its end product before has its contentions too.
ReadRecordsOfNew(w, e) ==
    /\ Busy(w, "next")
    /\ e \in job[w].todo /\ job[w].ref[e] # None
    /\ Step(w, [job[w] EXCEPT !.todo = @ \ {e}], "next")
    /\ UNCHANGED <<async, queue, epes, issue, edit, vbms, sync, faults, cancels>>

\* create_contentions! reads the issues without a contention, and every
\* contention it knows of.
ReadRecords(w, e) ==
    /\ Busy(w, "next")
    /\ e \in job[w].todo /\ job[w].ref[e] # None
    /\ LET ready == {i \in ActiveIssues(e) : issue[i].contention = None}
       IN IF ready = {}
          THEN Step(w, [job[w] EXCEPT !.todo = @ \ {e}], "next")
          ELSE Step(w, [job[w] EXCEPT !.epe = e, !.ready = ready,
                                      !.known = KnownContentions(e)], "contend")
    /\ UNCHANGED <<async, queue, epes, issue, edit, vbms, sync, faults, cancels>>

\* create_contentions_in_vbms: one for each record, in some order; the reply
\* is every contention of the claim, less those known. VBMS refuses an end
\* product that is not active.
Contend(w, order) ==
    /\ Busy(w, "contend")
    /\ {order[n] : n \in DOMAIN order} = job[w].ready
    /\ Len(contentions) + Len(order) <= MaxContentions
    /\ LET claim == job[w].ref[job[w].epe]
           all == contentions \o [n \in 1..Len(order) |->
                      [claim |-> claim, live |-> TRUE, text |-> Text(order[n])]]
       IN IF claims[claim].active
          THEN /\ contentions' = all
               /\ Step(w, [job[w] EXCEPT !.known = {},
                     !.reply = {k \in DOMAIN all : all[k].claim = claim /\ all[k].live}
                               \ job[w].known], "match")
          ELSE Leave(w) /\ UNCHANGED contentions
    /\ UNCHANGED <<async, queue, epes, issue, edit, claims, sync, faults, cancels>>

\* A contention of the reply, in any order, goes to a record with its text
\* that has none yet.
Match(w, k, i) ==
    /\ Busy(w, "match")
    /\ k \in job[w].reply /\ i \in job[w].ready
    /\ contentions[k].text = Text(i)
    /\ issue' = [issue EXCEPT ![i].contention = k]
    /\ Step(w, [job[w] EXCEPT !.reply = @ \ {k}, !.ready = @ \ {i}], "match")
    /\ UNCHANGED <<async, queue, epes, edit, vbms, sync, faults, cancels>>

\* No record is left to match: the EPE is committed, or
\* ContentionCreationFailed.
Matched(w) ==
    /\ Busy(w, "match")
    /\ ~ \E k \in job[w].reply, i \in job[w].ready : contentions[k].text = Text(i)
    /\ IF job[w].ready = {}
       THEN Step(w, [job[w] EXCEPT !.todo = @ \ {job[w].epe}, !.epe = None, !.reply = {}], "next")
       ELSE Leave(w)
    /\ UNCHANGED <<async, queue, epes, issue, edit, vbms, sync, faults, cancels>>

\* Every EPE is established: the review is processed. An update goes on with
\* the issues it removed and their contentions as they are now.
ProcessReview(w) ==
    /\ Busy(w, "next") /\ job[w].todo = {}
    /\ processed' = processed \union {Review}
    /\ IF job[w].thing = Review
       THEN Leave(w)
       ELSE LET gone == {i \in edit[job[w].thing].removed : issue[i].epe # None}
            IN Step(w, [Idle EXCEPT
                  !.thing = job[w].thing,
                  !.off = [i \in Issues |-> IF i \in gone THEN issue[i].contention ELSE None],
                  !.unused = {issue[i].epe : i \in gone}], "off")
    /\ UNCHANGED <<submitted, canceled, queue, epes, issue, edit, vbms, sync, faults, cancels>>

\* RequestIssueContention#remove!, of a contention VBMS still lists.
RemoveContention(w, i) ==
    /\ Busy(w, "off") /\ job[w].off[i] # None
    /\ contentions' = [contentions EXCEPT ![job[w].off[i]].live = FALSE]
    /\ Step(w, [job[w] EXCEPT !.off[i] = None], "off")
    /\ UNCHANGED <<async, queue, epes, issue, edit, claims, sync, faults, cancels>>

\* Fault: the check runs before the contentions are off, and ends the update.
ProcessUpdateEarly(w) ==
    /\ Busy(w, "off")
    /\ processed' = processed \union {job[w].thing}
    /\ Leave(w)
    /\ UNCHANGED <<submitted, canceled, queue, epes, issue, edit, vbms, sync, faults, cancels>>

\* cancel_unused_end_product! asks whether an issue of the EPE is active.
CheckUnused(w, e) ==
    /\ Busy(w, "off") /\ \A i \in Issues : job[w].off[i] = None
    /\ e \in job[w].unused
    /\ IF ActiveIssues(e) = {}
       THEN Step(w, [job[w] EXCEPT !.epe = e], "cancel")
       ELSE Step(w, [job[w] EXCEPT !.unused = @ \ {e}], "off")
    /\ UNCHANGED <<async, queue, epes, issue, edit, vbms, sync, faults, cancels>>

\* cancel!: BGS cancels the end product ...
CancelClaim(w) ==
    /\ Busy(w, "cancel")
    /\ claims' = IF epes[job[w].epe].ref = None THEN claims
                 ELSE [claims EXCEPT ![epes[job[w].epe].ref].active = FALSE]
    /\ Step(w, job[w], "save_cancel")
    /\ UNCHANGED <<async, queue, epes, issue, edit, contentions, sync, faults, cancels>>

\* ... and the transaction that asked for it commits.
SaveCancel(w) ==
    /\ Busy(w, "save_cancel")
    /\ HandleCancelledEp(job[w].epe)
    /\ Step(w, [job[w] EXCEPT !.unused = @ \ {job[w].epe}, !.epe = None], "off")
    /\ UNCHANGED <<submitted, processed, queue, edit, vbms, sync, faults, cancels>>

ProcessUpdate(w) ==
    /\ Busy(w, "off") /\ job[w].unused = {}
    /\ \A i \in Issues : job[w].off[i] = None
    /\ processed' = processed \union {job[w].thing}
    /\ Leave(w)
    /\ UNCHANGED <<submitted, canceled, queue, epes, issue, edit, vbms, sync, faults, cancels>>

\* A call fails, its reply is lost, or the worker is killed: update_error!
\* records the error, if anything does, and the execution is over.
Abort(w) ==
    /\ job[w].pc # "idle"
    /\ faults < MaxFaults
    /\ faults' = faults + 1
    /\ Leave(w)
    /\ UNCHANGED <<async, queue, epes, issue, edit, vbms, sync, cancels>>

-----------------------------------------------------------------------------
(* EndProductSyncJob, and the users of VBMS *)

CancelUpstream(c) ==
    /\ cancels < MaxCancels
    /\ c \in DOMAIN claims /\ claims[c].active
    /\ claims' = [claims EXCEPT ![c].active = FALSE]
    /\ cancels' = cancels + 1
    /\ UNCHANGED <<async, queue, epes, issue, edit, contentions, sync, job, faults>>

\* sync! of an established, active EPE fetches its end product.
FetchResult(e) ==
    /\ sync = None
    /\ StatusActive(e) /\ epes[e].ref # None
    /\ ~ claims[epes[e].ref].active
    /\ sync' = e
    /\ UNCHANGED <<async, queue, epes, issue, edit, vbms, job, faults, cancels>>

SaveResult ==
    /\ sync # None
    /\ HandleCancelledEp(sync)
    /\ sync' = None
    /\ UNCHANGED <<submitted, processed, queue, edit, vbms, job, faults, cancels>>

-----------------------------------------------------------------------------
Work(w) ==
    \/ \E e \in Rows : Recover(w, e) \/ ReadRecords(w, e) \/ CheckUnused(w, e)
    \/ \E i \in Issues : RemoveContention(w, i)
    \/ \E k \in DOMAIN contentions, i \in Issues : Match(w, k, i)
    \/ \E order \in Orders(Issues) : Contend(w, order)
    \/ Claim(w) \/ SaveClaim(w) \/ Matched(w) \/ ProcessReview(w)
    \/ CancelClaim(w) \/ SaveCancel(w) \/ ProcessUpdate(w)

Sync == SaveResult \/ \E e \in Rows : FetchResult(e)

Next ==
    \/ \E u \in Updates : \/ CommitUpdate(u)
                          \/ \E removed, added \in SUBSET Issues : BeginUpdate(u, removed, added)
    \/ \E t \in Things : Requeue(t) \/ \E w \in Workers : StartJob(w, t)
    \/ \E w \in Workers : Work(w) \/ Abort(w)
    \/ \E c \in DOMAIN claims : CancelUpstream(c)
    \/ Sync

Spec == Init /\ [][Next]_vars

\* A job that runs goes on, what is queued is delivered, SyncReviewsJob and
\* EndProductSyncJob run again and again, a transaction commits.
Fairness ==
    /\ \A w \in Workers : WF_vars(Work(w))
    /\ \A t \in Things : WF_vars(Requeue(t)) /\ WF_vars(\E w \in Workers : StartJob(w, t))
    /\ \A u \in Updates : WF_vars(CommitUpdate(u))
    /\ WF_vars(Sync)

FairSpec == Spec /\ Fairness

-----------------------------------------------------------------------------
\* Every row and everything a job has read has its type; a reference is to a
\* claim or contention that exists.
TypeOK ==
    /\ submitted \subseteq Things /\ processed \subseteq Things /\ canceled \subseteq Things
    /\ queue \subseteq Things
    /\ epes \in [Rows -> [exists : BOOLEAN, ref : {None} \union DOMAIN claims, synced : {None, "CAN"}]]
    /\ issue \in [Issues -> [status : {"none", "open", "removed", "end_product_canceled"},
                             epe : Rows \union {None},
                             contention : {None} \union DOMAIN contentions]]
    /\ edit \in [Updates -> [phase : {"none", "begun", "done"}, removed : SUBSET Issues,
                             added : SUBSET Issues, row : [Codes -> Rows \union {None}]]]
    /\ claims \in Seq([code : Codes, modifier : 1..MaxClaims, active : BOOLEAN])
    /\ contentions \in Seq([claim : DOMAIN claims, live : BOOLEAN, text : {Text(i) : i \in Issues}])
    /\ sync \in Rows \union {None}
    /\ job \in [Workers ->
          [thing : Things \union {None},
           pc : {"idle", "next", "claim", "save", "contend", "match", "off", "cancel", "save_cancel"},
           todo : SUBSET Rows, ref : [Rows -> {None} \union DOMAIN claims],
           epe : Rows \union {None}, taken : SUBSET (1..MaxClaims), ready : SUBSET Issues,
           known : SUBSET DOMAIN contentions, reply : SUBSET DOMAIN contentions,
           off : [Issues -> {None} \union DOMAIN contentions], unused : SUBSET (Rows \union {None})]]
    /\ faults \in 0..MaxFaults /\ cancels \in 0..MaxCancels

\* Once everything submitted is processed, each open issue of an active EPE
\* has a contention of its own EPE's end product, still there in VBMS,
\* whatever call failed on the way, was answered too late or made twice
\* (claim_review.rb establish!, RequestIssuesUpdate#establish!).
ProcessedMeansContended ==
    submitted \subseteq processed =>
        \A i \in Issues : issue[i].status = "open" /\ StatusActive(issue[i].epe) =>
            LET k == issue[i].contention
            IN  /\ k # None
                /\ contentions[k].claim = epes[issue[i].epe].ref
                /\ contentions[k].live

\* Two issues never share a contention, even with one text and with spare
\* contentions of lost replies on the claim (create_contentions!).
ContentionsDistinct ==
    \A i, j \in Issues :
        i # j /\ issue[i].contention # None => issue[i].contention # issue[j].contention

\* There is never more than one live end product for an active EPE: what a
\* broken off execution established is recovered, not established again
\* (perform!, save_recovered_end_product!).
OneClaimPerRow ==
    \A c \in Codes :
        Cardinality({d \in DOMAIN claims : claims[d].active /\ claims[d].code = c})
            <= Cardinality({n \in 1..MaxRows : StatusActive(<<c, n>>)})

\* Once an update is processed, the contentions recorded for what it removed
\* are off the claim; once all are, no EPE they emptied is left active
\* (RequestIssuesUpdate#establish!, cancel_unused_end_product!).
RemovalCarriedOut ==
    \A u \in Updates \intersect processed : \A i \in edit[u].removed :
        /\ issue[i].contention # None => ~ contentions[issue[i].contention].live
        /\ submitted \subseteq processed /\ StatusActive(issue[i].epe)
              => ActiveIssues(issue[i].epe) # {}

\* Again and again everything submitted is processed or canceled, as long as
\* calls do not fail for ever (SyncReviewsJob, EndProductSyncJob).
Settles == []<>(submitted \subseteq processed \union canceled)
=============================================================================
