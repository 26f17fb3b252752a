--------------------------- MODULE AppealDispatch ---------------------------
(***************************************************************************)
(* The end of an appeal: a member of the dispatch team outcodes it         *)
(* (AmaAppealDispatch), and ProcessDecisionDocumentJob carries its         *)
(* decision out: the document goes to VBMS, granted issues are effectuated *)
(* with end products and contentions, remanded issues go to new            *)
(* supplemental claims, whose own jobs EndProducts models.                 *)
(*                                                                         *)
(* No transaction spans the steps of either: every statement, call of S3   *)
(* or VBMS, and request is an action, and a request or a job may break off *)
(* before any of them. Rows of documents, effectuations and EPEs are       *)
(* numbered in creation order. Issues are those processed in VBMS, and the *)
(* decision date is not in the future.                                     *)
(***************************************************************************)
EXTENDS Naturals, FiniteSets, SequencesExt

CONSTANTS
    Grants,         \* decision issues with the disposition "allowed"
    RatingGrants,   \* those decided by rating, with an end product code of their own
    Remands,        \* decision issues remanded
    Pension,        \* the remands of another benefit type
    Citations,      \* citation numbers a request may come with
    Requests,       \* outcode requests that may be under way at one time
    Workers,        \* job workers
    MaxFaults,      \* bound on requests and executions broken off
    None

ASSUME IssuesAssumption ==
    /\ RatingGrants \subseteq Grants /\ Pension \subseteq Remands
    /\ Grants \intersect Remands = {}
ASSUME BoundsAssumption == MaxFaults \in Nat /\ IsFiniteSet(Citations)
ASSUME NoneAssumption == None \notin Nat \union Citations \union Grants \union Remands

Docs      == 1..Cardinality(Citations)
Codes     == {"030BGR", "030BGRNR"}
Benefits  == {"compensation", "pension"}
Code(g)    == IF g \in RatingGrants THEN "030BGR" ELSE "030BGRNR"
Benefit(i) == IF i \in Pension THEN "pension" ELSE "compensation"

VARIABLES
    task,        \* status of the user's BvaDispatchTask
    root,        \* status of the RootTask
    decided,     \* the request issues are closed as decided
    docs,        \* decision_documents: citation, submitted, uploaded, processed
    file,        \* the document S3 keeps for the appeal
    copies,      \* of each document in VBMS
    queue,       \* documents with a ProcessDecisionDocumentJob queued
    effs,        \* board_grant_effectuations: issue, doc, epe, contention
    epes,        \* their end_product_establishments: doc, code, claim
    claims,      \* codes of the end products VBMS established
    contentions, \* VBMS: the claim and the grant of each contention
    sc,          \* the remand supplemental claim of each benefit type
    remand,      \* the request issue that contests each remanded issue
    request,     \* the outcode requests
    job,         \* the executions of ProcessDecisionDocumentJob
    faults

outcode == <<task, root, decided>>
vbms    == <<claims, contentions>>
grants  == <<effs, epes, vbms>>
remands == <<sc, remand>>
vars    == <<outcode, docs, file, copies, queue, grants, remands, request, job, faults>>

NoRequest == [pc |-> "idle", citation |-> None, doc |-> None]
Idle == [pc |-> "idle", doc |-> None, done |-> {}, epes |-> {}, epe |-> None, claim |-> None,
         records |-> {}, reply |-> {}, benefits |-> {}, benefit |-> None, issues |-> {}]
NoClaim == [phase |-> "none", submitted |-> FALSE, processed |-> FALSE]

Submitted == {d \in DOMAIN docs : docs[d].submitted}
Processed == {d \in DOMAIN docs : docs[d].processed}

-----------------------------------------------------------------------------
Init ==
    /\ task = "assigned" /\ root = "on_hold" /\ decided = FALSE
    /\ docs = <<>> /\ file = None /\ copies = [d \in Docs |-> 0] /\ queue = {}
    /\ effs = <<>> /\ epes = <<>> /\ claims = <<>> /\ contentions = <<>>
    /\ sc = [b \in Benefits |-> NoClaim] /\ remand = [i \in Remands |-> "none"]
    /\ request = [r \in Requests |-> NoRequest]
    /\ job = [w \in Workers |-> Idle]
    /\ faults = 0

-----------------------------------------------------------------------------
(* AmaAppealDispatch#call *)

At(r, pc) == request[r].pc = pc
Goto(r, pc) == request' = [request EXCEPT ![r].pc = pc]
CitationUsed(c) == \E d \in DOMAIN docs : docs[d].citation = c

\* The one dispatch task of the user is not completed, and no document has the
\* citation number.
CheckRequest(r, c) ==
    /\ At(r, "idle") /\ task # "completed" /\ ~ CitationUsed(c)
    /\ request' = [request EXCEPT ![r] = [NoRequest EXCEPT !.pc = "create", !.citation = c]]
    /\ UNCHANGED <<outcode, docs, file, copies, queue, grants, remands, job, faults>>

\* Fault: the task is completed before the document is submitted.
CreateDocumentEarly(r) ==
    /\ At(r, "create") /\ ~ CitationUsed(request[r].citation)
    /\ docs' = Append(docs, [citation |-> request[r].citation, submitted |-> FALSE,
                             uploaded |-> FALSE, processed |-> FALSE])
    /\ request' = [request EXCEPT ![r].pc = "task", ![r].doc = Len(docs) + 1]
    /\ UNCHANGED <<outcode, file, copies, queue, grants, remands, job, faults>>

\* DecisionDocument.create!, or the unique index on the citation refuses it.
CreateDocument(r) ==
    /\ At(r, "create")
    /\ IF CitationUsed(request[r].citation)
       THEN /\ request' = [request EXCEPT ![r] = NoRequest]
            /\ UNCHANGED docs
       ELSE /\ docs' = Append(docs, [citation |-> request[r].citation, submitted |-> FALSE,
                                     uploaded |-> FALSE, processed |-> FALSE])
            /\ request' = [request EXCEPT ![r].pc = "store", ![r].doc = Len(docs) + 1]
    /\ UNCHANGED <<outcode, file, copies, queue, grants, remands, job, faults>>

\* cache_file!: S3 keeps one file for the appeal.
StoreFile(r) ==
    /\ At(r, "store")
    /\ file' = request[r].doc
    /\ Goto(r, "submit")
    /\ UNCHANGED <<outcode, docs, copies, queue, grants, remands, job, faults>>

SubmitDocument(r) ==
    /\ At(r, "submit")
    /\ docs' = [docs EXCEPT ![request[r].doc].submitted = TRUE, ![request[r].doc].processed = FALSE]
    /\ Goto(r, "enqueue")
    /\ UNCHANGED <<outcode, file, copies, queue, grants, remands, job, faults>>

\* not_processed_or_decision_date_not_in_the_future? reads the row in memory.
Enqueue(r) ==
    /\ At(r, "enqueue")
    /\ queue' = queue \union {request[r].doc}
    /\ Goto(r, "task")
    /\ UNCHANGED <<outcode, docs, file, copies, grants, remands, job, faults>>

CompleteTask(r) ==
    /\ At(r, "task")
    /\ task' = "completed"
    /\ Goto(r, "root")
    /\ UNCHANGED <<root, decided, docs, file, copies, queue, grants, remands, job, faults>>

CompleteRoot(r) ==
    /\ At(r, "root")
    /\ root' = "completed"
    /\ Goto(r, "issues")
    /\ UNCHANGED <<task, decided, docs, file, copies, queue, grants, remands, job, faults>>

\* close_decided_issue! of every issue; no property tells them apart.
CloseIssues(r) ==
    /\ At(r, "issues")
    /\ decided' = TRUE
    /\ request' = [request EXCEPT ![r] = NoRequest]
    /\ UNCHANGED <<task, root, docs, file, copies, queue, grants, remands, job, faults>>

\* A call of BGS or S3 fails, or the web server is killed.
FailRequest(r) ==
    /\ ~ At(r, "idle") /\ faults < MaxFaults
    /\ faults' = faults + 1
    /\ request' = [request EXCEPT ![r] = NoRequest]
    /\ UNCHANGED <<outcode, docs, file, copies, queue, grants, remands, job>>

-----------------------------------------------------------------------------
(* ProcessDecisionDocumentJob: DecisionDocument#process! *)

Busy(w, pc) == job[w].pc = pc
Step(w, record, pc) == job' = [job EXCEPT ![w] = [record EXCEPT !.pc = pc]]
Leave(w) == job' = [job EXCEPT ![w] = Idle]
Running(d) == \E w \in Workers : job[w].pc # "idle" /\ job[w].doc = d

\* Fault: SyncReviewsJob leaves out the documents.
RequeueNothing(d) ==
    /\ FALSE
    /\ UNCHANGED vars

\* SyncReviewsJob#reprocess_decision_documents, long after the last attempt.
Requeue(d) ==
    /\ d \in Submitted \ (Processed \union queue) /\ ~ Running(d)
    /\ queue' = queue \union {d}
    /\ UNCHANGED <<outcode, docs, file, copies, grants, remands, request, job, faults>>

\* process! returns when the document is processed, else attempted!.
StartJob(w, d) ==
    /\ Busy(w, "idle")
    /\ d \in queue /\ ~ Running(d)
    /\ queue' = queue \ {d}
    /\ IF docs[d].processed THEN UNCHANGED job
       ELSE Step(w, [Idle EXCEPT !.doc = d], "upload")
    /\ UNCHANGED <<outcode, docs, file, copies, grants, remands, request, faults>>

\* upload_to_vbms!: the document goes to VBMS unless it is known to be there ...
Upload(w) ==
    /\ Busy(w, "upload")
    /\ IF docs[job[w].doc].uploaded
       THEN Step(w, job[w], "effect") /\ UNCHANGED copies
       ELSE /\ copies' = [copies EXCEPT ![job[w].doc] = @ + 1]
            /\ Step(w, job[w], "uploaded")
    /\ UNCHANGED <<outcode, docs, file, queue, grants, remands, request, faults>>

\* ... and uploaded_to_vbms_at is saved.
SaveUpload(w) ==
    /\ Busy(w, "uploaded")
    /\ docs' = [docs EXCEPT ![job[w].doc].uploaded = TRUE]
    /\ Step(w, job[w], "effect")
    /\ UNCHANGED <<outcode, file, copies, queue, grants, remands, request, faults>>

-----------------------------------------------------------------------------
(* Granted issues *)

Effectuated(g) == \E x \in DOMAIN effs : effs[x].issue = g

\* Appeal#decision_document is the last one, whichever is being processed.
DecisionDocument == Len(docs)

\* find_or_build_end_product_establishment: one of that document and code that
\* is not established, or a new row.
EpeFor(g) ==
    LET found == {e \in DOMAIN epes : epes[e].doc = DecisionDocument
                                      /\ epes[e].code = Code(g) /\ epes[e].claim = None}
    IN  IF found = {} THEN {Len(epes) + 1} ELSE found

\* BoardGrantEffectuation.find_or_create_by, with the row's before_save
\* callback in its transaction.
Effectuate(w, g) ==
    /\ Busy(w, "effect") /\ g \notin job[w].done
    /\ IF Effectuated(g) THEN UNCHANGED <<effs, epes>>
       ELSE \E e \in EpeFor(g) :
              /\ epes' = IF e \in DOMAIN epes THEN epes
                         ELSE Append(epes, [doc |-> DecisionDocument, code |-> Code(g), claim |-> None])
              /\ effs' = Append(effs, [issue |-> g, doc |-> DecisionDocument, epe |-> e,
                                       contention |-> None])
    /\ Step(w, [job[w] EXCEPT !.done = @ \union {g}], "effect")
    /\ UNCHANGED <<outcode, docs, file, copies, queue, vbms, remands, request, faults>>

\* Fault: an EPE that is established is taken to be done.
LoadUnestablished(w) ==
    /\ Busy(w, "effect") /\ job[w].done = Grants
    /\ Step(w, [job[w] EXCEPT !.epes = {e \in DOMAIN epes : epes[e].doc = job[w].doc
                                                          /\ epes[e].claim = None}], "epes")
    /\ UNCHANGED <<outcode, docs, file, copies, queue, grants, remands, request, faults>>

\* process_board_grant_effectuations! loads the EPEs of the document.
LoadEpes(w) ==
    /\ Busy(w, "effect") /\ job[w].done = Grants
    /\ Step(w, [job[w] EXCEPT !.epes = {e \in DOMAIN epes : epes[e].doc = job[w].doc}], "epes")
    /\ UNCHANGED <<outcode, docs, file, copies, queue, grants, remands, request, faults>>

\* Fault: what VBMS established before is not looked for.
NothingRecoverable(e) == {}

\* matching_established_end_product: an end product of VBMS with the code of the
\* EPE that no EPE refers to. previously_attempted? does not restrict it: it
\* compares two readings of the clock.
Recoverable(e) ==
    {c \in DOMAIN claims : claims[c] = epes[e].code /\ \A f \in DOMAIN epes : epes[f].claim # c}

\* perform!: nothing to do, the end product of a lost reply, or a new one.
Establish(w, e) ==
    /\ Busy(w, "epes") /\ e \in job[w].epes
    /\ IF epes[e].claim # None
       THEN Step(w, [job[w] EXCEPT !.epe = e], "contend") /\ UNCHANGED <<epes, claims>>
       ELSE \/ \E c \in Recoverable(e) :
                  /\ epes' = [epes EXCEPT ![e].claim = c]
                  /\ Step(w, [job[w] EXCEPT !.epe = e], "contend")
                  /\ UNCHANGED claims
            \/ /\ Recoverable(e) = {}
               /\ claims' = Append(claims, epes[e].code)
               /\ Step(w, [job[w] EXCEPT !.epe = e, !.claim = Len(claims) + 1], "established")
               /\ UNCHANGED epes
    /\ UNCHANGED <<outcode, docs, file, copies, queue, effs, contentions, remands, request, faults>>

SaveClaim(w) ==
    /\ Busy(w, "established")
    /\ epes' = [epes EXCEPT ![job[w].epe].claim = job[w].claim]
    /\ Step(w, [job[w] EXCEPT !.claim = None], "contend")
    /\ UNCHANGED <<outcode, docs, file, copies, queue, effs, vbms, remands, request, faults>>

\* contention_records: the effectuations of this document and this EPE.
Records(w) == {x \in DOMAIN effs : effs[x].doc = job[w].doc /\ effs[x].epe = job[w].epe}

\* create_contentions!: VBMS adds one for each record that has none and answers
\* with all those of the end product, less those the records know.
Contend(w) ==
    /\ Busy(w, "contend")
    /\ LET ready == {x \in Records(w) : effs[x].contention = None}
           order == SetToSeq(ready)
           claim == epes[job[w].epe].claim
           all   == contentions \o [n \in DOMAIN order |->
                        [claim |-> claim, issue |-> effs[order[n]].issue]]
       IN IF ready = {}
          THEN /\ Step(w, [job[w] EXCEPT !.epes = @ \ {job[w].epe}, !.epe = None], "epes")
               /\ UNCHANGED contentions
          ELSE /\ contentions' = all
               /\ Step(w, [job[w] EXCEPT !.records = ready,
                     !.reply = {k \in DOMAIN all : all[k].claim = claim}
                               \ {effs[x].contention : x \in Records(w)}], "match")
    /\ UNCHANGED <<outcode, docs, file, copies, queue, effs, epes, claims, remands, request, faults>>

\* Fault: the id of the end product is recorded in the place of the contention's.
MatchClaim(w, k, x) ==
    /\ Busy(w, "match")
    /\ k \in job[w].reply /\ x \in job[w].records
    /\ contentions[k].issue = effs[x].issue
    /\ effs' = [effs EXCEPT ![x].contention = Len(claims) + k]
    /\ Step(w, [job[w] EXCEPT !.reply = @ \ {k}, !.records = @ \ {x}], "match")
    /\ UNCHANGED <<outcode, docs, file, copies, queue, epes, vbms, remands, request, faults>>

\* A contention of the reply goes to the record with its text. Saving the
\* effectuation runs its before_save callback again.
Match(w, k, x) ==
    /\ Busy(w, "match")
    /\ k \in job[w].reply /\ x \in job[w].records
    /\ contentions[k].issue = effs[x].issue
    /\ effs' = [effs EXCEPT ![x].contention = k, ![x].doc = DecisionDocument]
    /\ Step(w, [job[w] EXCEPT !.reply = @ \ {k}, !.records = @ \ {x}], "match")
    /\ UNCHANGED <<outcode, docs, file, copies, queue, epes, vbms, remands, request, faults>>

\* Every record has its contention: the EPE is committed.
Matched(w) ==
    /\ Busy(w, "match") /\ job[w].records = {}
    /\ Step(w, [job[w] EXCEPT !.epes = @ \ {job[w].epe}, !.epe = None, !.reply = {}], "epes")
    /\ UNCHANGED <<outcode, docs, file, copies, queue, grants, remands, request, faults>>

-----------------------------------------------------------------------------
(* Remanded issues: Appeal#create_remand_supplemental_claims! *)

\* The remanded issues no request issue contests.
Uncontested(b) == {i \in Remands : remand[i] = "none" /\ Benefit(i) = b}

LoadRemands(w) ==
    /\ Busy(w, "epes") /\ job[w].epes = {}
    /\ Step(w, [job[w] EXCEPT !.benefits = {b \in Benefits : Uncontested(b) # {}}], "claims")
    /\ UNCHANGED <<outcode, docs, file, copies, queue, grants, remands, request, faults>>

\* find_or_create_remand_supplemental_claim!: the claim, and then its claimant.
CreateClaim(w, b) ==
    /\ Busy(w, "claims") /\ b \in job[w].benefits
    /\ IF sc[b].phase = "none"
       THEN /\ sc' = [sc EXCEPT ![b].phase = "created"]
            /\ Step(w, [job[w] EXCEPT !.benefit = b], "claimant")
       ELSE /\ Step(w, [job[w] EXCEPT !.benefits = @ \ {b}], "claims")
            /\ UNCHANGED sc
    /\ UNCHANGED <<outcode, docs, file, copies, queue, grants, remand, request, faults>>

CreateClaimant(w) ==
    /\ Busy(w, "claimant")
    /\ sc' = [sc EXCEPT ![job[w].benefit].phase = "claimant"]
    /\ Step(w, [job[w] EXCEPT !.benefits = @ \ {job[w].benefit}, !.benefit = None], "claims")
    /\ UNCHANGED <<outcode, docs, file, copies, queue, grants, remand, request, faults>>

LoadClaims(w) ==
    /\ Busy(w, "claims") /\ job[w].benefits = {}
    /\ Step(w, [job[w] EXCEPT !.benefits = {b \in Benefits : sc[b].phase # "none"}], "issues")
    /\ UNCHANGED <<outcode, docs, file, copies, queue, grants, remands, request, faults>>

\* create_remand_issues!: a request issue for every uncontested issue is saved ...
SaveIssues(w, b) ==
    /\ Busy(w, "issues") /\ b \in job[w].benefits
    /\ remand' = [i \in Remands |-> IF i \in Uncontested(b) THEN "saved" ELSE remand[i]]
    /\ Step(w, [job[w] EXCEPT !.benefit = b, !.issues = Uncontested(b)], "attach")
    /\ UNCHANGED <<outcode, docs, file, copies, queue, grants, sc, request, faults>>

\* ... and each then gets its EPE, for which the code asks BGS and VBMS.
AttachIssue(w, i) ==
    /\ Busy(w, "attach") /\ i \in job[w].issues
    /\ remand' = [remand EXCEPT ![i] = "attached"]
    /\ Step(w, [job[w] EXCEPT !.issues = @ \ {i}], "attach")
    /\ UNCHANGED <<outcode, docs, file, copies, queue, grants, sc, request, faults>>

\* The claim is submitted, again if it was established meanwhile.
SubmitClaim(w) ==
    /\ Busy(w, "attach") /\ job[w].issues = {}
    /\ sc' = [sc EXCEPT ![job[w].benefit].submitted = TRUE, ![job[w].benefit].processed = FALSE]
    /\ Step(w, [job[w] EXCEPT !.benefits = @ \ {job[w].benefit}, !.benefit = None], "issues")
    /\ UNCHANGED <<outcode, docs, file, copies, queue, grants, remand, request, faults>>

Finish(w) ==
    /\ Busy(w, "issues") /\ job[w].benefits = {}
    /\ docs' = [docs EXCEPT ![job[w].doc].processed = TRUE]
    /\ Leave(w)
    /\ UNCHANGED <<outcode, file, copies, queue, grants, remands, request, faults>>

\* A call of VBMS or BGS fails, its reply is lost, or the worker is killed.
FailJob(w) ==
    /\ ~ Busy(w, "idle") /\ faults < MaxFaults
    /\ faults' = faults + 1
    /\ Leave(w)
    /\ UNCHANGED <<outcode, docs, file, copies, queue, grants, remands, request>>

\* The job of the supplemental claim, which EndProducts models.
EstablishClaim(b) ==
    /\ sc[b].submitted /\ ~ sc[b].processed
    /\ sc' = [sc EXCEPT ![b].processed = TRUE]
    /\ UNCHANGED <<outcode, docs, file, copies, queue, grants, remand, request, job, faults>>

-----------------------------------------------------------------------------
Dispatch(r) ==
    \/ CreateDocument(r) \/ StoreFile(r) \/ SubmitDocument(r) \/ Enqueue(r)
    \/ CompleteTask(r) \/ CompleteRoot(r) \/ CloseIssues(r)

Work(w) ==
    \/ Upload(w) \/ SaveUpload(w) \/ LoadEpes(w) \/ SaveClaim(w) \/ Contend(w) \/ Matched(w)
    \/ \E g \in Grants : Effectuate(w, g)
    \/ \E e \in DOMAIN epes : Establish(w, e)
    \/ \E k \in DOMAIN contentions, x \in DOMAIN effs : Match(w, k, x)
    \/ LoadRemands(w) \/ CreateClaimant(w) \/ LoadClaims(w) \/ SubmitClaim(w) \/ Finish(w)
    \/ \E b \in Benefits : CreateClaim(w, b) \/ SaveIssues(w, b)
    \/ \E i \in Remands : AttachIssue(w, i)

Next ==
    \/ \E r \in Requests : \/ \E c \in Citations : CheckRequest(r, c)
                           \/ Dispatch(r) \/ FailRequest(r)
    \/ \E d \in DOMAIN docs : Requeue(d) \/ \E w \in Workers : StartJob(w, d)
    \/ \E w \in Workers : Work(w) \/ FailJob(w)
    \/ \E b \in Benefits : EstablishClaim(b)

Spec == Init /\ [][Next]_vars

\* A job that runs goes on, what is queued is delivered, and SyncReviewsJob
\* runs again and again. Nothing makes a user outcode.
Fairness ==
    /\ \A w \in Workers : WF_vars(Work(w))
    /\ \A d \in Docs : WF_vars(d \in DOMAIN docs /\ Requeue(d))
                       /\ WF_vars(\E w \in Workers : d \in DOMAIN docs /\ StartJob(w, d))

FairSpec == Spec /\ Fairness

-----------------------------------------------------------------------------
\* Every row has its type; a reference is to a row or a record of VBMS that exists.
TypeOK ==
    /\ task \in {"assigned", "completed"} /\ root \in {"on_hold", "completed"} /\ decided \in BOOLEAN
    /\ docs \in Seq([citation : Citations, submitted : BOOLEAN, uploaded : BOOLEAN, processed : BOOLEAN])
    /\ Len(docs) <= Cardinality(Citations)
    /\ file \in {None} \union DOMAIN docs /\ copies \in [Docs -> Nat] /\ queue \subseteq DOMAIN docs
    /\ effs \in Seq([issue : Grants, doc : DOMAIN docs, epe : DOMAIN epes,
                     contention : {None} \union DOMAIN contentions])
    /\ epes \in Seq([doc : DOMAIN docs, code : Codes, claim : {None} \union DOMAIN claims])
    /\ claims \in Seq(Codes)
    /\ contentions \in Seq([claim : DOMAIN claims, issue : Grants])
    /\ sc \in [Benefits -> [phase : {"none", "created", "claimant"},
                            submitted : BOOLEAN, processed : BOOLEAN]]
    /\ remand \in [Remands -> {"none", "saved", "attached"}]
    /\ request \in [Requests ->
          [pc : {"idle", "create", "store", "submit", "enqueue", "task", "root", "issues"},
           citation : {None} \union Citations, doc : {None} \union DOMAIN docs]]
    /\ job \in [Workers ->
          [pc : {"idle", "upload", "uploaded", "effect", "epes", "established", "contend", "match",
                 "claims", "claimant", "issues", "attach"},
           doc : {None} \union DOMAIN docs, epe : {None} \union DOMAIN epes,
           claim : {None} \union DOMAIN claims, done : SUBSET Grants, epes : SUBSET DOMAIN epes,
           records : SUBSET DOMAIN effs, reply : SUBSET DOMAIN contentions, benefits : SUBSET Benefits,
           benefit : {None} \union Benefits, issues : SUBSET Remands]]
    /\ faults \in 0..MaxFaults

\* An appeal whose root task is completed has a submitted document and its file:
\* outcoding may break off anywhere and never closes an appeal with nothing to
\* send (AmaAppealDispatch#outcode_appeal). A document that is processed is in
\* VBMS, wherever the executions that uploaded it and recorded the time broke off
\* (upload_to_vbms!).
ClosedHasDecision ==
    /\ root = "completed" \/ task = "completed" \/ decided => Submitted # {} /\ file # None
    /\ \A d \in Processed : docs[d].uploaded /\ copies[d] > 0

\* VBMS has no more end products of a code than there are EPEs of it: one whose
\* reply was lost is recovered by the next execution (save_recovered_end_product!).
ClaimsBounded ==
    \A c \in Codes : Cardinality({k \in DOMAIN claims : claims[k] = c})
                      <= Cardinality({e \in DOMAIN epes : epes[e].code = c})

\* Once the appeal is closed and every submitted document is processed, each
\* grant has its effectuation, and one that was matched, or hangs on a submitted
\* document, has its contention on the end product of its EPE, which is
\* established for the code of the grant (process_board_grant_effectuations!).
GrantsCarriedOut ==
    root = "completed" /\ Submitted \subseteq Processed =>
        \A g \in Grants : \E x \in DOMAIN effs :
            /\ effs[x].issue = g
            /\ effs[x].contention # None \/ effs[x].doc \in Submitted =>
                 LET claim == epes[effs[x].epe].claim
                 IN  /\ claim # None /\ claims[claim] = Code(g)
                     /\ effs[x].contention # None
                     /\ contentions[effs[x].contention] = [claim |-> claim, issue |-> g]

\* Once the documents and the supplemental claims are processed, every remanded
\* issue is on an end product of its supplemental claim.
RemandsReachAClaim ==
    /\ Submitted # {} /\ Submitted \subseteq Processed
    /\ \A b \in Benefits : sc[b].submitted => sc[b].processed
    => \A i \in Remands : remand[i] = "attached"

\* A submitted document is in VBMS and its decision carried out in the end,
\* whatever calls failed (ProcessDecisionDocumentJob, SyncReviewsJob).
DecisionCarriedOut == \A d \in Docs : d \in Submitted ~> d \in Processed
=============================================================================
