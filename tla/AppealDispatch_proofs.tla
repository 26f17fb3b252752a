----------------------- MODULE AppealDispatch_proofs ------------------------
(***************************************************************************)
(* Proofs about AppealDispatch, for any issues, citations, requests,       *)
(* workers and faults: the inductive invariant, and from it the type       *)
(* invariant, ClosedHasDecision, GrantsCarriedOut and ClaimsBounded.       *)
(***************************************************************************)
EXTENDS AppealDispatch, FiniteSetTheorems, SequenceTheorems, TLAPS

-----------------------------------------------------------------------------
(* The inductive invariant *)

\* A citation number is used once, a document that is known to be uploaded is
\* in VBMS, and one request or execution after the other proves a closed appeal.
DocumentsSound ==
    /\ \A d, e \in DOMAIN docs : docs[d].citation = docs[e].citation => d = e
    /\ \A d \in DOMAIN docs : docs[d].uploaded => copies[d] > 0
    /\ root = "completed" \/ task = "completed" \/ decided => Submitted # {} /\ file # None

\* What a request that got this far, the record q, has done.
RequestSound(q) ==
    /\ q.pc = "create" => q.citation \in Citations
    /\ q.pc \in {"store", "submit", "enqueue", "task", "root", "issues"} => q.doc \in DOMAIN docs
    /\ q.pc \in {"submit", "enqueue", "task", "root", "issues"} => file # None
    /\ q.pc \in {"enqueue", "task", "root", "issues"} => docs[q.doc].submitted

\* The steps of an execution after it loaded the EPEs of its document.
Loaded == {"epes", "established", "contend", "match", "claims", "claimant", "issues", "attach"}

AllEffectuated == \A g \in Grants : Effectuated(g)

\* What an execution that got this far, the record j, has done to documents
\* and grants.
JobSound(j) ==
    /\ j.pc # "idle" => j.doc \in DOMAIN docs
    /\ j.pc = "uploaded" => copies[j.doc] > 0
    /\ j.pc \in Loaded \union {"effect"} => docs[j.doc].uploaded
    /\ \A g \in j.done : Effectuated(g)
    /\ j.pc \in Loaded => AllEffectuated
    /\ j.pc \in {"claimant", "attach"} => j.benefit \in Benefits

\* The EPE it is at is of its document; so is the end product it established.
EpeSound(j) ==
    /\ j.pc # "idle" => \A e \in j.epes : epes[e].doc = j.doc
    /\ j.pc \in {"established", "contend", "match"} => j.epe \in j.epes
    /\ j.pc = "established" =>
         /\ j.claim \in DOMAIN claims /\ claims[j.claim] = epes[j.epe].code
         /\ epes[j.epe].claim = None
    /\ j.pc \in {"contend", "match"} => epes[j.epe].claim # None
    /\ j.pc \in {"claims", "claimant", "issues", "attach"} => j.epes = {}

\* Records to match are without contention and of the EPE, and so is the reply.
RecordsSound(j) ==
    j.pc = "match" =>
        /\ \A x \in j.records : effs[x].epe = j.epe /\ effs[x].contention = None
        /\ \A k \in j.reply : contentions[k].claim = epes[j.epe].claim

\* No effectuation of the document that has no contention is forgotten: its EPE
\* is still to be done, and when that is being matched, it is a record to match.
NoneForgotten(j) ==
    j.pc \in Loaded =>
        \A x \in DOMAIN effs : effs[x].doc = j.doc /\ effs[x].contention = None =>
            /\ effs[x].epe \in j.epes
            /\ j.pc = "match" /\ effs[x].epe = j.epe => x \in j.records

Fit(j) == JobSound(j) /\ EpeSound(j) /\ RecordsSound(j) /\ NoneForgotten(j)

\* Two executions are never of one document.
OneExecution ==
    \A v, w \in Workers : job[v].pc # "idle" /\ job[w].pc # "idle" /\ job[v].doc = job[w].doc => v = w

ProcessedSound ==
    \A d \in DOMAIN docs : docs[d].processed =>
        /\ docs[d].uploaded /\ AllEffectuated
        /\ \A x \in DOMAIN effs : effs[x].doc = d => effs[x].contention # None

GrantsSound ==
    /\ \A e \in DOMAIN epes : epes[e].claim # None => claims[epes[e].claim] = epes[e].code
    /\ \A x \in DOMAIN effs :
         /\ epes[effs[x].epe].code = Code(effs[x].issue)
         /\ effs[x].contention = None => effs[x].doc = epes[effs[x].epe].doc
         /\ effs[x].contention # None =>
              /\ epes[effs[x].epe].claim # None
              /\ contentions[effs[x].contention] =
                   [claim |-> epes[effs[x].epe].claim, issue |-> effs[x].issue]

\* An end product of VBMS no EPE refers to.
Orphan(k) == k \in DOMAIN claims /\ \A e \in DOMAIN epes : epes[e].claim # k

\* An EPE that has none, and that no execution is about to give another one.
Awaits(e, k) ==
    /\ e \in DOMAIN epes /\ epes[e].claim = None /\ epes[e].code = claims[k]
    /\ \A w \in Workers : job[w].pc = "established" /\ job[w].epe = e => job[w].claim = k

\* There is one orphan of a code at most, and an EPE that may still take it.
OrphansAwaited ==
    /\ \A k, l \in DOMAIN claims : Orphan(k) /\ Orphan(l) /\ claims[k] = claims[l] => k = l
    /\ \A k \in DOMAIN claims : Orphan(k) => \E e \in DOMAIN epes : Awaits(e, k)

Sound ==
    /\ DocumentsSound
    /\ \A r \in Requests : RequestSound(request[r])
    /\ \A w \in Workers : Fit(job[w])
    /\ OneExecution /\ ProcessedSound /\ GrantsSound /\ OrphansAwaited

IInv == TypeOK /\ Sound
-----------------------------------------------------------------------------
(* Types *)

DocRows == [citation : Citations, submitted : BOOLEAN, uploaded : BOOLEAN, processed : BOOLEAN]
EffRows(D, E, K) == [issue : Grants, doc : D, epe : E, contention : {None} \union K]
EpeRows(D, C) == [doc : D, code : Codes, claim : {None} \union C]
ContentionRows(C) == [claim : C, issue : Grants]
RequestRows(D) ==
    [pc : {"idle", "create", "store", "submit", "enqueue", "task", "root", "issues"},
     citation : {None} \union Citations, doc : {None} \union D]
JobSteps ==
    {"idle", "upload", "uploaded", "effect", "epes", "established", "contend", "match",
     "claims", "claimant", "issues", "attach"}
JobRows(D, E, F, C, K) ==
    [pc : JobSteps, doc : {None} \union D, epe : {None} \union E, claim : {None} \union C,
     done : SUBSET Grants, epes : SUBSET E, records : SUBSET F, reply : SUBSET K,
     benefits : SUBSET Benefits, benefit : {None} \union Benefits, issues : SUBSET Remands]
ClaimRows ==
    [phase : {"none", "created", "claimant"}, submitted : BOOLEAN, processed : BOOLEAN]

JobTypes == JobRows(DOMAIN docs, DOMAIN epes, DOMAIN effs, DOMAIN claims, DOMAIN contentions)

LEMMA TypeParts ==
    TypeOK <=>
        /\ task \in {"assigned", "completed"} /\ root \in {"on_hold", "completed"}
        /\ decided \in BOOLEAN
        /\ docs \in Seq(DocRows) /\ Len(docs) <= Cardinality(Citations)
        /\ file \in {None} \union DOMAIN docs /\ copies \in [Docs -> Nat]
        /\ queue \subseteq DOMAIN docs
        /\ effs \in Seq(EffRows(DOMAIN docs, DOMAIN epes, DOMAIN contentions))
        /\ epes \in Seq(EpeRows(DOMAIN docs, DOMAIN claims))
        /\ claims \in Seq(Codes) /\ contentions \in Seq(ContentionRows(DOMAIN claims))
        /\ sc \in [Benefits -> ClaimRows]
        /\ remand \in [Remands -> {"none", "saved", "attached"}]
        /\ request \in [Requests -> RequestRows(DOMAIN docs)]
        /\ job \in [Workers -> JobTypes]
        /\ faults \in 0..MaxFaults
BY Zenon DEF TypeOK, DocRows, EffRows, EpeRows, ContentionRows, RequestRows, JobSteps, JobRows,
             JobTypes, ClaimRows

LEMMA TypePartsNext ==
    TypeOK' <=>
        /\ task' \in {"assigned", "completed"} /\ root' \in {"on_hold", "completed"}
        /\ decided' \in BOOLEAN
        /\ docs' \in Seq(DocRows) /\ Len(docs') <= Cardinality(Citations)
        /\ file' \in {None} \union DOMAIN docs' /\ copies' \in [Docs -> Nat]
        /\ queue' \subseteq DOMAIN docs'
        /\ effs' \in Seq(EffRows(DOMAIN docs', DOMAIN epes', DOMAIN contentions'))
        /\ epes' \in Seq(EpeRows(DOMAIN docs', DOMAIN claims'))
        /\ claims' \in Seq(Codes) /\ contentions' \in Seq(ContentionRows(DOMAIN claims'))
        /\ sc' \in [Benefits -> ClaimRows]
        /\ remand' \in [Remands -> {"none", "saved", "attached"}]
        /\ request' \in [Requests -> RequestRows(DOMAIN docs')]
        /\ job' \in [Workers -> JobRows(DOMAIN docs', DOMAIN epes', DOMAIN effs',
                                        DOMAIN claims', DOMAIN contentions')]
        /\ faults' \in 0..MaxFaults
BY Zenon DEF TypeOK, DocRows, EffRows, EpeRows, ContentionRows, RequestRows, JobSteps, JobRows,
             ClaimRows

\* A sequence of elements of S is one of elements of a larger set.
LEMMA SeqWidened ==
    ASSUME NEW S, NEW T, S \subseteq T, NEW s \in Seq(S)
    PROVE  s \in Seq(T)
<1>1. Len(s) \in Nat /\ s \in [1..Len(s) -> S]
  BY LenProperties
<1>2. s \in [1..Len(s) -> T]
  BY <1>1
<1> QED
  BY <1>1, <1>2, SeqDef

\* What Append does.
LEMMA Appended ==
    ASSUME NEW S, NEW s \in Seq(S), NEW e \in S
    PROVE  /\ Append(s, e) \in Seq(S)
           /\ Len(s) \in Nat /\ DOMAIN s = 1..Len(s)
           /\ Len(Append(s, e)) = Len(s) + 1 /\ Len(s) + 1 \notin DOMAIN s
           /\ DOMAIN Append(s, e) = DOMAIN s \union {Len(s) + 1}
           /\ \A i \in DOMAIN s : Append(s, e)[i] = s[i]
           /\ Append(s, e)[Len(s) + 1] = e
<1>1. Len(s) \in Nat /\ DOMAIN s = 1..Len(s)
  BY LenProperties
<1>2. /\ Append(s, e) \in Seq(S) /\ Len(Append(s, e)) = Len(s) + 1
      /\ \A i \in 1..Len(s) : Append(s, e)[i] = s[i]
      /\ Append(s, e)[Len(s) + 1] = e
  BY AppendProperties
<1>3. DOMAIN Append(s, e) = 1..(Len(s) + 1)
  BY <1>2, LenProperties
<1> QED
  BY <1>1, <1>2, <1>3

\* A row that is replaced by another.
LEMMA Replaced ==
    ASSUME NEW S, NEW s \in Seq(S), NEW i \in DOMAIN s, NEW e \in S
    PROVE  /\ [s EXCEPT ![i] = e] \in Seq(S)
           /\ DOMAIN [s EXCEPT ![i] = e] = DOMAIN s
           /\ Len([s EXCEPT ![i] = e]) = Len(s)
           /\ \A k \in DOMAIN s : [s EXCEPT ![i] = e][k] = IF k = i THEN e ELSE s[k]
<1>1. Len(s) \in Nat /\ DOMAIN s = 1..Len(s)
  BY LenProperties
<1>2. /\ [s EXCEPT ![i] = e] \in Seq(S) /\ Len([s EXCEPT ![i] = e]) = Len(s)
      /\ \A k \in 1..Len(s) : [s EXCEPT ![i] = e][k] = IF k = i THEN e ELSE s[k]
  BY <1>1, ExceptSeq
<1>3. DOMAIN [s EXCEPT ![i] = e] = 1..Len(s)
  BY <1>2, LenProperties
<1> QED
  BY <1>1, <1>2, <1>3

\* Rows keep their types when there are more documents,
LEMMA DocsWidened ==
    ASSUME TypeOK, NEW D, DOMAIN docs \subseteq D
    PROVE  /\ file \in {None} \union D /\ queue \subseteq D
           /\ effs \in Seq(EffRows(D, DOMAIN epes, DOMAIN contentions))
           /\ epes \in Seq(EpeRows(D, DOMAIN claims))
           /\ request \in [Requests -> RequestRows(D)]
           /\ job \in [Workers -> JobRows(D, DOMAIN epes, DOMAIN effs, DOMAIN claims, DOMAIN contentions)]
<1> DEFINE Efs == EffRows(DOMAIN docs, DOMAIN epes, DOMAIN contentions)
           Eps == EpeRows(DOMAIN docs, DOMAIN claims)
<1>1. Efs \subseteq EffRows(D, DOMAIN epes, DOMAIN contentions)
  BY DEF EffRows
<1>2. Eps \subseteq EpeRows(D, DOMAIN claims)
  BY DEF EpeRows
<1>3. RequestRows(DOMAIN docs) \subseteq RequestRows(D)
  BY DEF RequestRows
<1>4. JobTypes \subseteq JobRows(D, DOMAIN epes, DOMAIN effs, DOMAIN claims, DOMAIN contentions)
  BY DEF JobTypes, JobRows
<1>5. /\ file \in {None} \union DOMAIN docs /\ queue \subseteq DOMAIN docs
      /\ effs \in Seq(Efs) /\ epes \in Seq(Eps)
      /\ request \in [Requests -> RequestRows(DOMAIN docs)]
      /\ job \in [Workers -> JobTypes]
  BY TypeParts, Zenon
<1> HIDE DEF Efs, Eps
<1>6. effs \in Seq(EffRows(D, DOMAIN epes, DOMAIN contentions)) /\ epes \in Seq(EpeRows(D, DOMAIN claims))
  BY <1>1, <1>2, <1>5, SeqWidened, Zenon
<1>7. request \in [Requests -> RequestRows(D)]
  BY <1>3, <1>5
<1>8. job \in [Workers -> JobRows(D, DOMAIN epes, DOMAIN effs, DOMAIN claims, DOMAIN contentions)]
  BY <1>4, <1>5
<1>9. file \in {None} \union D /\ queue \subseteq D
  BY <1>5
<1> QED
  BY <1>6, <1>7, <1>8, <1>9, Zenon

\* ... more EPEs and effectuations,
LEMMA GrantsWidened ==
    ASSUME TypeOK, NEW E, NEW F, DOMAIN epes \subseteq E, DOMAIN effs \subseteq F
    PROVE  /\ effs \in Seq(EffRows(DOMAIN docs, E, DOMAIN contentions))
           /\ job \in [Workers -> JobRows(DOMAIN docs, E, F, DOMAIN claims, DOMAIN contentions)]
<1> DEFINE Efs == EffRows(DOMAIN docs, DOMAIN epes, DOMAIN contentions)
<1>1. Efs \subseteq EffRows(DOMAIN docs, E, DOMAIN contentions)
  BY DEF EffRows
<1>2. JobTypes \subseteq JobRows(DOMAIN docs, E, F, DOMAIN claims, DOMAIN contentions)
  BY DEF JobTypes, JobRows
<1>3. /\ effs \in Seq(Efs)
      /\ job \in [Workers -> JobTypes]
  BY TypeParts, Zenon
<1> HIDE DEF Efs
<1>4. effs \in Seq(EffRows(DOMAIN docs, E, DOMAIN contentions))
  BY <1>1, <1>3, SeqWidened, Zenon
<1>5. job \in [Workers -> JobRows(DOMAIN docs, E, F, DOMAIN claims, DOMAIN contentions)]
  BY <1>2, <1>3
<1> QED
  BY <1>4, <1>5, Zenon

\* ... more end products,
LEMMA ClaimsWidened ==
    ASSUME TypeOK, NEW C, DOMAIN claims \subseteq C
    PROVE  /\ epes \in Seq(EpeRows(DOMAIN docs, C))
           /\ contentions \in Seq(ContentionRows(C))
           /\ job \in [Workers -> JobRows(DOMAIN docs, DOMAIN epes, DOMAIN effs, C, DOMAIN contentions)]
<1> DEFINE Eps == EpeRows(DOMAIN docs, DOMAIN claims)
           Cts == ContentionRows(DOMAIN claims)
<1>1. Eps \subseteq EpeRows(DOMAIN docs, C)
  BY DEF EpeRows
<1>2. Cts \subseteq ContentionRows(C)
  BY DEF ContentionRows
<1>3. JobTypes \subseteq JobRows(DOMAIN docs, DOMAIN epes, DOMAIN effs, C, DOMAIN contentions)
  BY DEF JobTypes, JobRows
<1>4. /\ epes \in Seq(Eps) /\ contentions \in Seq(Cts)
      /\ job \in [Workers -> JobTypes]
  BY TypeParts, Zenon
<1> HIDE DEF Eps, Cts
<1>5. epes \in Seq(EpeRows(DOMAIN docs, C)) /\ contentions \in Seq(ContentionRows(C))
  BY <1>1, <1>2, <1>4, SeqWidened, Zenon
<1>6. job \in [Workers -> JobRows(DOMAIN docs, DOMAIN epes, DOMAIN effs, C, DOMAIN contentions)]
  BY <1>3, <1>4
<1> QED
  BY <1>5, <1>6, Zenon

\* ... or more contentions.
LEMMA ContentionsWidened ==
    ASSUME TypeOK, NEW K, DOMAIN contentions \subseteq K
    PROVE  /\ effs \in Seq(EffRows(DOMAIN docs, DOMAIN epes, K))
           /\ job \in [Workers -> JobRows(DOMAIN docs, DOMAIN epes, DOMAIN effs, DOMAIN claims, K)]
<1> DEFINE Efs == EffRows(DOMAIN docs, DOMAIN epes, DOMAIN contentions)
<1>1. Efs \subseteq EffRows(DOMAIN docs, DOMAIN epes, K)
  BY DEF EffRows
<1>2. JobTypes \subseteq JobRows(DOMAIN docs, DOMAIN epes, DOMAIN effs, DOMAIN claims, K)
  BY DEF JobTypes, JobRows
<1>3. /\ effs \in Seq(Efs)
      /\ job \in [Workers -> JobTypes]
  BY TypeParts, Zenon
<1> HIDE DEF Efs
<1>4. effs \in Seq(EffRows(DOMAIN docs, DOMAIN epes, K))
  BY <1>1, <1>3, SeqWidened, Zenon
<1>5. job \in [Workers -> JobRows(DOMAIN docs, DOMAIN epes, DOMAIN effs, DOMAIN claims, K)]
  BY <1>2, <1>3
<1> QED
  BY <1>4, <1>5, Zenon

\* Each row has its type.
LEMMA RowTypes ==
    ASSUME TypeOK
    PROVE  /\ \A d \in DOMAIN docs : docs[d] \in DocRows
           /\ \A x \in DOMAIN effs :
                 effs[x] \in EffRows(DOMAIN docs, DOMAIN epes, DOMAIN contentions)
           /\ \A e \in DOMAIN epes : epes[e] \in EpeRows(DOMAIN docs, DOMAIN claims)
           /\ \A k \in DOMAIN claims : claims[k] \in Codes
           /\ \A k \in DOMAIN contentions : contentions[k] \in ContentionRows(DOMAIN claims)
           /\ \A r \in Requests : request[r] \in RequestRows(DOMAIN docs)
           /\ \A w \in Workers : job[w] \in JobTypes
<1> DEFINE Efs == EffRows(DOMAIN docs, DOMAIN epes, DOMAIN contentions)
           Eps == EpeRows(DOMAIN docs, DOMAIN claims)
           Cts == ContentionRows(DOMAIN claims)
<1>1. /\ docs \in Seq(DocRows) /\ effs \in Seq(Efs) /\ epes \in Seq(Eps)
      /\ claims \in Seq(Codes) /\ contentions \in Seq(Cts)
      /\ request \in [Requests -> RequestRows(DOMAIN docs)] /\ job \in [Workers -> JobTypes]
  BY TypeParts, Zenon
<1> HIDE DEF Efs, Eps, Cts
<1>2. ASSUME NEW S, NEW s \in Seq(S)  PROVE \A i \in DOMAIN s : s[i] \in S
  BY LenProperties, ElementOfSeq
<1>3. /\ \A d \in DOMAIN docs : docs[d] \in DocRows
      /\ \A x \in DOMAIN effs : effs[x] \in Efs
      /\ \A e \in DOMAIN epes : epes[e] \in Eps
      /\ \A k \in DOMAIN claims : claims[k] \in Codes
      /\ \A k \in DOMAIN contentions : contentions[k] \in Cts
  BY <1>1, <1>2, Zenon
<1>4. /\ \A r \in Requests : request[r] \in RequestRows(DOMAIN docs)
      /\ \A w \in Workers : job[w] \in JobTypes
  BY <1>1
<1> QED
  BY <1>3, <1>4 DEF Efs, Eps, Cts

-----------------------------------------------------------------------------
(* What a step leaves sound *)

\* The initial state.
LEMMA InitSound == Init => IInv
<1> SUFFICES ASSUME Init PROVE IInv
  OBVIOUS
<1>1. TypeOK
  <2>1. Idle \in JobTypes /\ NoRequest \in RequestRows(DOMAIN docs) /\ NoClaim \in ClaimRows
    BY DEF Idle, JobTypes, JobRows, JobSteps, NoRequest, RequestRows, NoClaim, ClaimRows
  <2>2. /\ docs \in Seq(DocRows) /\ Len(docs) = 0 /\ claims \in Seq(Codes)
        /\ effs \in Seq(EffRows(DOMAIN docs, DOMAIN epes, DOMAIN contentions))
        /\ epes \in Seq(EpeRows(DOMAIN docs, DOMAIN claims))
        /\ contentions \in Seq(ContentionRows(DOMAIN claims))
    BY EmptySeq DEF Init
  <2>3. 0 <= Cardinality(Citations) /\ 0 \in 0..MaxFaults
    BY BoundsAssumption, FS_CardinalityType
  <2> QED
    BY <2>1, <2>2, <2>3, TypeParts DEF Init
<1>2. /\ DOMAIN docs = {} /\ DOMAIN effs = {} /\ DOMAIN epes = {} /\ DOMAIN claims = {}
  BY DEF Init
<1>3. DocumentsSound /\ OneExecution /\ ProcessedSound /\ GrantsSound
  BY <1>2 DEF Init, DocumentsSound, Submitted, OneExecution, ProcessedSound, GrantsSound, Idle
<1>4. OrphansAwaited
  BY <1>2 DEF OrphansAwaited, Orphan
<1>5. \A r \in Requests : RequestSound(request[r])
  BY DEF Init, RequestSound, NoRequest
<1>6. \A w \in Workers : Fit(job[w])
  BY DEF Init, Fit, JobSound, EpeSound, RecordsSound, NoneForgotten, Idle, Loaded
<1> QED
  BY <1>1, <1>3, <1>4, <1>5, <1>6 DEF IInv, Sound

\* An execution goes on with its document, or stops, and grants stay.
LEMMA ExecutionsKept ==
    ASSUME OneExecution, OrphansAwaited, job \in [Workers -> JobTypes],
           NEW w \in Workers, NEW j, job' = [job EXCEPT ![w] = j],
           j.pc # "idle" => \A v \in Workers \ {w} : job[v].pc # "idle" => job[v].doc # j.doc,
           j.pc = "established" =>
               job[w].pc = "established" /\ j.epe = job[w].epe /\ j.claim = job[w].claim,
           UNCHANGED <<epes, claims>>
    PROVE  OneExecution' /\ OrphansAwaited'
<1>1. job'[w] = j /\ \A v \in Workers : v # w => job'[v] = job[v]
  OBVIOUS
<1>2. OneExecution'
  BY <1>1 DEF OneExecution
<1>3. \A k : Orphan(k)' <=> Orphan(k)
  BY DEF Orphan
<1>4. \A e, k : Awaits(e, k) => Awaits(e, k)'
  BY <1>1 DEF Awaits
<1>5. OrphansAwaited'
  BY <1>3, <1>4 DEF OrphansAwaited
<1> QED
  BY <1>2, <1>5

\* The step of an execution that changes nothing but what it knows, the queue
\* and the remands.
LEMMA JobMoves ==
    ASSUME IInv, NEW w \in Workers, NEW j \in JobTypes, job' = [job EXCEPT ![w] = j], Fit(j),
           j.pc # "idle" => \A v \in Workers \ {w} : job[v].pc # "idle" => job[v].doc # j.doc,
           j.pc = "established" =>
               job[w].pc = "established" /\ j.epe = job[w].epe /\ j.claim = job[w].claim,
           UNCHANGED <<task, root, decided, docs, file, copies, effs, epes, claims, contentions,
                       request>>,
           queue' \subseteq DOMAIN docs, sc' \in [Benefits -> ClaimRows],
           remand' \in [Remands -> {"none", "saved", "attached"}], faults' \in 0..MaxFaults
    PROVE  IInv'
<1>0. job \in [Workers -> JobTypes]
  BY TypeParts, Zenon DEF IInv
<1>1. job'[w] = j /\ \A v \in Workers : v # w => job'[v] = job[v]
  BY <1>0
<1>2. TypeOK'
  <2>1. job' \in [Workers -> JobTypes]
    BY <1>0
  <2> QED
    BY <2>1, TypeParts, TypePartsNext DEF IInv, JobTypes
<1>3. OneExecution' /\ OrphansAwaited'
  BY <1>0, ExecutionsKept DEF IInv, Sound
<1>4. DocumentsSound' /\ ProcessedSound' /\ GrantsSound'
  BY DEF IInv, Sound, DocumentsSound, Submitted, ProcessedSound, AllEffectuated, Effectuated, GrantsSound
<1>5. \A r \in Requests : RequestSound(request[r])'
  BY DEF IInv, Sound, RequestSound
<1>6. \A v \in Workers : Fit(job[v])'
  <2>1. ASSUME NEW v \in Workers PROVE Fit(job'[v])
    BY <1>1 DEF IInv, Sound
  <2> QED
    BY <2>1 DEF Fit, JobSound, EpeSound, RecordsSound, NoneForgotten, AllEffectuated, Effectuated
<1> QED
  BY <1>2, <1>3, <1>4, <1>5, <1>6 DEF IInv, Sound

\* It goes on with its document.
LEMMA JobGoesOn ==
    ASSUME IInv, NEW w \in Workers, NEW j \in JobTypes, job' = [job EXCEPT ![w] = j], Fit(j),
           job[w].pc # "idle", j.doc = job[w].doc,
           j.pc # "established",
           UNCHANGED <<task, root, decided, docs, file, copies, effs, epes, claims, contentions,
                       request>>,
           queue' \subseteq DOMAIN docs, sc' \in [Benefits -> ClaimRows],
           remand' \in [Remands -> {"none", "saved", "attached"}], faults' \in 0..MaxFaults
    PROVE  IInv'
<1>1. \A v \in Workers \ {w} : job[v].pc # "idle" => job[v].doc # j.doc
  BY DEF IInv, Sound, OneExecution
<1> QED
  BY <1>1, JobMoves

\* An execution that ended knows nothing.
LEMMA IdleFits == Idle \in JobTypes /\ Fit(Idle) /\ Fit(Idle)'
<1>1. Idle \in JobTypes
  BY DEF Idle, JobTypes, JobRows, JobSteps
<1>2. Fit(Idle)
  BY DEF Fit, JobSound, EpeSound, RecordsSound, NoneForgotten, Idle, Loaded
<1>3. Fit(Idle)'
  BY DEF Fit, JobSound, EpeSound, RecordsSound, NoneForgotten, Idle, Loaded
<1> QED
  BY <1>1, <1>2, <1>3

\* Documents are added or changed; those that were submitted or uploaded stay so.
LEMMA DocumentsKept ==
    ASSUME IInv, DOMAIN docs \subseteq DOMAIN docs',
           \A d \in DOMAIN docs : /\ docs[d].submitted => docs'[d].submitted
                                  /\ docs[d].uploaded => docs'[d].uploaded
                                  /\ copies[d] > 0 => copies'[d] > 0,
           UNCHANGED <<file, effs, epes, claims, contentions>>
    PROVE  /\ GrantsSound'
           /\ \A r \in Requests : request'[r] = request[r] => RequestSound(request[r])'
           /\ \A v \in Workers : job'[v] = job[v] => Fit(job[v])'
<1>1. GrantsSound'
  BY DEF IInv, Sound, GrantsSound
<1>2. \A r \in Requests : request'[r] = request[r] => RequestSound(request[r])'
  BY DEF IInv, Sound, RequestSound
<1>3. ASSUME NEW v \in Workers, job'[v] = job[v]
      PROVE  Fit(job[v])'
  <2>1. Fit(job[v])
    BY DEF IInv, Sound
  <2>2. JobSound(job[v])'
    BY <1>3, <2>1 DEF Fit, JobSound, AllEffectuated, Effectuated, Loaded
  <2>3. EpeSound(job[v])' /\ RecordsSound(job[v])' /\ NoneForgotten(job[v])'
    BY <1>3, <2>1 DEF Fit, EpeSound, RecordsSound, NoneForgotten
  <2> QED
    BY <2>2, <2>3 DEF Fit
<1> QED
  BY <1>1, <1>2, <1>3

-----------------------------------------------------------------------------
(* Outcode requests *)

\* The step of a request that leaves the documents alone.
LEMMA RequestMoves ==
    ASSUME IInv, NEW r \in Requests, NEW q \in RequestRows(DOMAIN docs),
           request' = [request EXCEPT ![r] = q], RequestSound(q),
           task' \in {"assigned", "completed"}, root' \in {"on_hold", "completed"},
           decided' \in BOOLEAN,
           root' = "completed" \/ task' = "completed" \/ decided' => Submitted # {} /\ file # None,
           UNCHANGED <<docs, file, copies, effs, epes, claims, contentions, sc, remand, job>>,
           queue' \subseteq DOMAIN docs, faults' \in 0..MaxFaults
    PROVE  IInv'
<1>0. request \in [Requests -> RequestRows(DOMAIN docs)]
  BY TypeParts, Zenon DEF IInv
<1>1. request'[r] = q /\ \A p \in Requests : p # r => request'[p] = request[p]
  BY <1>0
<1>2. TypeOK'
  <2>1. request' \in [Requests -> RequestRows(DOMAIN docs)]
    BY <1>0
  <2> QED
    BY <2>1, TypeParts, TypePartsNext DEF IInv, JobTypes
<1>3. OneExecution' /\ OrphansAwaited'
  BY DEF IInv, Sound, OneExecution, OrphansAwaited, Orphan, Awaits
<1>4. DocumentsSound'
  BY DEF IInv, Sound, DocumentsSound, Submitted
<1>5. ProcessedSound' /\ GrantsSound'
  BY DEF IInv, Sound, ProcessedSound, AllEffectuated, Effectuated, GrantsSound
<1>6. \A p \in Requests : RequestSound(request[p])'
  <2>1. ASSUME NEW p \in Requests PROVE RequestSound(request'[p])
    BY <1>1 DEF IInv, Sound
  <2> QED
    BY <2>1 DEF RequestSound
<1>7. \A w \in Workers : Fit(job[w])'
  BY DEF IInv, Sound, Fit, JobSound, EpeSound, RecordsSound, NoneForgotten, AllEffectuated, Effectuated
<1> QED
  BY <1>2, <1>3, <1>4, <1>5, <1>6, <1>7 DEF IInv, Sound

\* What is known of a request.
LEMMA RequestKnown ==
    ASSUME IInv, NEW r \in Requests
    PROVE  /\ request[r] \in RequestRows(DOMAIN docs) /\ RequestSound(request[r])
           /\ NoRequest \in RequestRows(DOMAIN docs) /\ RequestSound(NoRequest)
           /\ docs \in Seq(DocRows) /\ Len(docs) \in Nat /\ DOMAIN docs = 1..Len(docs)
           /\ queue \subseteq DOMAIN docs /\ faults \in 0..MaxFaults
           /\ task \in {"assigned", "completed"} /\ root \in {"on_hold", "completed"}
           /\ decided \in BOOLEAN
           /\ root = "completed" \/ task = "completed" \/ decided => Submitted # {} /\ file # None
<1>1. request[r] \in RequestRows(DOMAIN docs) /\ RequestSound(request[r])
  BY RowTypes DEF IInv, Sound
<1>2. NoRequest \in RequestRows(DOMAIN docs) /\ RequestSound(NoRequest)
  BY DEF NoRequest, RequestRows, RequestSound
<1>3. /\ docs \in Seq(DocRows) /\ queue \subseteq DOMAIN docs /\ faults \in 0..MaxFaults
      /\ task \in {"assigned", "completed"} /\ root \in {"on_hold", "completed"}
      /\ decided \in BOOLEAN
  BY TypeParts, Zenon DEF IInv
<1>4. Len(docs) \in Nat /\ DOMAIN docs = 1..Len(docs)
  BY <1>3, LenProperties
<1>5. root = "completed" \/ task = "completed" \/ decided => Submitted # {} /\ file # None
  BY DEF IInv, Sound, DocumentsSound
<1> QED
  BY <1>1, <1>2, <1>3, <1>4, <1>5

LEMMA CheckRequestPreserves ==
    ASSUME IInv, NEW r \in Requests, NEW c \in Citations, CheckRequest(r, c)
    PROVE  IInv'
<1> DEFINE q == [NoRequest EXCEPT !.pc = "create", !.citation = c]
<1>1. q \in RequestRows(DOMAIN docs) /\ RequestSound(q)
  BY DEF NoRequest, RequestRows, RequestSound
<1>2. /\ request' = [request EXCEPT ![r] = q]
      /\ UNCHANGED <<task, root, decided, docs, file, copies, queue, effs, epes, claims,
                     contentions, sc, remand, job, faults>>
  BY DEF CheckRequest, outcode, grants, vbms, remands
<1> HIDE DEF q
<1> QED
  BY <1>1, <1>2, RequestKnown, RequestMoves

LEMMA EnqueuePreserves ==
    ASSUME IInv, NEW r \in Requests, Enqueue(r)
    PROVE  IInv'
<1> DEFINE q == [request[r] EXCEPT !.pc = "task"]
<1>1. q \in RequestRows(DOMAIN docs) /\ RequestSound(q) /\ queue' \subseteq DOMAIN docs
  BY RequestKnown DEF Enqueue, At, RequestRows, RequestSound
<1>2. /\ request' = [request EXCEPT ![r] = q]
      /\ UNCHANGED <<task, root, decided, docs, file, copies, effs, epes, claims,
                     contentions, sc, remand, job, faults>>
  BY RequestKnown DEF Enqueue, Goto, outcode, grants, vbms, remands, RequestRows
<1> HIDE DEF q
<1> QED
  BY <1>1, <1>2, RequestKnown, RequestMoves

\* The three steps that close the appeal.
LEMMA ClosePreserves ==
    ASSUME IInv, NEW r \in Requests, CompleteTask(r) \/ CompleteRoot(r) \/ CloseIssues(r)
    PROVE  IInv'
<1>1. Submitted # {} /\ file # None
  <2>1. request[r].pc \in {"task", "root", "issues"}
    BY DEF CompleteTask, CompleteRoot, CloseIssues, At
  <2> QED
    BY <2>1, RequestKnown DEF RequestSound, Submitted
<1>2. UNCHANGED <<docs, file, copies, queue, effs, epes, claims, contentions, sc, remand, job, faults>>
  BY DEF CompleteTask, CompleteRoot, CloseIssues, grants, vbms, remands
<1>3. /\ task' \in {"assigned", "completed"} /\ root' \in {"on_hold", "completed"}
      /\ decided' \in BOOLEAN
  BY RequestKnown DEF CompleteTask, CompleteRoot, CloseIssues
<1>4. CASE CompleteTask(r)
  <2> DEFINE q == [request[r] EXCEPT !.pc = "root"]
  <2>1. q \in RequestRows(DOMAIN docs) /\ RequestSound(q)
    BY <1>4, RequestKnown DEF CompleteTask, At, RequestRows, RequestSound
  <2>2. request' = [request EXCEPT ![r] = q]
    BY <1>4 DEF CompleteTask, Goto
  <2> HIDE DEF q
  <2> QED
    BY <1>1, <1>2, <1>3, <2>1, <2>2, RequestKnown, RequestMoves
<1>5. CASE CompleteRoot(r)
  <2> DEFINE q == [request[r] EXCEPT !.pc = "issues"]
  <2>1. q \in RequestRows(DOMAIN docs) /\ RequestSound(q)
    BY <1>5, RequestKnown DEF CompleteRoot, At, RequestRows, RequestSound
  <2>2. request' = [request EXCEPT ![r] = q]
    BY <1>5 DEF CompleteRoot, Goto
  <2> HIDE DEF q
  <2> QED
    BY <1>1, <1>2, <1>3, <2>1, <2>2, RequestKnown, RequestMoves
<1>6. CASE CloseIssues(r)
  <2>1. request' = [request EXCEPT ![r] = NoRequest]
    BY <1>6 DEF CloseIssues
  <2> QED
    BY <1>1, <1>2, <1>3, <2>1, RequestKnown, RequestMoves
<1> QED
  BY <1>4, <1>5, <1>6

LEMMA FailRequestPreserves ==
    ASSUME IInv, NEW r \in Requests, FailRequest(r)
    PROVE  IInv'
<1>1. /\ request' = [request EXCEPT ![r] = NoRequest]
      /\ UNCHANGED <<task, root, decided, docs, file, copies, queue, effs, epes, claims,
                     contentions, sc, remand, job>>
  BY DEF FailRequest, outcode, grants, vbms, remands
<1>2. faults' \in 0..MaxFaults
  BY RequestKnown, BoundsAssumption DEF FailRequest
<1> QED
  BY <1>1, <1>2, RequestKnown, RequestMoves

\* The file of the appeal becomes that of the request's document.
LEMMA StoreFilePreserves ==
    ASSUME IInv, NEW r \in Requests, StoreFile(r)
    PROVE  IInv'
<1>0. request \in [Requests -> RequestRows(DOMAIN docs)]
  BY TypeParts, Zenon DEF IInv
<1>1. /\ request[r].pc = "store" /\ request[r].doc \in DOMAIN docs /\ file' = request[r].doc
      /\ file' # None
  BY RequestKnown, NoneAssumption DEF StoreFile, At, RequestSound
<1>2. /\ request' = [request EXCEPT ![r].pc = "submit"]
      /\ UNCHANGED <<task, root, decided, docs, copies, queue, effs, epes, claims,
                     contentions, sc, remand, job, faults>>
  BY DEF StoreFile, Goto, outcode, grants, vbms, remands
<1>3. /\ request' \in [Requests -> RequestRows(DOMAIN docs)]
      /\ request'[r] = [request[r] EXCEPT !.pc = "submit"]
      /\ \A p \in Requests : p # r => request'[p] = request[p]
  BY <1>0, <1>2 DEF RequestRows
<1>4. TypeOK'
  BY <1>1, <1>2, <1>3, TypeParts, TypePartsNext DEF IInv, JobTypes
<1>5. OneExecution' /\ OrphansAwaited'
  BY <1>2 DEF IInv, Sound, OneExecution, OrphansAwaited, Orphan, Awaits
<1>6. DocumentsSound'
  BY <1>1, <1>2 DEF IInv, Sound, DocumentsSound, Submitted
<1>7. ProcessedSound' /\ GrantsSound'
  BY <1>2 DEF IInv, Sound, ProcessedSound, AllEffectuated, Effectuated, GrantsSound
<1>8. \A p \in Requests : RequestSound(request[p])'
  <2>1. ASSUME NEW p \in Requests, p # r PROVE RequestSound(request[p])'
    BY <1>1, <1>2, <1>3, <2>1 DEF IInv, Sound, RequestSound
  <2>2. RequestSound(request[r])'
    BY <1>1, <1>2, <1>3, RequestKnown DEF RequestSound, RequestRows
  <2> QED
    BY <2>1, <2>2
<1>9. \A w \in Workers : Fit(job[w])'
  BY <1>2 DEF IInv, Sound, Fit, JobSound, EpeSound, RecordsSound, NoneForgotten, AllEffectuated, Effectuated
<1> QED
  BY <1>4, <1>5, <1>6, <1>7, <1>8, <1>9 DEF IInv, Sound

LEMMA SubmitDocumentPreserves ==
    ASSUME IInv, NEW r \in Requests, SubmitDocument(r)
    PROVE  IInv'
<1> DEFINE d == request[r].doc
           row == [docs[d] EXCEPT !.submitted = TRUE, !.processed = FALSE]
<1>0. request \in [Requests -> RequestRows(DOMAIN docs)]
  BY TypeParts, Zenon DEF IInv
<1>1. request[r].pc = "submit" /\ d \in DOMAIN docs /\ file # None
  BY RequestKnown DEF SubmitDocument, At, RequestSound
<1>2. docs[d] \in DocRows
  BY <1>1, RowTypes DEF IInv
<1>3. /\ row \in DocRows /\ row.citation = docs[d].citation /\ row.uploaded = docs[d].uploaded
      /\ row.submitted /\ ~ row.processed
  BY <1>2 DEF DocRows
<1>4. docs' = [docs EXCEPT ![d] = row]
  BY <1>1 DEF SubmitDocument
<1>5. /\ request' = [request EXCEPT ![r].pc = "enqueue"]
      /\ UNCHANGED <<task, root, decided, file, copies, queue, effs, epes, claims,
                     contentions, sc, remand, job, faults>>
  BY DEF SubmitDocument, Goto, outcode, grants, vbms, remands
<1> HIDE DEF row
<1>6. /\ docs' \in Seq(DocRows) /\ DOMAIN docs' = DOMAIN docs /\ Len(docs') = Len(docs)
      /\ \A k \in DOMAIN docs : docs'[k] = IF k = d THEN row ELSE docs[k]
  BY <1>1, <1>3, <1>4, RequestKnown, Replaced
<1>7. /\ request' \in [Requests -> RequestRows(DOMAIN docs)]
      /\ request'[r] = [request[r] EXCEPT !.pc = "enqueue"]
      /\ \A p \in Requests : p # r => request'[p] = request[p]
  BY <1>0, <1>5 DEF RequestRows
<1>8. TypeOK'
  BY <1>5, <1>6, <1>7, TypeParts, TypePartsNext DEF IInv, JobTypes
<1>9. /\ GrantsSound' /\ \A w \in Workers : Fit(job[w])'
      /\ \A p \in Requests : request'[p] = request[p] => RequestSound(request[p])'
  BY <1>3, <1>5, <1>6, DocumentsKept
<1>10. RequestSound(request[r])'
  BY <1>1, <1>3, <1>5, <1>6, <1>7, RequestKnown DEF RequestSound, RequestRows
<1>11. DocumentsSound'
  BY <1>1, <1>3, <1>5, <1>6 DEF IInv, Sound, DocumentsSound, Submitted
<1>12. ProcessedSound'
  BY <1>3, <1>5, <1>6 DEF IInv, Sound, ProcessedSound, AllEffectuated, Effectuated
<1>13. OneExecution' /\ OrphansAwaited'
  BY <1>5 DEF IInv, Sound, OneExecution, OrphansAwaited, Orphan, Awaits
<1> QED
  BY <1>7, <1>8, <1>9, <1>10, <1>11, <1>12, <1>13 DEF IInv, Sound

\* There are no more documents than citation numbers.
LEMMA DocumentsBounded ==
    ASSUME NEW s \in Seq(DocRows),
           \A d, e \in DOMAIN s : s[d].citation = s[e].citation => d = e
    PROVE  Len(s) <= Cardinality(Citations)
<1> DEFINE f == [d \in 1..Len(s) |-> s[d].citation]
<1>1. Len(s) \in Nat /\ DOMAIN s = 1..Len(s)
  BY LenProperties
<1>2. \A d \in 1..Len(s) : s[d].citation \in Citations
  <2>1. \A d \in 1..Len(s) : s[d] \in DocRows
    BY ElementOfSeq
  <2> QED
    BY <2>1 DEF DocRows
<1>3. f \in Injection(1..Len(s), Citations)
  BY <1>1, <1>2 DEF Injection, IsInjective
<1>4. Cardinality(1..Len(s)) <= Cardinality(Citations)
  BY <1>3, BoundsAssumption, FS_Injection
<1>5. Cardinality(1..Len(s)) = Len(s)
  BY <1>1, FS_Interval
<1> QED
  BY <1>4, <1>5

LEMMA CreateDocumentPreserves ==
    ASSUME IInv, NEW r \in Requests, CreateDocument(r)
    PROVE  IInv'
<1> DEFINE c == request[r].citation
           n == Len(docs) + 1
           row == [citation |-> c, submitted |-> FALSE, uploaded |-> FALSE, processed |-> FALSE]
<1>0. /\ UNCHANGED <<task, root, decided, file, copies, queue, effs, epes, claims, contentions,
                     sc, remand, job, faults>>
      /\ request[r].pc = "create"
  BY DEF CreateDocument, At, outcode, grants, vbms, remands
<1>1. CASE CitationUsed(c)
  <2>1. request' = [request EXCEPT ![r] = NoRequest] /\ UNCHANGED docs
    BY <1>1 DEF CreateDocument
  <2> QED
    BY <1>0, <2>1, RequestKnown, RequestMoves
<1>2. CASE ~ CitationUsed(c)
  <2>1. c \in Citations /\ row \in DocRows
    BY <1>0, RequestKnown DEF RequestSound, DocRows
  <2>2. /\ docs' = Append(docs, row)
        /\ request' = [request EXCEPT ![r].pc = "store", ![r].doc = n]
    BY <1>2 DEF CreateDocument
  <2>3. row.citation = c /\ ~ row.submitted /\ ~ row.uploaded /\ ~ row.processed
    OBVIOUS
  <2> HIDE DEF row
  <2>4. /\ docs' \in Seq(DocRows) /\ DOMAIN docs' = DOMAIN docs \union {n}
        /\ n \notin DOMAIN docs /\ n \in Nat
        /\ \A d \in DOMAIN docs : docs'[d] = docs[d]
        /\ docs'[n] = row
    BY <2>1, <2>2, RequestKnown, Appended
  <2>5. \A d \in DOMAIN docs : docs[d].citation # c
    BY <1>2 DEF CitationUsed
  <2>6. \A d, e \in DOMAIN docs' : docs'[d].citation = docs'[e].citation => d = e
    BY <2>3, <2>4, <2>5 DEF IInv, Sound, DocumentsSound
  <2>7. Len(docs') <= Cardinality(Citations)
    BY <2>4, <2>6, DocumentsBounded
  <2>8. /\ file \in {None} \union DOMAIN docs' /\ queue \subseteq DOMAIN docs'
        /\ effs \in Seq(EffRows(DOMAIN docs', DOMAIN epes, DOMAIN contentions))
        /\ epes \in Seq(EpeRows(DOMAIN docs', DOMAIN claims))
        /\ request \in [Requests -> RequestRows(DOMAIN docs')]
        /\ job \in [Workers -> JobRows(DOMAIN docs', DOMAIN epes, DOMAIN effs, DOMAIN claims,
                                       DOMAIN contentions)]
    <3>1. PICK D : D = DOMAIN docs'
      OBVIOUS
    <3>2. TypeOK /\ DOMAIN docs \subseteq D
      BY <2>4, <3>1 DEF IInv
    <3>3. /\ file \in {None} \union D /\ queue \subseteq D
          /\ effs \in Seq(EffRows(D, DOMAIN epes, DOMAIN contentions))
          /\ epes \in Seq(EpeRows(D, DOMAIN claims))
          /\ request \in [Requests -> RequestRows(D)]
          /\ job \in [Workers -> JobRows(D, DOMAIN epes, DOMAIN effs, DOMAIN claims,
                                         DOMAIN contentions)]
      BY <3>2, DocsWidened
    <3> QED
      BY <3>1, <3>3, Zenon
  <2>9. /\ request' \in [Requests -> RequestRows(DOMAIN docs')]
        /\ request'[r] = [request[r] EXCEPT !.pc = "store", !.doc = n]
        /\ \A p \in Requests : p # r => request'[p] = request[p]
    <3> DEFINE q == [request[r] EXCEPT !.pc = "store", !.doc = n]
    <3>1. request' = [request EXCEPT ![r] = q]
      BY <2>2
    <3>2. q \in RequestRows(DOMAIN docs')
      <4>1. request[r] \in RequestRows(DOMAIN docs') /\ n \in DOMAIN docs'
        BY <2>4, <2>8
      <4> QED
        BY <4>1 DEF RequestRows
    <3> HIDE DEF q
    <3>3. /\ request' \in [Requests -> RequestRows(DOMAIN docs')] /\ request'[r] = q
          /\ \A p \in Requests : p # r => request'[p] = request[p]
      BY <2>8, <3>1, <3>2
    <3> QED
      BY <3>3 DEF q
  <2>10. TypeOK'
    BY <1>0, <2>4, <2>7, <2>8, <2>9, TypeParts, TypePartsNext DEF IInv
  <2>11. /\ GrantsSound' /\ \A w \in Workers : Fit(job[w])'
         /\ \A p \in Requests : request'[p] = request[p] => RequestSound(request[p])'
    BY <1>0, <2>4, DocumentsKept
  <2>12. RequestSound(request[r])'
    BY <2>4, <2>9, RequestKnown DEF RequestSound, RequestRows
  <2>13. DocumentsSound'
    <3>1. \A d \in DOMAIN docs' : docs'[d].uploaded => copies'[d] > 0
      BY <1>0, <2>3, <2>4 DEF IInv, Sound, DocumentsSound
    <3>2. Submitted \subseteq Submitted'
      BY <2>4 DEF Submitted
    <3> QED
      BY <1>0, <2>6, <3>1, <3>2 DEF IInv, Sound, DocumentsSound
  <2>14. ProcessedSound'
    BY <1>0, <2>3, <2>4 DEF IInv, Sound, ProcessedSound, AllEffectuated, Effectuated
  <2>15. OneExecution' /\ OrphansAwaited'
    BY <1>0 DEF IInv, Sound, OneExecution, OrphansAwaited, Orphan, Awaits
  <2> QED
    BY <2>9, <2>10, <2>11, <2>12, <2>13, <2>14, <2>15 DEF IInv, Sound
<1> QED
  BY <1>1, <1>2

-----------------------------------------------------------------------------
(* Executions of the document job: the document *)

\* What is known of an execution.
LEMMA JobKnown ==
    ASSUME IInv, NEW w \in Workers
    PROVE  /\ job[w] \in JobTypes /\ Fit(job[w])
           /\ queue \subseteq DOMAIN docs /\ faults \in 0..MaxFaults
           /\ sc \in [Benefits -> ClaimRows]
           /\ remand \in [Remands -> {"none", "saved", "attached"}]
           /\ docs \in Seq(DocRows) /\ Len(docs) \in Nat /\ DOMAIN docs = 1..Len(docs)
           /\ DOMAIN docs \subseteq Docs
<1>1. job[w] \in JobTypes /\ Fit(job[w])
  BY RowTypes DEF IInv, Sound
<1>2. /\ queue \subseteq DOMAIN docs /\ faults \in 0..MaxFaults
      /\ sc \in [Benefits -> ClaimRows]
      /\ remand \in [Remands -> {"none", "saved", "attached"}]
      /\ docs \in Seq(DocRows) /\ Len(docs) <= Cardinality(Citations)
  BY TypeParts, Zenon DEF IInv
<1>3. Len(docs) \in Nat /\ DOMAIN docs = 1..Len(docs)
  BY <1>2, LenProperties
<1>4. DOMAIN docs \subseteq Docs
  BY <1>2, <1>3, BoundsAssumption, FS_CardinalityType DEF Docs
<1> QED
  BY <1>1, <1>2, <1>3, <1>4

LEMMA RequeuePreserves ==
    ASSUME IInv, NEW d \in DOMAIN docs, Requeue(d)
    PROVE  IInv'
<1>1. /\ queue' = queue \union {d}
      /\ UNCHANGED <<task, root, decided, docs, file, copies, effs, epes, claims, contentions,
                     sc, remand, request, job, faults>>
  BY DEF Requeue, outcode, grants, vbms, remands
<1>2. TypeOK'
  BY <1>1, TypeParts, TypePartsNext DEF IInv, JobTypes
<1>3. Sound'
  <2>1. DocumentsSound' /\ \A r \in Requests : RequestSound(request[r])'
    BY <1>1 DEF IInv, Sound, DocumentsSound, Submitted, RequestSound
  <2>2. ASSUME NEW w \in Workers PROVE Fit(job[w])'
    <3>1. Fit(job[w])
      BY DEF IInv, Sound
    <3> QED
      BY <1>1, <3>1 DEF Fit, JobSound, EpeSound, RecordsSound, NoneForgotten, AllEffectuated,
         Effectuated
  <2>3. OneExecution' /\ ProcessedSound' /\ GrantsSound'
    BY <1>1 DEF IInv, Sound, OneExecution, ProcessedSound, AllEffectuated, Effectuated, GrantsSound
  <2>4. OrphansAwaited'
    BY <1>1 DEF IInv, Sound, OrphansAwaited, Orphan, Awaits
  <2> QED
    BY <2>1, <2>2, <2>3, <2>4 DEF Sound
<1> QED
  BY <1>2, <1>3 DEF IInv

LEMMA StartJobPreserves ==
    ASSUME IInv, NEW w \in Workers, NEW d \in DOMAIN docs, StartJob(w, d)
    PROVE  IInv'
<1> DEFINE j == IF docs[d].processed THEN job[w] ELSE [[Idle EXCEPT !.doc = d] EXCEPT !.pc = "upload"]
<1>0. job \in [Workers -> JobTypes]
  BY TypeParts, Zenon DEF IInv
<1>1. /\ job[w].pc = "idle" /\ queue' \subseteq DOMAIN docs
      /\ UNCHANGED <<task, root, decided, docs, file, copies, effs, epes, claims, contentions,
                     sc, remand, request, faults>>
      /\ \A v \in Workers \ {w} : job[v].pc # "idle" => job[v].doc # d
  BY JobKnown DEF StartJob, Busy, Running, outcode, grants, vbms, remands
<1>2. job' = [job EXCEPT ![w] = j]
  BY <1>0 DEF StartJob, Step
<1>3. CASE docs[d].processed
  <2>1. j = job[w] /\ j.pc = "idle"
    BY <1>1, <1>3
  <2> HIDE DEF j
  <2> QED
    BY <1>1, <1>2, <2>1, JobKnown, JobMoves
<1>4. CASE ~ docs[d].processed
  <2>1. j \in JobTypes /\ j.pc = "upload" /\ j.doc = d
    BY <1>4 DEF Idle, JobTypes, JobRows, JobSteps
  <2>2. Fit(j)
    BY <1>4 DEF Idle, Fit, JobSound, EpeSound, RecordsSound, NoneForgotten, Loaded
  <2> HIDE DEF j
  <2> QED
    BY <1>1, <1>2, <2>1, <2>2, JobKnown, JobMoves
<1> QED
  BY <1>3, <1>4

LEMMA FailJobPreserves ==
    ASSUME IInv, NEW w \in Workers, FailJob(w)
    PROVE  IInv'
<1>1. /\ job' = [job EXCEPT ![w] = Idle]
      /\ UNCHANGED <<task, root, decided, docs, file, copies, queue, effs, epes, claims, contentions,
                     sc, remand, request>>
  BY DEF FailJob, Leave, outcode, grants, vbms, remands
<1>2. faults' \in 0..MaxFaults
  BY JobKnown, BoundsAssumption DEF FailJob
<1>3. Idle.pc = "idle"
  BY DEF Idle
<1> QED
  BY <1>1, <1>2, <1>3, IdleFits, JobKnown, JobMoves

\* The step of an execution that changes its document, or the copies of it.
LEMMA DocumentMoves ==
    ASSUME IInv, NEW w \in Workers, NEW j \in JobTypes, job' = [job EXCEPT ![w] = j], Fit(j)',
           job[w].pc # "idle", j.pc # "idle" => j.doc = job[w].doc, j.pc # "established",
           NEW row \in DocRows, docs' = [docs EXCEPT ![job[w].doc] = row],
           copies' \in [Docs -> Nat], \A d \in DOMAIN docs : copies[d] > 0 => copies'[d] > 0,
           row.citation = docs[job[w].doc].citation, row.submitted = docs[job[w].doc].submitted,
           docs[job[w].doc].uploaded => row.uploaded,
           row.uploaded => copies'[job[w].doc] > 0,
           row.processed => docs[job[w].doc].processed
                            \/ /\ row.uploaded /\ AllEffectuated
                               /\ \A x \in DOMAIN effs : effs[x].doc = job[w].doc =>
                                                           effs[x].contention # None,
           UNCHANGED <<task, root, decided, file, queue, effs, epes, claims, contentions, sc,
                       remand, request, faults>>
    PROVE  IInv'
<1> DEFINE d == job[w].doc
<1>0. job \in [Workers -> JobTypes]
  BY TypeParts, Zenon DEF IInv
<1>1. /\ d \in DOMAIN docs
      /\ job'[w] = j /\ \A v \in Workers : v # w => job'[v] = job[v]
  BY <1>0, JobKnown DEF Fit, JobSound
<1>2. /\ docs' \in Seq(DocRows) /\ DOMAIN docs' = DOMAIN docs /\ Len(docs') = Len(docs)
      /\ \A k \in DOMAIN docs : docs'[k] = IF k = d THEN row ELSE docs[k]
  BY <1>1, JobKnown, Replaced
<1>3. TypeOK'
  <2>1. job' \in [Workers -> JobTypes]
    BY <1>0
  <2> QED
    BY <1>2, <2>1, TypeParts, TypePartsNext DEF IInv, JobTypes
<1>4. /\ GrantsSound' /\ \A v \in Workers : job'[v] = job[v] => Fit(job[v])'
      /\ \A r \in Requests : RequestSound(request[r])'
  BY <1>2, DocumentsKept
<1>5. \A v \in Workers : Fit(job[v])'
  BY <1>1, <1>4
<1>6. OneExecution' /\ OrphansAwaited'
  <2>1. j.pc # "idle" => \A v \in Workers \ {w} : job[v].pc # "idle" => job[v].doc # j.doc
    BY DEF IInv, Sound, OneExecution
  <2> QED
    BY <1>0, <2>1, ExecutionsKept DEF IInv, Sound
<1>7. DocumentsSound'
  <2>1. Submitted' = Submitted
    BY <1>2 DEF Submitted
  <2> QED
    BY <1>2, <2>1 DEF IInv, Sound, DocumentsSound
<1>8. ProcessedSound'
  <2>1. AllEffectuated' <=> AllEffectuated
    BY DEF AllEffectuated, Effectuated
  <2> QED
    BY <1>2, <2>1 DEF IInv, Sound, ProcessedSound
<1> QED
  BY <1>3, <1>4, <1>5, <1>6, <1>7, <1>8 DEF IInv, Sound

LEMMA UploadPreserves ==
    ASSUME IInv, NEW w \in Workers, Upload(w)
    PROVE  IInv'
<1> DEFINE d == job[w].doc
<1>1. /\ job[w].pc = "upload" /\ d \in DOMAIN docs /\ d \in Docs
      /\ docs[d] \in DocRows /\ copies \in [Docs -> Nat]
  <2>1. job[w].pc = "upload" /\ d \in DOMAIN docs
    BY JobKnown DEF Upload, Busy, Fit, JobSound
  <2>2. copies \in [Docs -> Nat]
    BY TypeParts, Zenon DEF IInv
  <2> QED
    BY <2>1, <2>2, JobKnown, RowTypes DEF IInv
<1>2. UNCHANGED <<task, root, decided, docs, file, queue, effs, epes, claims, contentions, sc,
                  remand, request, faults>>
  BY DEF Upload, outcode, grants, vbms, remands
<1>3. CASE docs[d].uploaded
  <2> DEFINE j == [job[w] EXCEPT !.pc = "effect"]
  <2>0. job[w] \in JobTypes /\ Fit(job[w])
    BY JobKnown
  <2>1. j \in JobTypes /\ j.pc = "effect" /\ j.doc = d /\ j.done = job[w].done
        /\ j.epes = job[w].epes
    BY <2>0 DEF JobTypes, JobRows, JobSteps
  <2> HIDE DEF j
  <2>2. Fit(j)
    BY <1>1, <1>3, <2>0, <2>1 DEF Fit, JobSound, EpeSound, RecordsSound, NoneForgotten, Loaded
  <2>3. job' = [job EXCEPT ![w] = j] /\ UNCHANGED copies
    BY <1>3 DEF Upload, Step, j
  <2> QED
    BY <1>1, <1>2, <2>1, <2>2, <2>3, JobKnown, JobGoesOn
<1>4. CASE ~ docs[d].uploaded
  <2>0. PICK j : j = [job[w] EXCEPT !.pc = "uploaded"]
    OBVIOUS
  <2>1. /\ j \in JobTypes /\ j.pc = "uploaded" /\ j.doc = d
        /\ j.done = job[w].done /\ j.epes = job[w].epes
    BY <2>0, JobKnown DEF JobTypes, JobRows, JobSteps
  <2>2. /\ job' = [job EXCEPT ![w] = j] /\ copies' = [copies EXCEPT ![d] = @ + 1]
    BY <1>4, <2>0 DEF Upload, Step
  <2>3. /\ copies' \in [Docs -> Nat] /\ copies'[d] > 0
        /\ \A k \in DOMAIN docs : copies[k] > 0 => copies'[k] > 0
    BY <1>1, <2>2, JobKnown
  <2>4. Fit(j)'
    <3>1. j.pc \notin Loaded \union {"effect"}
      BY <2>1 DEF Loaded
    <3>2. JobSound(j)'
      BY <1>1, <1>2, <2>1, <2>3, <3>1, JobKnown DEF Fit, JobSound, Effectuated, Loaded
    <3>3. EpeSound(j)' /\ RecordsSound(j)' /\ NoneForgotten(j)'
      BY <1>1, <1>2, <2>1, <3>1, JobKnown DEF Fit, EpeSound, RecordsSound, NoneForgotten
    <3> QED
      BY <3>2, <3>3 DEF Fit
  <2>5. docs' = [docs EXCEPT ![d] = docs[d]]
    BY <1>1, <1>2, JobKnown, SeqDef
  <2>6. docs[d].processed => docs[d].uploaded
    BY <1>1 DEF IInv, Sound, ProcessedSound
  <2> QED
    BY <1>1, <1>2, <1>4, <2>1, <2>2, <2>3, <2>4, <2>5, DocumentMoves
<1> QED
  BY <1>3, <1>4

LEMMA SaveUploadPreserves ==
    ASSUME IInv, NEW w \in Workers, SaveUpload(w)
    PROVE  IInv'
<1> DEFINE d == job[w].doc
           row == [docs[d] EXCEPT !.uploaded = TRUE]
<1>0. PICK j : j = [job[w] EXCEPT !.pc = "effect"]
  OBVIOUS
<1>1. /\ job[w].pc = "uploaded" /\ d \in DOMAIN docs /\ copies[d] > 0
      /\ docs[d] \in DocRows /\ copies \in [Docs -> Nat]
  <2>1. job[w].pc = "uploaded" /\ d \in DOMAIN docs /\ copies[d] > 0
    BY JobKnown DEF SaveUpload, Busy, Fit, JobSound
  <2>2. copies \in [Docs -> Nat]
    BY TypeParts, Zenon DEF IInv
  <2> QED
    BY <2>1, <2>2, JobKnown, RowTypes DEF IInv
<1>2. /\ row \in DocRows /\ row.citation = docs[d].citation /\ row.submitted = docs[d].submitted
      /\ row.uploaded /\ row.processed = docs[d].processed
  BY <1>1 DEF DocRows
<1>3. /\ docs' = [docs EXCEPT ![d] = row] /\ job' = [job EXCEPT ![w] = j]
      /\ UNCHANGED <<task, root, decided, file, copies, queue, effs, epes, claims, contentions,
                     sc, remand, request, faults>>
  BY <1>0 DEF SaveUpload, Step, outcode, grants, vbms, remands
<1>4. /\ j \in JobTypes /\ j.pc = "effect" /\ j.doc = d /\ j.done = job[w].done
      /\ j.epes = job[w].epes
  BY <1>0, JobKnown DEF JobTypes, JobRows, JobSteps
<1> HIDE DEF row
<1>5. Fit(j)'
  <2>1. DOMAIN docs' = DOMAIN docs /\ docs'[d].uploaded
    BY <1>1, <1>2, <1>3, JobKnown, Replaced
  <2>2. JobSound(j)'
    BY <1>1, <1>3, <1>4, <2>1, JobKnown DEF Fit, JobSound, Effectuated, Loaded
  <2>3. EpeSound(j)' /\ RecordsSound(j)' /\ NoneForgotten(j)'
    BY <1>1, <1>3, <1>4, JobKnown DEF Fit, EpeSound, RecordsSound, NoneForgotten, Loaded
  <2> QED
    BY <2>2, <2>3 DEF Fit
<1> QED
  BY <1>1, <1>2, <1>3, <1>4, <1>5, DocumentMoves

LEMMA FinishPreserves ==
    ASSUME IInv, NEW w \in Workers, Finish(w)
    PROVE  IInv'
<1> DEFINE d == job[w].doc
           row == [docs[d] EXCEPT !.processed = TRUE]
<1>1. /\ job[w].pc = "issues" /\ d \in DOMAIN docs /\ docs[d].uploaded /\ AllEffectuated
      /\ docs[d] \in DocRows /\ copies \in [Docs -> Nat] /\ copies[d] > 0
      /\ \A x \in DOMAIN effs : effs[x].doc = d => effs[x].contention # None
  <2>1. job[w].pc = "issues" /\ job[w].epes = {} /\ d \in DOMAIN docs /\ docs[d].uploaded /\ AllEffectuated
    BY JobKnown DEF Finish, Busy, Fit, JobSound, EpeSound, Loaded
  <2>2. copies \in [Docs -> Nat] /\ copies[d] > 0
    <3>1. copies \in [Docs -> Nat]
      BY TypeParts, Zenon DEF IInv
    <3> QED
      BY <2>1, <3>1 DEF IInv, Sound, DocumentsSound
  <2>3. \A x \in DOMAIN effs : effs[x].doc = d => effs[x].contention # None
    BY <2>1, JobKnown DEF Fit, NoneForgotten, Loaded
  <2> QED
    BY <2>1, <2>2, <2>3, RowTypes DEF IInv
<1>2. /\ row \in DocRows /\ row.citation = docs[d].citation /\ row.submitted = docs[d].submitted
      /\ row.uploaded = docs[d].uploaded /\ row.processed
  BY <1>1 DEF DocRows
<1>3. /\ docs' = [docs EXCEPT ![d] = row] /\ job' = [job EXCEPT ![w] = Idle]
      /\ UNCHANGED <<task, root, decided, file, copies, queue, effs, epes, claims, contentions,
                     sc, remand, request, faults>>
  BY DEF Finish, Leave, outcode, grants, vbms, remands
<1>4. Idle.pc = "idle"
  BY DEF Idle
<1> HIDE DEF row
<1> QED
  BY <1>1, <1>2, <1>3, <1>4, IdleFits, DocumentMoves

-----------------------------------------------------------------------------
(* Executions of the document job: remands *)

\* What an execution knows when it has done its EPEs stays true while it goes
\* through the remands.
LEMMA RemandMoves ==
    ASSUME IInv, NEW w \in Workers, NEW j \in JobTypes, job' = [job EXCEPT ![w] = j],
           job[w].pc \in {"epes", "claims", "claimant", "issues", "attach"}, job[w].epes = {},
           j.pc \in {"claims", "claimant", "issues", "attach"},
           j.pc \in {"claimant", "attach"} => j.benefit \in Benefits,
           j.doc = job[w].doc, j.epes = {}, j.done = job[w].done,
           UNCHANGED <<task, root, decided, docs, file, copies, queue, effs, epes, claims,
                       contentions, request, faults>>,
           sc' \in [Benefits -> ClaimRows], remand' \in [Remands -> {"none", "saved", "attached"}]
    PROVE  IInv'
<1>1. Fit(job[w])
  BY JobKnown
<1>2. Fit(j)
  <2>1. JobSound(j) /\ EpeSound(j)
    BY <1>1 DEF Fit, JobSound, EpeSound, Loaded
  <2>2. RecordsSound(j) /\ NoneForgotten(j)
    BY <1>1 DEF Fit, RecordsSound, NoneForgotten, Loaded
  <2> QED
    BY <2>1, <2>2 DEF Fit
<1> QED
  BY <1>2, JobKnown, JobGoesOn

LEMMA RemandStepsPreserve ==
    ASSUME IInv, NEW w \in Workers,
           \/ LoadRemands(w) \/ CreateClaimant(w) \/ LoadClaims(w) \/ SubmitClaim(w)
           \/ \E b \in Benefits : CreateClaim(w, b) \/ SaveIssues(w, b)
           \/ \E i \in Remands : AttachIssue(w, i)
    PROVE  IInv'
<1> DEFINE o == job[w]
<1>0. /\ o \in JobTypes /\ Fit(o) /\ sc \in [Benefits -> ClaimRows]
      /\ remand \in [Remands -> {"none", "saved", "attached"}]
  BY JobKnown
<1>1. /\ o.pc \in {"claims", "claimant", "issues", "attach"} => o.epes = {}
      /\ o.pc \in {"claimant", "attach"} => o.benefit \in Benefits
      /\ o.benefits \in SUBSET Benefits /\ o.issues \in SUBSET Remands
  BY <1>0 DEF Fit, EpeSound, JobSound, JobTypes, JobRows
<1>2. \A b \in Benefits : Uncontested(b) \in SUBSET Remands
  BY DEF Uncontested
<1>3. CASE LoadRemands(w)
  <2> DEFINE j == [[o EXCEPT !.benefits = {b \in Benefits : Uncontested(b) # {}}] EXCEPT !.pc = "claims"]
  <2>1. j \in JobTypes /\ j.pc = "claims" /\ j.doc = o.doc /\ j.epes = o.epes /\ j.done = o.done
    BY <1>0 DEF JobTypes, JobRows, JobSteps
  <2>2. /\ o.pc = "epes" /\ o.epes = {} /\ job' = [job EXCEPT ![w] = j]
        /\ UNCHANGED <<task, root, decided, docs, file, copies, queue, effs, epes, claims,
                       contentions, sc, remand, request, faults>>
    BY <1>3 DEF LoadRemands, Busy, Step, outcode, grants, vbms, remands
  <2> HIDE DEF j
  <2> QED
    BY <1>0, <2>1, <2>2, RemandMoves
<1>4. CASE CreateClaimant(w)
  <2> DEFINE j == [[o EXCEPT !.benefits = @ \ {o.benefit}, !.benefit = None] EXCEPT !.pc = "claims"]
  <2>1. j \in JobTypes /\ j.pc = "claims" /\ j.doc = o.doc /\ j.epes = o.epes /\ j.done = o.done
    BY <1>0 DEF JobTypes, JobRows, JobSteps
  <2>2. /\ o.pc = "claimant" /\ job' = [job EXCEPT ![w] = j]
        /\ sc' = [sc EXCEPT ![o.benefit].phase = "claimant"]
        /\ UNCHANGED <<task, root, decided, docs, file, copies, queue, effs, epes, claims,
                       contentions, remand, request, faults>>
    BY <1>4 DEF CreateClaimant, Busy, Step, outcode, grants, vbms
  <2>3. sc' \in [Benefits -> ClaimRows]
    BY <1>0, <2>2 DEF ClaimRows
  <2> HIDE DEF j
  <2> QED
    BY <1>0, <1>1, <2>1, <2>2, <2>3, RemandMoves
<1>5. CASE LoadClaims(w)
  <2> DEFINE j == [[o EXCEPT !.benefits = {b \in Benefits : sc[b].phase # "none"}] EXCEPT !.pc = "issues"]
  <2>1. j \in JobTypes /\ j.pc = "issues" /\ j.doc = o.doc /\ j.epes = o.epes /\ j.done = o.done
    BY <1>0 DEF JobTypes, JobRows, JobSteps
  <2>2. /\ o.pc = "claims" /\ job' = [job EXCEPT ![w] = j]
        /\ UNCHANGED <<task, root, decided, docs, file, copies, queue, effs, epes, claims,
                       contentions, sc, remand, request, faults>>
    BY <1>5 DEF LoadClaims, Busy, Step, outcode, grants, vbms, remands
  <2> HIDE DEF j
  <2> QED
    BY <1>0, <1>1, <2>1, <2>2, RemandMoves
<1>6. CASE SubmitClaim(w)
  <2> DEFINE j == [[o EXCEPT !.benefits = @ \ {o.benefit}, !.benefit = None] EXCEPT !.pc = "issues"]
  <2>1. j \in JobTypes /\ j.pc = "issues" /\ j.doc = o.doc /\ j.epes = o.epes /\ j.done = o.done
    BY <1>0 DEF JobTypes, JobRows, JobSteps
  <2>2. /\ o.pc = "attach" /\ job' = [job EXCEPT ![w] = j]
        /\ sc' = [sc EXCEPT ![o.benefit].submitted = TRUE, ![o.benefit].processed = FALSE]
        /\ UNCHANGED <<task, root, decided, docs, file, copies, queue, effs, epes, claims,
                       contentions, remand, request, faults>>
    BY <1>6 DEF SubmitClaim, Busy, Step, outcode, grants, vbms
  <2>3. sc' \in [Benefits -> ClaimRows]
    BY <1>0, <2>2 DEF ClaimRows
  <2> HIDE DEF j
  <2> QED
    BY <1>0, <1>1, <2>1, <2>2, <2>3, RemandMoves
<1>7. ASSUME NEW b \in Benefits, CreateClaim(w, b)
      PROVE  IInv'
  <2> DEFINE j == IF sc[b].phase = "none" THEN [[o EXCEPT !.benefit = b] EXCEPT !.pc = "claimant"]
                  ELSE [[o EXCEPT !.benefits = @ \ {b}] EXCEPT !.pc = "claims"]
  <2>1. /\ j \in JobTypes /\ j.pc \in {"claims", "claimant"} /\ j.doc = o.doc /\ j.epes = o.epes
        /\ j.done = o.done
        /\ j.pc = "claimant" => j.benefit \in Benefits
    BY <1>0 DEF JobTypes, JobRows, JobSteps
  <2>2. /\ o.pc = "claims" /\ job' = [job EXCEPT ![w] = j]
        /\ UNCHANGED <<task, root, decided, docs, file, copies, queue, effs, epes, claims,
                       contentions, remand, request, faults>>
    BY <1>7 DEF CreateClaim, Busy, Step, outcode, grants, vbms
  <2>3. sc' \in [Benefits -> ClaimRows]
    BY <1>0, <1>7 DEF CreateClaim, ClaimRows
  <2> HIDE DEF j
  <2> QED
    BY <1>0, <1>1, <2>1, <2>2, <2>3, RemandMoves
<1>8. ASSUME NEW b \in Benefits, SaveIssues(w, b)
      PROVE  IInv'
  <2> DEFINE j == [[o EXCEPT !.benefit = b, !.issues = Uncontested(b)] EXCEPT !.pc = "attach"]
  <2>1. /\ j \in JobTypes /\ j.pc = "attach" /\ j.doc = o.doc /\ j.epes = o.epes
        /\ j.done = o.done /\ j.benefit \in Benefits
    BY <1>0, <1>2 DEF JobTypes, JobRows, JobSteps
  <2>2. /\ o.pc = "issues" /\ job' = [job EXCEPT ![w] = j]
        /\ UNCHANGED <<task, root, decided, docs, file, copies, queue, effs, epes, claims,
                       contentions, sc, request, faults>>
    BY <1>8 DEF SaveIssues, Busy, Step, outcode, grants, vbms
  <2>3. remand' \in [Remands -> {"none", "saved", "attached"}]
    BY <1>0, <1>8 DEF SaveIssues
  <2> HIDE DEF j
  <2> QED
    BY <1>0, <1>1, <2>1, <2>2, <2>3, RemandMoves
<1>9. ASSUME NEW i \in Remands, AttachIssue(w, i)
      PROVE  IInv'
  <2> DEFINE j == [[o EXCEPT !.issues = @ \ {i}] EXCEPT !.pc = "attach"]
  <2>1. /\ j \in JobTypes /\ j.pc = "attach" /\ j.doc = o.doc /\ j.epes = o.epes
        /\ j.done = o.done /\ j.benefit = o.benefit
    BY <1>0 DEF JobTypes, JobRows, JobSteps
  <2>2. /\ o.pc = "attach" /\ job' = [job EXCEPT ![w] = j]
        /\ UNCHANGED <<task, root, decided, docs, file, copies, queue, effs, epes, claims,
                       contentions, sc, request, faults>>
    BY <1>9 DEF AttachIssue, Busy, Step, outcode, grants, vbms
  <2>3. remand' \in [Remands -> {"none", "saved", "attached"}]
    BY <1>0, <1>9 DEF AttachIssue
  <2> HIDE DEF j
  <2> QED
    BY <1>0, <1>1, <2>1, <2>2, <2>3, RemandMoves
<1> QED
  BY <1>3, <1>4, <1>5, <1>6, <1>7, <1>8, <1>9

LEMMA EstablishClaimPreserves ==
    ASSUME IInv, NEW b \in Benefits, EstablishClaim(b)
    PROVE  IInv'
<1>1. /\ sc' = [sc EXCEPT ![b].processed = TRUE]
      /\ UNCHANGED <<task, root, decided, docs, file, copies, queue, effs, epes, claims, contentions,
                     remand, request, job, faults>>
  BY DEF EstablishClaim, outcode, grants, vbms
<1>2. TypeOK'
  <2>1. sc \in [Benefits -> ClaimRows]
    BY TypeParts, Zenon DEF IInv
  <2>2. sc' \in [Benefits -> ClaimRows]
    BY <1>1, <2>1 DEF ClaimRows
  <2> QED
    BY <1>1, <2>2, TypeParts, TypePartsNext DEF IInv, JobTypes
<1>3. Sound'
  BY <1>1 DEF IInv, Sound, DocumentsSound, Submitted, RequestSound, Fit, JobSound, EpeSound,
     RecordsSound, NoneForgotten, AllEffectuated, Effectuated, OneExecution, ProcessedSound,
     GrantsSound, OrphansAwaited, Orphan, Awaits
<1> QED
  BY <1>2, <1>3 DEF IInv

-----------------------------------------------------------------------------
(* Executions of the document job: grants *)

\* What is known of the rows of grants.
LEMMA GrantsKnown ==
    ASSUME IInv
    PROVE  /\ effs \in Seq(EffRows(DOMAIN docs, DOMAIN epes, DOMAIN contentions))
           /\ epes \in Seq(EpeRows(DOMAIN docs, DOMAIN claims))
           /\ claims \in Seq(Codes) /\ contentions \in Seq(ContentionRows(DOMAIN claims))
           /\ \A x \in DOMAIN effs :
                effs[x] \in EffRows(DOMAIN docs, DOMAIN epes, DOMAIN contentions)
           /\ \A e \in DOMAIN epes : epes[e] \in EpeRows(DOMAIN docs, DOMAIN claims)
           /\ \A k \in DOMAIN claims : k \in Nat /\ k # None
           /\ \A k \in DOMAIN contentions : k # None
           /\ Len(claims) \in Nat /\ Len(epes) \in Nat /\ Len(effs) \in Nat
           /\ GrantsSound
<1>1. /\ effs \in Seq(EffRows(DOMAIN docs, DOMAIN epes, DOMAIN contentions))
      /\ epes \in Seq(EpeRows(DOMAIN docs, DOMAIN claims))
      /\ claims \in Seq(Codes) /\ contentions \in Seq(ContentionRows(DOMAIN claims))
  BY TypeParts, Zenon DEF IInv
<1>2. ASSUME NEW S, NEW s \in Seq(S)
      PROVE  Len(s) \in Nat /\ \A i \in DOMAIN s : i \in Nat /\ i # None
  BY LenProperties, NoneAssumption
<1>3. /\ \A k \in DOMAIN claims : k \in Nat /\ k # None
      /\ \A k \in DOMAIN contentions : k # None
      /\ Len(claims) \in Nat /\ Len(epes) \in Nat /\ Len(effs) \in Nat
  BY <1>1, <1>2, Zenon
<1>4. /\ \A x \in DOMAIN effs : effs[x] \in EffRows(DOMAIN docs, DOMAIN epes, DOMAIN contentions)
      /\ \A e \in DOMAIN epes : epes[e] \in EpeRows(DOMAIN docs, DOMAIN claims)
  BY RowTypes, Zenon DEF IInv
<1> QED
  BY <1>1, <1>3, <1>4 DEF IInv, Sound

LEMMA LoadEpesPreserves ==
    ASSUME IInv, NEW w \in Workers, LoadEpes(w)
    PROVE  IInv'
<1> DEFINE o == job[w]
           es == {e \in DOMAIN epes : epes[e].doc = o.doc}
           j == [[o EXCEPT !.epes = es] EXCEPT !.pc = "epes"]
<1>0. o \in JobTypes /\ Fit(o)
  BY JobKnown
<1>1. /\ o.pc = "effect" /\ o.done = Grants /\ job' = [job EXCEPT ![w] = j]
      /\ UNCHANGED <<task, root, decided, docs, file, copies, queue, effs, epes, claims, contentions,
                     sc, remand, request, faults>>
  BY DEF LoadEpes, Busy, Step, outcode, grants, vbms, remands
<1>2. /\ j \in JobTypes /\ j.pc = "epes" /\ j.epes = es /\ j.doc = o.doc /\ j.done = o.done
  BY <1>0 DEF JobTypes, JobRows, JobSteps
<1> HIDE DEF j
<1>3. Fit(j)
  <2>1. JobSound(j)
    BY <1>0, <1>1, <1>2 DEF Fit, JobSound, AllEffectuated, Loaded
  <2>2. EpeSound(j) /\ RecordsSound(j)
    BY <1>2 DEF EpeSound, RecordsSound
  <2>3. NoneForgotten(j)
    <3>1. ASSUME NEW x \in DOMAIN effs, effs[x].doc = o.doc, effs[x].contention = None
          PROVE  effs[x].epe \in es
      <4>1. effs[x].epe \in DOMAIN epes
        BY GrantsKnown DEF EffRows
      <4> QED
        BY <3>1, <4>1, GrantsKnown DEF GrantsSound
    <3> QED
      BY <1>2, <3>1 DEF NoneForgotten
  <2> QED
    BY <2>1, <2>2, <2>3 DEF Fit
<1> QED
  BY <1>1, <1>2, <1>3, JobKnown, JobGoesOn

\* The records of an EPE are matched, or there are none to match.
LEMMA EpeDone ==
    ASSUME IInv, NEW w \in Workers, NEW j \in JobTypes, job' = [job EXCEPT ![w] = j],
           job[w].pc \in {"contend", "match"},
           \A x \in DOMAIN effs : effs[x].doc = job[w].doc /\ effs[x].epe = job[w].epe =>
                                    effs[x].contention # None,
           j.pc = "epes", j.doc = job[w].doc, j.done = job[w].done,
           j.epes = job[w].epes \ {job[w].epe},
           UNCHANGED <<task, root, decided, docs, file, copies, queue, effs, epes, claims,
                       contentions, sc, remand, request, faults>>
    PROVE  IInv'
<1>0. Fit(job[w])
  BY JobKnown
<1>1. JobSound(j)
  BY <1>0 DEF Fit, JobSound, Loaded
<1>2. EpeSound(j) /\ RecordsSound(j)
  BY <1>0 DEF Fit, EpeSound, RecordsSound
<1>3. NoneForgotten(j)
  BY <1>0 DEF Fit, NoneForgotten, Loaded
<1>4. Fit(j)
  BY <1>1, <1>2, <1>3 DEF Fit
<1> QED
  BY <1>4, JobKnown, JobGoesOn

LEMMA MatchedPreserves ==
    ASSUME IInv, NEW w \in Workers, Matched(w)
    PROVE  IInv'
<1> DEFINE o == job[w]
           j == [[o EXCEPT !.epes = @ \ {o.epe}, !.epe = None, !.reply = {}] EXCEPT !.pc = "epes"]
<1>0. o \in JobTypes /\ Fit(o)
  BY JobKnown
<1>1. /\ o.pc = "match" /\ o.records = {} /\ job' = [job EXCEPT ![w] = j]
      /\ UNCHANGED <<task, root, decided, docs, file, copies, queue, effs, epes, claims, contentions,
                     sc, remand, request, faults>>
  BY DEF Matched, Busy, Step, outcode, grants, vbms, remands
<1>2. /\ j \in JobTypes /\ j.pc = "epes" /\ j.epes = o.epes \ {o.epe} /\ j.doc = o.doc
      /\ j.done = o.done
  BY <1>0 DEF JobTypes, JobRows, JobSteps
<1> HIDE DEF j
<1>3. \A x \in DOMAIN effs : effs[x].doc = o.doc /\ effs[x].epe = o.epe => effs[x].contention # None
  BY <1>0, <1>1 DEF Fit, NoneForgotten, Loaded
<1> QED
  BY <1>1, <1>2, <1>3, EpeDone

\* An EPE of the document gets an end product of its code, and every other
\* orphan has another EPE that awaits it.
LEMMA ClaimTaken ==
    ASSUME IInv, NEW w \in Workers, job[w].pc \in {"epes", "established"},
           NEW e \in job[w].epes, epes[e].claim = None,
           NEW c \in DOMAIN claims, claims[c] = epes[e].code,
           \A k \in DOMAIN claims : Orphan(k) /\ k # c => \E f \in DOMAIN epes : f # e /\ Awaits(f, k),
           NEW j \in JobTypes, job' = [job EXCEPT ![w] = j],
           j.pc = "contend", j.epe = e, j.epes = job[w].epes, j.doc = job[w].doc, j.done = job[w].done,
           epes' = [epes EXCEPT ![e] = [epes[e] EXCEPT !.claim = c]],
           UNCHANGED <<task, root, decided, docs, file, copies, queue, effs, claims,
                       contentions, sc, remand, request, faults>>
    PROVE  IInv'
<1> DEFINE row == [epes[e] EXCEPT !.claim = c]
<1>0. /\ job \in [Workers -> JobTypes]
      /\ job'[w] = j /\ \A v \in Workers : v # w => job'[v] = job[v]
  BY TypeParts DEF IInv
<1>1. /\ e \in DOMAIN epes /\ epes[e].doc = job[w].doc /\ c # None
      /\ \A v \in Workers : Fit(job[v])
  <2>1. job[w] \in JobTypes /\ Fit(job[w])
    BY JobKnown
  <2> QED
    BY <2>1, GrantsKnown, JobKnown DEF Fit, EpeSound, JobTypes, JobRows
<1>2. /\ row \in EpeRows(DOMAIN docs, DOMAIN claims)
      /\ row.doc = epes[e].doc /\ row.code = epes[e].code /\ row.claim = c
  BY <1>1, GrantsKnown DEF EpeRows
<1> HIDE DEF row
<1>3. /\ epes' \in Seq(EpeRows(DOMAIN docs, DOMAIN claims)) /\ DOMAIN epes' = DOMAIN epes
      /\ \A f \in DOMAIN epes : epes'[f] = IF f = e THEN row ELSE epes[f]
  BY <1>1, <1>2, GrantsKnown, Replaced DEF row
<1>4. /\ \A f \in DOMAIN epes : epes'[f].doc = epes[f].doc /\ epes'[f].code = epes[f].code
      /\ \A f \in DOMAIN epes : epes'[f].claim = IF f = e THEN c ELSE epes[f].claim
  BY <1>2, <1>3
<1>5. TypeOK'
  <2>1. job' \in [Workers -> JobTypes]
    BY <1>0
  <2> QED
    BY <1>3, <2>1, TypeParts, TypePartsNext DEF IInv, JobTypes
<1>6. /\ \A v \in Workers : job[v].epes \subseteq DOMAIN epes /\ job[v].records \subseteq DOMAIN effs
      /\ \A x \in DOMAIN effs : effs[x].epe \in DOMAIN epes
  BY <1>0, GrantsKnown DEF JobTypes, JobRows, EffRows
<1>7. ASSUME NEW v \in Workers, v # w
      PROVE  Fit(job[v])'
  <2>1. JobSound(job[v])'
    BY <1>0, <1>1, <1>7 DEF Fit, JobSound, AllEffectuated, Effectuated
  <2>2. EpeSound(job[v])' /\ RecordsSound(job[v])'
    <3>1. job[v].pc \in {"established", "contend", "match"} => job[v].epe \in DOMAIN epes /\ job[v].epe # e
      <4>1. job[v].pc # "idle" => job[v].doc # job[w].doc
        BY <1>7 DEF IInv, Sound, OneExecution
      <4> QED
        BY <1>1, <1>6, <4>1 DEF Fit, EpeSound
    <3>2. EpeSound(job[v])'
      BY <1>0, <1>1, <1>4, <1>6, <1>7, <3>1 DEF Fit, EpeSound
    <3>3. RecordsSound(job[v])'
      BY <1>0, <1>1, <1>4, <1>7, <3>1 DEF Fit, RecordsSound
    <3> QED
      BY <3>2, <3>3
  <2>3. NoneForgotten(job[v])'
    BY <1>0, <1>1, <1>7 DEF Fit, NoneForgotten
  <2> QED
    BY <2>1, <2>2, <2>3 DEF Fit
<1>8. Fit(job[w])'
  <2>1. JobSound(job[w])'
    BY <1>0, <1>1 DEF Fit, JobSound, AllEffectuated, Effectuated, Loaded
  <2>2. EpeSound(job[w])' /\ RecordsSound(job[w])'
    BY <1>0, <1>1, <1>4, <1>6 DEF Fit, EpeSound, RecordsSound
  <2>3. NoneForgotten(job[w])'
    BY <1>0, <1>1 DEF Fit, NoneForgotten, Loaded
  <2> QED
    BY <2>1, <2>2, <2>3 DEF Fit
<1>9. OneExecution'
  BY <1>0 DEF IInv, Sound, OneExecution
<1>10. GrantsSound'
  <2>1. \A f \in DOMAIN epes' : epes'[f].claim # None => claims'[epes'[f].claim] = epes'[f].code
    BY <1>1, <1>3, <1>4, GrantsKnown DEF GrantsSound
  <2>2. ASSUME NEW x \in DOMAIN effs
        PROVE  /\ epes'[effs[x].epe].code = Code(effs[x].issue)
               /\ effs[x].contention = None => effs[x].doc = epes'[effs[x].epe].doc
               /\ effs[x].contention # None =>
                    /\ effs[x].epe # e /\ epes'[effs[x].epe].claim = epes[effs[x].epe].claim
                    /\ epes[effs[x].epe].claim # None
                    /\ contentions[effs[x].contention] =
                         [claim |-> epes[effs[x].epe].claim, issue |-> effs[x].issue]
    BY <1>4, <1>6, GrantsKnown DEF GrantsSound
  <2>3. effs' = effs /\ contentions' = contentions
    OBVIOUS
  <2>4. ASSUME NEW x \in DOMAIN effs'
        PROVE  /\ epes'[effs'[x].epe].code = Code(effs'[x].issue)
               /\ effs'[x].contention = None => effs'[x].doc = epes'[effs'[x].epe].doc
    <3>1. x \in DOMAIN effs /\ effs'[x] = effs[x]
      BY <2>3, Zenon
    <3> QED
      BY <2>2, <3>1, Zenon
  <2>5. ASSUME NEW x \in DOMAIN effs', effs'[x].contention # None
        PROVE  /\ epes'[effs'[x].epe].claim # None
               /\ contentions'[effs'[x].contention] =
                         [claim |-> epes'[effs'[x].epe].claim, issue |-> effs'[x].issue]
    <3>1. x \in DOMAIN effs /\ effs[x].contention # None
      BY <2>3, <2>5
    <3>2. epes'[effs[x].epe].claim = epes[effs[x].epe].claim
      BY <2>2, <3>1
    <3>3. /\ epes'[effs[x].epe].claim # None
          /\ contentions[effs[x].contention] =
                         [claim |-> epes'[effs[x].epe].claim, issue |-> effs[x].issue]
      BY <2>2, <3>1, <3>2
    <3> QED
      BY <2>3, <3>3
  <2> QED
    BY <2>1, <2>4, <2>5, Zenon DEF GrantsSound
<1>11. OrphansAwaited'
  <2>1. \A k \in DOMAIN claims : Orphan(k)' => Orphan(k) /\ k # c
    BY <1>1, <1>3, <1>4, GrantsKnown DEF Orphan
  <2>2. ASSUME NEW k \in DOMAIN claims, NEW f \in DOMAIN epes, f # e, Awaits(f, k)
        PROVE  Awaits(f, k)'
    BY <1>0, <1>3, <1>4, <2>2 DEF Awaits
  <2>3. \A k \in DOMAIN claims : Orphan(k)' => \E f \in DOMAIN epes : Awaits(f, k)'
    BY <2>1, <2>2
  <2>4. \A k, l \in DOMAIN claims : Orphan(k)' /\ Orphan(l)' /\ claims[k] = claims[l] => k = l
    BY <2>1 DEF IInv, Sound, OrphansAwaited
  <2> QED
    BY <1>3, <2>3, <2>4 DEF OrphansAwaited
<1>12. DocumentsSound' /\ ProcessedSound' /\ \A r \in Requests : RequestSound(request[r])'
  BY DEF IInv, Sound, DocumentsSound, Submitted, ProcessedSound, AllEffectuated, Effectuated, RequestSound
<1> QED
  BY <1>5, <1>7, <1>8, <1>9, <1>10, <1>11, <1>12 DEF IInv, Sound

LEMMA SaveClaimPreserves ==
    ASSUME IInv, NEW w \in Workers, SaveClaim(w)
    PROVE  IInv'
<1> DEFINE o == job[w]
           j == [[o EXCEPT !.claim = None] EXCEPT !.pc = "contend"]
<1>0. o \in JobTypes /\ Fit(o)
  BY JobKnown
<1>1. /\ o.pc = "established" /\ job' = [job EXCEPT ![w] = j]
      /\ epes' = [epes EXCEPT ![o.epe].claim = o.claim]
      /\ UNCHANGED <<task, root, decided, docs, file, copies, queue, effs, claims, contentions,
                     sc, remand, request, faults>>
  BY DEF SaveClaim, Busy, Step, outcode, vbms, remands
<1>2. /\ j \in JobTypes /\ j.pc = "contend" /\ j.epe = o.epe /\ j.epes = o.epes /\ j.doc = o.doc
      /\ j.done = o.done
  BY <1>0 DEF JobTypes, JobRows, JobSteps
<1> HIDE DEF j
<1>3. /\ o.epe \in o.epes /\ o.epe \in DOMAIN epes
      /\ o.claim \in DOMAIN claims /\ claims[o.claim] = epes[o.epe].code
      /\ epes[o.epe].claim = None
  BY <1>0, <1>1 DEF Fit, EpeSound, JobTypes, JobRows
<1>4. epes' = [epes EXCEPT ![o.epe] = [epes[o.epe] EXCEPT !.claim = o.claim]]
  BY <1>1, <1>3
<1>5. ASSUME NEW k \in DOMAIN claims, Orphan(k), k # o.claim
      PROVE  \E f \in DOMAIN epes : f # o.epe /\ Awaits(f, k)
  <2>1. PICK f \in DOMAIN epes : Awaits(f, k)
    BY <1>5 DEF IInv, Sound, OrphansAwaited
  <2> QED
    BY <1>1, <1>5, <2>1 DEF Awaits
<1> QED
  BY <1>1, <1>2, <1>3, <1>4, <1>5, ClaimTaken

\* The entries of an execution that continues with another EPE and end product, or
\* with another issue done, are of their types.
LEMMA EntryTyped ==
    ASSUME NEW D, NEW E, NEW F, NEW C, NEW K, NEW o \in JobRows(D, E, F, C, K)
    PROVE  /\ \A e \in E, n \in C :
                [[o EXCEPT !.epe = e, !.claim = n] EXCEPT !.pc = "established"]
                    \in JobRows(D, E, F, C, K)
           /\ \A g \in Grants :
                [[o EXCEPT !.done = @ \union {g}] EXCEPT !.pc = "effect"]
                    \in JobRows(D, E, F, C, K)
<1>1. ASSUME NEW e \in E, NEW n \in C
      PROVE  [[o EXCEPT !.epe = e, !.claim = n] EXCEPT !.pc = "established"] \in JobRows(D, E, F, C, K)
  BY DEF JobRows, JobSteps
<1>2. ASSUME NEW g \in Grants
      PROVE  [[o EXCEPT !.done = @ \union {g}] EXCEPT !.pc = "effect"] \in JobRows(D, E, F, C, K)
  BY DEF JobRows, JobSteps
<1> QED
  BY <1>1, <1>2

\* A new end product is the only orphan of its code, and its EPE awaits it.
LEMMA NewClaim ==
    ASSUME IInv, NEW w \in Workers, job[w].pc = "epes",
           NEW e \in job[w].epes, epes[e].claim = None, Recoverable(e) = {},
           claims' = Append(claims, epes[e].code), NEW n, n = Len(claims) + 1,
           NEW j, job' = [job EXCEPT ![w] = j],
           j = [[job[w] EXCEPT !.epe = e, !.claim = n] EXCEPT !.pc = "established"],
           UNCHANGED <<task, root, decided, docs, file, copies, queue, effs, epes,
                       contentions, sc, remand, request, faults>>
    PROVE  IInv'
<1>0. /\ job \in [Workers -> JobTypes] /\ job[w] \in JobTypes
      /\ job'[w] = j /\ \A v \in Workers : v # w => job'[v] = job[v]
      /\ \A v \in Workers : Fit(job[v])
  BY TypeParts, JobKnown DEF IInv
<1>1. /\ e \in DOMAIN epes /\ epes[e].doc = job[w].doc /\ epes[e].code \in Codes
  BY <1>0, GrantsKnown DEF Fit, EpeSound, JobTypes, JobRows, EpeRows
<1>2. /\ claims' \in Seq(Codes) /\ n \notin DOMAIN claims /\ DOMAIN claims' = DOMAIN claims \union {n}
      /\ \A k \in DOMAIN claims : claims'[k] = claims[k]
      /\ claims'[n] = epes[e].code /\ n # None /\ n \in DOMAIN claims'
  <2>1. n # None
    BY GrantsKnown, NoneAssumption
  <2> QED
    BY <1>1, <2>1, GrantsKnown, Appended
<1>3. TypeOK'
  <2>1. PICK C : C = DOMAIN claims'
    OBVIOUS
  <2>2. TypeOK /\ DOMAIN claims \subseteq C /\ n \in C
    BY <1>2, <2>1 DEF IInv
  <2>3. /\ epes \in Seq(EpeRows(DOMAIN docs, C)) /\ contentions \in Seq(ContentionRows(C))
        /\ job \in [Workers -> JobRows(DOMAIN docs, DOMAIN epes, DOMAIN effs, C, DOMAIN contentions)]
    BY <2>2, ClaimsWidened
  <2>4. j \in JobRows(DOMAIN docs, DOMAIN epes, DOMAIN effs, C, DOMAIN contentions)
    <3>1. job[w] \in JobRows(DOMAIN docs, DOMAIN epes, DOMAIN effs, C, DOMAIN contentions)
      BY <2>3
    <3> QED
      BY <1>1, <2>2, <3>1, EntryTyped
  <2>5. job' \in [Workers -> JobRows(DOMAIN docs, DOMAIN epes, DOMAIN effs, C, DOMAIN contentions)]
    BY <2>3, <2>4
  <2> QED
    BY <1>2, <2>1, <2>3, <2>5, TypeParts, TypePartsNext DEF IInv
<1>4. /\ j.pc = "established" /\ j.epe = e /\ j.claim = n /\ j.epes = job[w].epes
      /\ j.doc = job[w].doc /\ j.done = job[w].done
  BY <1>0 DEF JobTypes, JobRows
<1>5. ASSUME NEW v \in Workers, v # w
      PROVE  Fit(job[v])'
  BY <1>0, <1>2, <1>5 DEF Fit, JobSound, EpeSound, RecordsSound, NoneForgotten, AllEffectuated, Effectuated
<1>6. Fit(job[w])'
  <2>1. JobSound(job[w])'
    BY <1>0, <1>4 DEF Fit, JobSound, AllEffectuated, Effectuated, Loaded
  <2>2. EpeSound(job[w])' /\ RecordsSound(job[w])'
    BY <1>0, <1>1, <1>2, <1>4 DEF Fit, EpeSound, RecordsSound
  <2>3. NoneForgotten(job[w])'
    BY <1>0, <1>4 DEF Fit, NoneForgotten, Loaded
  <2> QED
    BY <2>1, <2>2, <2>3 DEF Fit
<1>7. OneExecution'
  BY <1>0, <1>4 DEF IInv, Sound, OneExecution
<1>8. \A f \in DOMAIN epes : epes[f].claim # n /\ (epes[f].claim # None => epes[f].claim \in DOMAIN claims)
  BY <1>2, GrantsKnown DEF EpeRows
<1>9. GrantsSound'
  <2>1. \A f \in DOMAIN epes : epes[f].claim # None => claims'[epes[f].claim] = epes[f].code
    BY <1>2, <1>8, GrantsKnown DEF GrantsSound
  <2> QED
    BY <2>1, GrantsKnown DEF GrantsSound
<1>10. OrphansAwaited'
  <2>1. Orphan(n)' /\ \A k \in DOMAIN claims : Orphan(k)' => Orphan(k) /\ claims[k] # epes[e].code
    <3>1. Orphan(n)'
      BY <1>2, <1>8 DEF Orphan
    <3>2. ASSUME NEW k \in DOMAIN claims, Orphan(k)'
          PROVE  Orphan(k)
      BY <3>2 DEF Orphan
    <3>3. \A k \in DOMAIN claims : Orphan(k) => claims[k] # epes[e].code
      BY DEF Orphan, Recoverable
    <3> QED
      BY <3>1, <3>2, <3>3
  <2>2. Awaits(e, n)'
    <3>1. ASSUME NEW v \in Workers, job'[v].pc = "established", job'[v].epe = e
          PROVE  v = w
      <4>1. v # w => job[v].doc = job[w].doc /\ job[v].pc # "idle"
        BY <1>0, <1>1, <3>1 DEF Fit, EpeSound
      <4> QED
        BY <4>1 DEF IInv, Sound, OneExecution
    <3>2. \A v \in Workers : job'[v].pc = "established" /\ job'[v].epe = e => job'[v].claim = n
      BY <1>0, <1>4, <3>1
    <3>3. epes' = epes /\ epes[e].claim = None /\ claims'[n] = epes[e].code
      BY <1>2
    <3> QED
      BY <1>1, <3>2, <3>3 DEF Awaits
  <2>3. ASSUME NEW k \in DOMAIN claims, Orphan(k)'
        PROVE  \E f \in DOMAIN epes : Awaits(f, k)'
    <3>1. PICK f \in DOMAIN epes : Awaits(f, k)
      BY <2>1, <2>3 DEF IInv, Sound, OrphansAwaited
    <3>2. f # e
      BY <2>1, <2>3, <3>1 DEF Awaits
    <3>3. Awaits(f, k)'
      BY <1>0, <1>2, <1>4, <3>1, <3>2 DEF Awaits
    <3> QED
      BY <3>3
  <2>4. ASSUME NEW k \in DOMAIN claims', NEW l \in DOMAIN claims', Orphan(k)', Orphan(l)',
               claims'[k] = claims'[l]
        PROVE  k = l
    <3>1. CASE k = n \/ l = n
      BY <1>2, <2>1, <2>4, <3>1
    <3>2. CASE k \in DOMAIN claims /\ l \in DOMAIN claims
      BY <1>2, <2>1, <2>4, <3>2 DEF IInv, Sound, OrphansAwaited
    <3> QED
      BY <1>2, <3>1, <3>2
  <2>5. \A k \in DOMAIN claims' : Orphan(k)' => \E f \in DOMAIN epes' : Awaits(f, k)'
    <3>1. epes' = epes
      OBVIOUS
    <3>2. ASSUME NEW k \in DOMAIN claims', Orphan(k)'
          PROVE  \E f \in DOMAIN epes : Awaits(f, k)'
      <4>1. CASE k = n
        BY <1>1, <2>2, <4>1
      <4>2. CASE k \in DOMAIN claims
        BY <2>3, <3>2, <4>2
      <4> QED
        BY <1>2, <4>1, <4>2
    <3> QED
      BY <3>1, <3>2
  <2> QED
    BY <2>4, <2>5, Zenon DEF OrphansAwaited
<1>11. DocumentsSound' /\ ProcessedSound' /\ \A r \in Requests : RequestSound(request[r])'
  BY DEF IInv, Sound, DocumentsSound, Submitted, ProcessedSound, AllEffectuated, Effectuated, RequestSound
<1> QED
  BY <1>3, <1>5, <1>6, <1>7, <1>9, <1>10, <1>11 DEF IInv, Sound

LEMMA EstablishPreserves ==
    ASSUME IInv, NEW w \in Workers, NEW e \in DOMAIN epes, Establish(w, e)
    PROVE  IInv'
<1> DEFINE o == job[w]
           j == [[o EXCEPT !.epe = e] EXCEPT !.pc = "contend"]
<1>0. o \in JobTypes /\ Fit(o)
  BY JobKnown
<1>1. /\ o.pc = "epes" /\ e \in o.epes
      /\ UNCHANGED <<task, root, decided, docs, file, copies, queue, effs, contentions,
                     sc, remand, request, faults>>
  BY DEF Establish, Busy, outcode, remands
<1>2. /\ j \in JobTypes /\ j.pc = "contend" /\ j.epe = e /\ j.epes = o.epes /\ j.doc = o.doc
      /\ j.done = o.done /\ j.epe \in j.epes
  BY <1>0, <1>1 DEF JobTypes, JobRows, JobSteps
<1>3. CASE epes[e].claim # None
  <2>1. job' = [job EXCEPT ![w] = j] /\ UNCHANGED <<epes, claims>>
    BY <1>3 DEF Establish, Step
  <2> HIDE DEF j
  <2>2. JobSound(j) /\ RecordsSound(j)
    BY <1>0, <1>1, <1>2 DEF Fit, JobSound, RecordsSound, Loaded
  <2>3. EpeSound(j) /\ NoneForgotten(j)
    BY <1>0, <1>1, <1>2, <1>3 DEF Fit, EpeSound, NoneForgotten, Loaded
  <2>4. Fit(j)
    BY <2>2, <2>3 DEF Fit
  <2> QED
    BY <1>1, <1>2, <2>1, <2>4, JobKnown, JobGoesOn
<1>4. ASSUME epes[e].claim = None, NEW c \in Recoverable(e),
             epes' = [epes EXCEPT ![e].claim = c], job' = [job EXCEPT ![w] = j],
             UNCHANGED claims
      PROVE  IInv'
  <2> HIDE DEF j
  <2>1. /\ c \in DOMAIN claims /\ claims[c] = epes[e].code /\ Orphan(c)
    BY <1>4 DEF Recoverable, Orphan
  <2>2. epes' = [epes EXCEPT ![e] = [epes[e] EXCEPT !.claim = c]]
    BY <1>4
  <2>3. ASSUME NEW k \in DOMAIN claims, Orphan(k), k # c
        PROVE  \E f \in DOMAIN epes : f # e /\ Awaits(f, k)
    <3>1. PICK f \in DOMAIN epes : Awaits(f, k)
      BY <2>3 DEF IInv, Sound, OrphansAwaited
    <3>2. claims[k] # claims[c]
      BY <2>1, <2>3 DEF IInv, Sound, OrphansAwaited
    <3> QED
      BY <2>1, <3>1, <3>2 DEF Awaits
  <2>4. /\ o.pc \in {"epes", "established"} /\ e \in o.epes /\ epes[e].claim = None
        /\ job' = [job EXCEPT ![w] = j] /\ j \in JobTypes /\ j.pc = "contend" /\ j.epe = e
        /\ j.epes = o.epes /\ j.doc = o.doc /\ j.done = o.done
        /\ UNCHANGED <<task, root, decided, docs, file, copies, queue, effs, claims,
                       contentions, sc, remand, request, faults>>
    BY <1>1, <1>2, <1>4
  <2> QED
    BY <2>1, <2>2, <2>3, <2>4, ClaimTaken
<1>5. ASSUME epes[e].claim = None, Recoverable(e) = {}, claims' = Append(claims, epes[e].code),
             job' = [job EXCEPT ![w] =
                 [[o EXCEPT !.epe = e, !.claim = Len(claims) + 1] EXCEPT !.pc = "established"]],
             UNCHANGED epes
      PROVE  IInv'
  <2>1. PICK i : i = [[o EXCEPT !.epe = e, !.claim = Len(claims) + 1] EXCEPT !.pc = "established"]
    OBVIOUS
  <2>2. job' = [job EXCEPT ![w] = i]
    BY <1>5, <2>1
  <2>3. PICK n : n = Len(claims) + 1
    OBVIOUS
  <2>4. i = [[o EXCEPT !.epe = e, !.claim = n] EXCEPT !.pc = "established"]
    BY <2>1, <2>3
  <2>5. /\ o.pc = "epes" /\ e \in o.epes /\ epes[e].claim = None /\ Recoverable(e) = {}
        /\ claims' = Append(claims, epes[e].code)
        /\ UNCHANGED <<task, root, decided, docs, file, copies, queue, effs, epes,
                       contentions, sc, remand, request, faults>>
    BY <1>1, <1>5
  <2> QED
    BY <2>2, <2>3, <2>4, <2>5, NewClaim
<1> HIDE DEF j
<1> QED
  BY <1>3, <1>4, <1>5 DEF Establish, Step, j

\* An effectuation is created with its EPE: no execution has loaded EPEs yet.
LEMMA EffectuatePreserves ==
    ASSUME IInv, NEW w \in Workers, NEW g \in Grants, Effectuate(w, g)
    PROVE  IInv'
<1> DEFINE o == job[w]
<1>0. o \in JobTypes /\ Fit(o)
  BY JobKnown
<1>1. PICK j : j = [[o EXCEPT !.done = @ \union {g}] EXCEPT !.pc = "effect"]
  OBVIOUS
<1>2. /\ o.pc = "effect" /\ job' = [job EXCEPT ![w] = j]
      /\ UNCHANGED <<task, root, decided, docs, file, copies, queue, claims, contentions,
                     sc, remand, request, faults>>
  BY <1>1 DEF Effectuate, Busy, Step, outcode, vbms, remands
<1>3. /\ j \in JobTypes /\ j.pc = "effect" /\ j.done = o.done \union {g} /\ j.epes = o.epes
      /\ j.doc = o.doc
  BY <1>0, <1>1 DEF JobTypes, JobRows, JobSteps
<1>4. CASE Effectuated(g)
  <2>1. UNCHANGED <<effs, epes>>
    BY <1>4 DEF Effectuate
  <2>2. Fit(j)
    BY <1>0, <1>2, <1>3, <1>4 DEF Fit, JobSound, EpeSound, RecordsSound, NoneForgotten, Loaded
  <2> QED
    BY <1>2, <1>3, <2>1, <2>2, JobKnown, JobGoesOn
<1>5. CASE ~ Effectuated(g)
  <2> DEFINE n == Len(epes) + 1
             x == Len(effs) + 1
             fresh == [doc |-> DecisionDocument, code |-> Code(g), claim |-> None]
  <2>1. PICK e \in EpeFor(g) :
            /\ epes' = IF e \in DOMAIN epes THEN epes ELSE Append(epes, fresh)
            /\ effs' = Append(effs, [issue |-> g, doc |-> DecisionDocument, epe |-> e,
                                     contention |-> None])
    BY <1>5 DEF Effectuate
  <2>2. /\ DecisionDocument \in DOMAIN docs /\ Code(g) \in Codes
    <3>1. o.doc \in DOMAIN docs
      BY <1>0, <1>2 DEF Fit, JobSound
    <3> QED
      BY <3>1, JobKnown DEF DecisionDocument, Code, Codes
  <2>3. /\ n \notin DOMAIN epes
        /\ e \in DOMAIN epes => epes[e].doc = DecisionDocument /\ epes[e].code = Code(g)
        /\ e \notin DOMAIN epes => e = n
    <3>1. n \notin DOMAIN epes
      BY GrantsKnown, LenProperties
    <3> QED
      BY <2>1, <3>1 DEF EpeFor
  <2>4. fresh \in EpeRows(DOMAIN docs, DOMAIN claims) /\ fresh.doc = DecisionDocument
        /\ fresh.code = Code(g) /\ fresh.claim = None
    BY <2>2 DEF EpeRows
  <2> HIDE DEF fresh
  <2>5. /\ epes' \in Seq(EpeRows(DOMAIN docs, DOMAIN claims))
        /\ DOMAIN epes' = DOMAIN epes \union {e}
        /\ \A f \in DOMAIN epes : epes'[f] = epes[f]
        /\ epes'[e].doc = DecisionDocument /\ epes'[e].code = Code(g)
        /\ e \notin DOMAIN epes => epes'[e].claim = None
    <3>1. CASE e \in DOMAIN epes
      BY <2>1, <2>3, <3>1, GrantsKnown
    <3>2. CASE e \notin DOMAIN epes
      BY <2>1, <2>3, <2>4, <3>2, GrantsKnown, Appended
    <3> QED
      BY <3>1, <3>2
  <2>6. PICK E : E = DOMAIN epes'
    OBVIOUS
  <2>7. PICK F : F = DOMAIN effs \union {x}
    OBVIOUS
  <2>8. PICK row : row = [issue |-> g, doc |-> DecisionDocument, epe |-> e, contention |-> None]
    OBVIOUS
  <2>9. /\ row \in EffRows(DOMAIN docs, E, DOMAIN contentions)
        /\ row.issue = g /\ row.doc = DecisionDocument /\ row.epe = e /\ row.contention = None
    BY <2>2, <2>5, <2>6, <2>8 DEF EffRows
  <2>10. /\ effs \in Seq(EffRows(DOMAIN docs, E, DOMAIN contentions))
         /\ job \in [Workers -> JobRows(DOMAIN docs, E, F, DOMAIN claims, DOMAIN contentions)]
    <3>1. TypeOK /\ DOMAIN epes \subseteq E /\ DOMAIN effs \subseteq F
      BY <2>5, <2>6, <2>7 DEF IInv
    <3> QED
      BY <3>1, GrantsWidened
  <2>11. /\ effs' \in Seq(EffRows(DOMAIN docs, E, DOMAIN contentions))
         /\ DOMAIN effs' = F /\ x \notin DOMAIN effs
         /\ \A y \in DOMAIN effs : effs'[y] = effs[y]
         /\ effs'[x] = row
    BY <2>1, <2>7, <2>8, <2>9, <2>10, Appended
  <2>12. /\ job' \in [Workers -> JobRows(DOMAIN docs, E, F, DOMAIN claims, DOMAIN contentions)]
         /\ job'[w] = j /\ \A v \in Workers : v # w => job'[v] = job[v]
    <3>1. j \in JobRows(DOMAIN docs, E, F, DOMAIN claims, DOMAIN contentions)
      BY <1>1, <2>10, EntryTyped
    <3> QED
      BY <1>2, <2>10, <3>1
  <2>13. TypeOK'
    BY <1>2, <2>5, <2>6, <2>11, <2>12, TypeParts, TypePartsNext DEF IInv
  <2>14. /\ \A h \in Grants : Effectuated(h) => Effectuated(h)'
         /\ Effectuated(g)' /\ ~ AllEffectuated
    BY <1>5, <2>7, <2>9, <2>11 DEF Effectuated, AllEffectuated
  <2>15. \A v \in Workers : /\ Fit(job[v]) /\ job[v].pc \notin Loaded
                            /\ job[v].epes \subseteq DOMAIN epes /\ job[v].done \subseteq Grants
    BY <2>14, JobKnown DEF Fit, JobSound, JobTypes, JobRows
  <2>16. ASSUME NEW v \in Workers
         PROVE  Fit(job[v])'
    <3>1. /\ job'[v].pc = job[v].pc /\ job'[v].epes = job[v].epes /\ job'[v].doc = job[v].doc
          /\ job'[v].done \subseteq job[v].done \union {g}
      BY <1>2, <1>3, <2>12
    <3>2. JobSound(job[v])'
      BY <1>2, <2>14, <2>15, <3>1 DEF Fit, JobSound, Loaded
    <3>3. EpeSound(job[v])' /\ RecordsSound(job[v])' /\ NoneForgotten(job[v])'
      BY <2>5, <2>15, <3>1 DEF Fit, EpeSound, RecordsSound, NoneForgotten, Loaded
    <3> QED
      BY <3>2, <3>3 DEF Fit
  <2>17. ProcessedSound'
    BY <1>2, <2>14 DEF IInv, Sound, ProcessedSound
  <2>18. GrantsSound'
    <3>1. \A f \in DOMAIN epes' : epes'[f].claim # None => claims'[epes'[f].claim] = epes'[f].code
      BY <1>2, <2>5, GrantsKnown DEF GrantsSound
    <3>2. ASSUME NEW y \in DOMAIN effs
          PROVE  /\ effs[y].epe \in DOMAIN epes /\ effs'[y] = effs[y]
                 /\ epes'[effs[y].epe] = epes[effs[y].epe]
      BY <2>5, <2>11, GrantsKnown DEF EffRows
    <3>3. ASSUME NEW y \in DOMAIN effs
          PROVE  /\ epes'[effs'[y].epe].code = Code(effs'[y].issue)
                 /\ effs'[y].contention = None => effs'[y].doc = epes'[effs'[y].epe].doc
                 /\ effs'[y].contention # None =>
                      /\ epes'[effs'[y].epe].claim # None
                      /\ contentions'[effs'[y].contention] =
                           [claim |-> epes'[effs'[y].epe].claim, issue |-> effs'[y].issue]
      <4>1. contentions' = contentions
        BY <1>2
      <4> QED
        BY <3>2, <4>1, GrantsKnown DEF GrantsSound
    <3>4. /\ epes'[effs'[x].epe].code = Code(effs'[x].issue)
          /\ effs'[x].contention = None /\ effs'[x].doc = epes'[effs'[x].epe].doc
      BY <2>5, <2>9, <2>11
    <3>5. \A y \in DOMAIN effs' : y \in DOMAIN effs \/ y = x
      BY <2>7, <2>11
    <3> HIDE DEF x
    <3> QED
      BY <3>1, <3>3, <3>4, <3>5 DEF GrantsSound
  <2>19. OneExecution'
    BY <1>2, <1>3, <2>12 DEF IInv, Sound, OneExecution
  <2>20. OrphansAwaited'
    <3>1. \A k \in DOMAIN claims : Orphan(k)' <=> Orphan(k)
      BY <1>2, <2>5, GrantsKnown DEF Orphan
    <3>2. \A f \in DOMAIN epes : \A k \in DOMAIN claims : Awaits(f, k) => Awaits(f, k)'
      BY <1>2, <1>3, <2>5, <2>12 DEF Awaits
    <3> QED
      BY <1>2, <2>5, <3>1, <3>2 DEF IInv, Sound, OrphansAwaited
  <2>21. DocumentsSound' /\ \A r \in Requests : RequestSound(request[r])'
    BY <1>2 DEF IInv, Sound, DocumentsSound, Submitted, RequestSound
  <2> QED
    BY <2>13, <2>16, <2>17, <2>18, <2>19, <2>20, <2>21 DEF IInv, Sound
<1> QED
  BY <1>4, <1>5

\* The sequence of a finite set has its elements.
LEMMA SetToSeqType ==
    ASSUME NEW S, IsFiniteSet(S)
    PROVE  SetToSeq(S) \in [1..Cardinality(S) -> S] /\ Cardinality(S) \in Nat
<1>1. Cardinality(S) \in Nat /\ ExistsBijection(1..Cardinality(S), S)
  BY FS_CardinalityType
<1>2. PICK f \in Bijection(1..Cardinality(S), S) : TRUE
  BY <1>1 DEF ExistsBijection
<1>3. f \in [1..Cardinality(S) -> S] /\ IsInjective(f)
  BY <1>2 DEF Bijection, Injection, IsInjective
<1> QED
  BY <1>1, <1>3 DEF SetToSeq

\* VBMS adds a contention for each record that has none: no other record or
\* execution is concerned.
LEMMA ContendPreserves ==
    ASSUME IInv, NEW w \in Workers, Contend(w)
    PROVE  IInv'
<1> DEFINE o == job[w]
           ready == {x \in Records(w) : effs[x].contention = None}
           order == SetToSeq(ready)
           claim == epes[o.epe].claim
           added == [n \in DOMAIN order |-> [claim |-> claim, issue |-> effs[order[n]].issue]]
           all == contentions \o added
           reply == {k \in DOMAIN all : all[k].claim = claim} \ {effs[x].contention : x \in Records(w)}
<1>0. o \in JobTypes /\ Fit(o)
  BY JobKnown
<1>1. /\ o.pc = "contend"
      /\ UNCHANGED <<task, root, decided, docs, file, copies, queue, effs, epes, claims,
                     sc, remand, request, faults>>
  BY DEF Contend, Busy, outcode, remands
<1>2. /\ o.epe \in o.epes /\ o.epe \in DOMAIN epes /\ claim \in DOMAIN claims
  BY <1>0, <1>1, GrantsKnown DEF Fit, EpeSound, JobTypes, JobRows, EpeRows
<1>3. CASE ready = {}
  <2> DEFINE j == [[o EXCEPT !.epes = @ \ {o.epe}, !.epe = None] EXCEPT !.pc = "epes"]
  <2>1. job' = [job EXCEPT ![w] = j] /\ UNCHANGED contentions
    BY <1>3 DEF Contend, Step
  <2>2. /\ j \in JobTypes /\ j.pc = "epes" /\ j.epes = o.epes \ {o.epe} /\ j.doc = o.doc
        /\ j.done = o.done
    BY <1>0 DEF JobTypes, JobRows, JobSteps
  <2>3. \A x \in DOMAIN effs : effs[x].doc = o.doc /\ effs[x].epe = o.epe => effs[x].contention # None
    BY <1>3 DEF Records
  <2> HIDE DEF j
  <2> QED
    BY <1>1, <2>1, <2>2, <2>3, EpeDone
<1>4. CASE ready # {}
  <2>0. PICK j : j = [[o EXCEPT !.records = ready, !.reply = reply] EXCEPT !.pc = "match"]
    OBVIOUS
  <2>1. contentions' = all /\ job' = [job EXCEPT ![w] = j]
    BY <1>4, <2>0 DEF Contend, Step
  <2>2. ready \subseteq DOMAIN effs /\ IsFiniteSet(ready)
    <3>1. ready \subseteq DOMAIN effs
      BY DEF Records
    <3>2. IsFiniteSet(DOMAIN effs)
      <4>1. DOMAIN effs = 1..Len(effs) /\ Len(effs) \in Nat
        BY GrantsKnown, LenProperties
      <4> QED
        BY <4>1, FS_Interval
    <3> QED
      BY <3>1, <3>2, FS_Subset
  <2>3. added \in Seq(ContentionRows(DOMAIN claims))
    <3>1. order \in [1..Cardinality(ready) -> ready] /\ Cardinality(ready) \in Nat
      BY <2>2, SetToSeqType
    <3>2. \A n \in 1..Cardinality(ready) : effs[order[n]].issue \in Grants
      <4>1. \A x \in ready : effs[x].issue \in Grants
        BY <2>2, GrantsKnown DEF EffRows
      <4> HIDE DEF order, ready
      <4> QED
        BY <3>1, <4>1
    <3> HIDE DEF order, ready, claim
    <3>3. added \in [1..Cardinality(ready) -> ContentionRows(DOMAIN claims)]
      BY <1>2, <3>1, <3>2 DEF ContentionRows
    <3> QED
      BY <3>1, <3>3, SeqDef
  <2> HIDE DEF added
  <2>4. /\ all \in Seq(ContentionRows(DOMAIN claims)) /\ DOMAIN contentions \subseteq DOMAIN all
        /\ \A k \in DOMAIN contentions : all[k] = contentions[k]
    <3>1. /\ contentions \in Seq(ContentionRows(DOMAIN claims))
          /\ Len(contentions) \in Nat /\ DOMAIN contentions = 1..Len(contentions)
          /\ Len(added) \in Nat
      BY <2>3, GrantsKnown, LenProperties
    <3>2. /\ all \in Seq(ContentionRows(DOMAIN claims)) /\ Len(all) = Len(contentions) + Len(added)
          /\ \A k \in 1..Len(contentions) + Len(added) :
                all[k] = IF k <= Len(contentions) THEN contentions[k] ELSE added[k - Len(contentions)]
      BY <2>3, <3>1, ConcatProperties
    <3>3. DOMAIN all = 1..Len(all)
      BY <3>2, LenProperties
    <3> HIDE DEF all
    <3> QED
      BY <3>1, <3>2, <3>3
  <2> HIDE DEF all
  <2>5. PICK K : K = DOMAIN contentions'
    OBVIOUS
  <2>6. TypeOK'
    <3>1. TypeOK /\ DOMAIN contentions \subseteq K
      BY <2>1, <2>4, <2>5 DEF IInv
    <3>2. /\ effs \in Seq(EffRows(DOMAIN docs, DOMAIN epes, K))
          /\ job \in [Workers -> JobRows(DOMAIN docs, DOMAIN epes, DOMAIN effs, DOMAIN claims, K)]
      BY <3>1, ContentionsWidened
    <3>3. j \in JobRows(DOMAIN docs, DOMAIN epes, DOMAIN effs, DOMAIN claims, K)
      <4>1. /\ job[w] \in JobRows(DOMAIN docs, DOMAIN epes, DOMAIN effs, DOMAIN claims, K)
            /\ reply \subseteq K
        BY <2>1, <2>5, <3>2
      <4> HIDE DEF ready, reply
      <4> QED
        BY <2>0, <2>2, <4>1 DEF JobRows, JobSteps
    <3>4. job' \in [Workers -> JobRows(DOMAIN docs, DOMAIN epes, DOMAIN effs, DOMAIN claims, K)]
      BY <2>1, <3>2, <3>3
    <3> QED
      BY <1>1, <2>1, <2>4, <2>5, <3>2, <3>4, TypeParts, TypePartsNext DEF IInv
  <2>7. /\ job'[w] = j /\ \A v \in Workers : v # w => job'[v] = job[v]
        /\ \A v \in Workers : job[v] \in JobTypes /\ Fit(job[v])
    <3>1. job \in [Workers -> JobTypes]
      BY TypeParts DEF IInv
    <3> QED
      BY <2>1, <3>1, JobKnown
  <2>8. /\ j.pc = "match" /\ j.epe = o.epe /\ j.epes = o.epes /\ j.doc = o.doc /\ j.done = o.done
        /\ j.records = ready /\ j.reply = reply
    BY <1>0, <2>0 DEF JobTypes, JobRows
  <2>9. ASSUME NEW v \in Workers, v # w
        PROVE  Fit(job[v])'
    <3>1. JobSound(job[v])' /\ EpeSound(job[v])' /\ NoneForgotten(job[v])'
      BY <1>1, <2>7, <2>9 DEF Fit, JobSound, EpeSound, NoneForgotten, AllEffectuated, Effectuated
    <3>2. RecordsSound(job[v])'
      <4>1. job[v].reply \subseteq DOMAIN contentions
        BY <2>7 DEF JobTypes, JobRows
      <4> QED
        BY <1>1, <2>1, <2>4, <2>7, <2>9, <4>1 DEF Fit, RecordsSound
    <3> QED
      BY <3>1, <3>2 DEF Fit
  <2>10. Fit(job[w])'
    <3>1. JobSound(job[w])' /\ EpeSound(job[w])'
      BY <1>0, <1>1, <2>7, <2>8 DEF Fit, JobSound, EpeSound, AllEffectuated, Effectuated, Loaded
    <3>2. RecordsSound(job[w])'
      <4>1. \A x \in ready : effs[x].epe = o.epe /\ effs[x].contention = None
        BY DEF Records
      <4>2. \A k \in reply : contentions'[k].claim = claim
        BY <2>1
      <4> HIDE DEF ready, reply
      <4> QED
        BY <1>1, <2>7, <2>8, <4>1, <4>2 DEF RecordsSound
    <3>3. NoneForgotten(job[w])'
      <4>1. \A x \in DOMAIN effs : effs[x].doc = o.doc /\ effs[x].contention = None
                                     /\ effs[x].epe = o.epe => x \in ready
        BY DEF Records
      <4> HIDE DEF ready, reply
      <4> QED
        BY <1>0, <1>1, <2>7, <2>8, <4>1 DEF Fit, NoneForgotten, Loaded
    <3> QED
      BY <3>1, <3>2, <3>3 DEF Fit
  <2>11. OneExecution' /\ OrphansAwaited'
    <3>1. OneExecution'
      BY <1>1, <2>7, <2>8 DEF IInv, Sound, OneExecution
    <3>2. \A k : Orphan(k)' <=> Orphan(k)
      BY <1>1 DEF Orphan
    <3>3. \A f, k : Awaits(f, k) => Awaits(f, k)'
      BY <1>1, <2>7, <2>8 DEF Awaits
    <3> QED
      BY <1>1, <3>1, <3>2, <3>3 DEF IInv, Sound, OrphansAwaited
  <2>12. GrantsSound'
    <3>1. \A x \in DOMAIN effs : effs[x].contention # None =>
             contentions'[effs[x].contention] = contentions[effs[x].contention]
      BY <2>1, <2>4, GrantsKnown DEF EffRows
    <3> QED
      BY <1>1, <3>1, GrantsKnown DEF GrantsSound
  <2>13. DocumentsSound' /\ ProcessedSound' /\ \A r \in Requests : RequestSound(request[r])'
    BY <1>1 DEF IInv, Sound, DocumentsSound, Submitted, ProcessedSound, AllEffectuated, Effectuated,
       RequestSound
  <2> QED
    BY <2>6, <2>7, <2>9, <2>10, <2>11, <2>12, <2>13 DEF IInv, Sound
<1> QED
  BY <1>3, <1>4

\* A record is matched: it is of the EPE of this execution, so of no other's.
LEMMA MatchPreserves ==
    ASSUME IInv, NEW w \in Workers, NEW k \in DOMAIN contentions, NEW x \in DOMAIN effs, Match(w, k, x)
    PROVE  IInv'
<1> DEFINE o == job[w]
           EffTypes == EffRows(DOMAIN docs, DOMAIN epes, DOMAIN contentions)
<1>0. o \in JobTypes /\ Fit(o)
  BY JobKnown
<1>1. PICK j : j = [[o EXCEPT !.reply = @ \ {k}, !.records = @ \ {x}] EXCEPT !.pc = "match"]
  OBVIOUS
<1>2. PICK row : row = [effs[x] EXCEPT !.contention = k, !.doc = DecisionDocument]
  OBVIOUS
<1>3. /\ o.pc = "match" /\ k \in o.reply /\ x \in o.records /\ contentions[k].issue = effs[x].issue
      /\ job' = [job EXCEPT ![w] = j] /\ effs' = [effs EXCEPT ![x] = row]
      /\ UNCHANGED <<task, root, decided, docs, file, copies, queue, epes, claims, contentions,
                     sc, remand, request, faults>>
  BY <1>1, <1>2 DEF Match, Busy, Step, outcode, vbms, remands
<1>4. DecisionDocument \in DOMAIN docs
  <2>1. o.doc \in DOMAIN docs
    BY <1>0, <1>3 DEF Fit, JobSound
  <2> QED
    BY <2>1, JobKnown DEF DecisionDocument
<1>5. /\ effs[x] \in EffTypes /\ row \in EffTypes /\ row.issue = effs[x].issue /\ row.epe = effs[x].epe
      /\ row.contention = k
  BY <1>2, <1>4, GrantsKnown DEF EffRows
<1> HIDE DEF EffTypes
<1>6. /\ effs' \in Seq(EffTypes) /\ DOMAIN effs' = DOMAIN effs
      /\ \A y \in DOMAIN effs : effs'[y] = IF y = x THEN row ELSE effs[y]
  BY <1>3, <1>5, GrantsKnown, Replaced DEF EffTypes
<1>7. /\ j \in JobTypes /\ j.pc = "match" /\ j.epe = o.epe /\ j.epes = o.epes /\ j.doc = o.doc
      /\ j.done = o.done /\ j.records = o.records \ {x} /\ j.reply \subseteq o.reply
  BY <1>0, <1>1 DEF JobTypes, JobRows, JobSteps
<1>8. /\ job' \in [Workers -> JobTypes] /\ job'[w] = j
      /\ \A v \in Workers : v # w => job'[v] = job[v]
      /\ \A v \in Workers : job[v] \in JobTypes /\ Fit(job[v])
  <2>1. job \in [Workers -> JobTypes]
    BY TypeParts DEF IInv
  <2> QED
    BY <1>3, <1>7, <2>1, JobKnown
<1>9. TypeOK'
  BY <1>3, <1>6, <1>8, TypeParts, TypePartsNext DEF IInv, JobTypes, EffTypes
<1>10. /\ effs[x].epe = o.epe /\ o.epe \in o.epes /\ o.epe \in DOMAIN epes
       /\ epes[o.epe].doc = o.doc /\ epes[o.epe].claim # None
       /\ contentions[k].claim = epes[o.epe].claim /\ k # None
  BY <1>0, <1>3, GrantsKnown DEF Fit, EpeSound, RecordsSound, JobTypes, JobRows
<1>11. /\ \A y \in DOMAIN effs : effs'[y].issue = effs[y].issue /\ effs'[y].epe = effs[y].epe
       /\ \A y \in DOMAIN effs : effs'[y].contention = None => y # x /\ effs'[y] = effs[y]
  BY <1>5, <1>6, <1>10
<1>12. \A g \in Grants : Effectuated(g)' <=> Effectuated(g)
  BY <1>6, <1>11 DEF Effectuated
<1>13. ASSUME NEW v \in Workers, v # w
       PROVE  Fit(job[v])'
  <2>1. JobSound(job[v])' /\ EpeSound(job[v])'
    <3>1. job[v].done \subseteq Grants
      BY <1>8 DEF JobTypes, JobRows
    <3> QED
      BY <1>3, <1>8, <1>12, <1>13, <3>1 DEF Fit, JobSound, EpeSound, AllEffectuated
  <2>2. RecordsSound(job[v])'
    <3>1. job[v].pc = "match" => x \notin job[v].records
      <4>1. job[v].pc = "match" => job[v].doc # o.doc
        BY <1>3, <1>13 DEF IInv, Sound, OneExecution
      <4> QED
        BY <1>8, <1>10, <4>1 DEF Fit, RecordsSound, EpeSound
    <3>2. job[v].records \subseteq DOMAIN effs
      BY <1>8 DEF JobTypes, JobRows
    <3> QED
      BY <1>3, <1>6, <1>8, <1>13, <3>1, <3>2 DEF Fit, RecordsSound
  <2>3. NoneForgotten(job[v])'
    BY <1>6, <1>8, <1>11, <1>13 DEF Fit, NoneForgotten
  <2> QED
    BY <2>1, <2>2, <2>3 DEF Fit
<1>14. Fit(job[w])'
  <2>1. JobSound(job[w])' /\ EpeSound(job[w])'
    <3>1. o.done \subseteq Grants
      BY <1>0 DEF JobTypes, JobRows
    <3> QED
      BY <1>0, <1>3, <1>7, <1>8, <1>12, <3>1 DEF Fit, JobSound, EpeSound, AllEffectuated, Loaded
  <2>2. RecordsSound(job[w])'
    <3>1. o.records \subseteq DOMAIN effs
      BY <1>0 DEF JobTypes, JobRows
    <3> QED
      BY <1>0, <1>3, <1>6, <1>7, <1>8, <3>1 DEF Fit, RecordsSound
  <2>3. NoneForgotten(job[w])'
    BY <1>0, <1>3, <1>6, <1>7, <1>8, <1>11 DEF Fit, NoneForgotten, Loaded
  <2> QED
    BY <2>1, <2>2, <2>3 DEF Fit
<1>15. OneExecution' /\ OrphansAwaited'
  <2>1. OneExecution'
    BY <1>3, <1>7, <1>8 DEF IInv, Sound, OneExecution
  <2>2. \A c : Orphan(c)' <=> Orphan(c)
    BY <1>3 DEF Orphan
  <2>3. \A f, c : Awaits(f, c) => Awaits(f, c)'
    BY <1>3, <1>7, <1>8 DEF Awaits
  <2> QED
    BY <1>3, <2>1, <2>2, <2>3 DEF IInv, Sound, OrphansAwaited
<1>16. GrantsSound'
  <2>1. contentions[k] = [claim |-> epes[o.epe].claim, issue |-> effs[x].issue]
    <3>1. contentions[k] \in ContentionRows(DOMAIN claims)
      BY RowTypes DEF IInv
    <3> QED
      BY <1>3, <1>10, <3>1 DEF ContentionRows
  <2>2. ASSUME NEW y \in DOMAIN effs
        PROVE  /\ epes[effs'[y].epe].code = Code(effs'[y].issue)
               /\ effs'[y].contention = None => effs'[y].doc = epes[effs'[y].epe].doc
               /\ effs'[y].contention # None =>
                    /\ epes[effs'[y].epe].claim # None
                    /\ contentions[effs'[y].contention] =
                         [claim |-> epes[effs'[y].epe].claim, issue |-> effs'[y].issue]
    <3>1. CASE y = x
      BY <1>5, <1>6, <1>10, <2>1, <3>1, GrantsKnown DEF GrantsSound
    <3>2. CASE y # x
      BY <1>6, <3>2, GrantsKnown DEF GrantsSound
    <3> QED
      BY <3>1, <3>2
  <2> QED
    BY <1>3, <1>6, <2>2, GrantsKnown DEF GrantsSound
<1>17. ProcessedSound'
  BY <1>3, <1>6, <1>11, <1>12 DEF IInv, Sound, ProcessedSound, AllEffectuated
<1>18. DocumentsSound' /\ \A r \in Requests : RequestSound(request[r])'
  BY <1>3 DEF IInv, Sound, DocumentsSound, Submitted, RequestSound
<1> QED
  BY <1>8, <1>9, <1>13, <1>14, <1>15, <1>16, <1>17, <1>18 DEF IInv, Sound

-----------------------------------------------------------------------------
(* The theorems *)

LEMMA RequestStepPreserves ==
    ASSUME IInv, NEW r \in Requests,
           (\E c \in Citations : CheckRequest(r, c)) \/ Dispatch(r) \/ FailRequest(r)
    PROVE  IInv'
<1>1. ASSUME NEW c \in Citations, CheckRequest(r, c) PROVE IInv'
  BY <1>1, CheckRequestPreserves
<1>2. CASE CreateDocument(r)
  BY <1>2, CreateDocumentPreserves
<1>3. CASE StoreFile(r)
  BY <1>3, StoreFilePreserves
<1>4. CASE SubmitDocument(r)
  BY <1>4, SubmitDocumentPreserves
<1>5. CASE Enqueue(r)
  BY <1>5, EnqueuePreserves
<1>6. CASE CompleteTask(r) \/ CompleteRoot(r) \/ CloseIssues(r)
  BY <1>6, ClosePreserves
<1>7. CASE FailRequest(r)
  BY <1>7, FailRequestPreserves
<1> QED
  BY <1>1, <1>2, <1>3, <1>4, <1>5, <1>6, <1>7 DEF Dispatch

LEMMA WorkPreserves ==
    ASSUME IInv, NEW w \in Workers, Work(w)
    PROVE  IInv'
<1>1. CASE Upload(w)
  BY <1>1, UploadPreserves
<1>2. CASE SaveUpload(w)
  BY <1>2, SaveUploadPreserves
<1>3. CASE LoadEpes(w)
  BY <1>3, LoadEpesPreserves
<1>4. CASE SaveClaim(w)
  BY <1>4, SaveClaimPreserves
<1>5. CASE Contend(w)
  BY <1>5, ContendPreserves
<1>6. CASE Matched(w)
  BY <1>6, MatchedPreserves
<1>7. ASSUME NEW g \in Grants, Effectuate(w, g) PROVE IInv'
  BY <1>7, EffectuatePreserves
<1>8. ASSUME NEW e \in DOMAIN epes, Establish(w, e) PROVE IInv'
  BY <1>8, EstablishPreserves
<1>9. ASSUME NEW k \in DOMAIN contentions, NEW x \in DOMAIN effs, Match(w, k, x) PROVE IInv'
  BY <1>9, MatchPreserves
<1>10. CASE Finish(w)
  BY <1>10, FinishPreserves
<1>11. CASE \/ LoadRemands(w) \/ CreateClaimant(w) \/ LoadClaims(w) \/ SubmitClaim(w)
            \/ \E b \in Benefits : CreateClaim(w, b) \/ SaveIssues(w, b)
            \/ \E i \in Remands : AttachIssue(w, i)
  BY <1>11, RemandStepsPreserve
<1> QED
  BY <1>1, <1>2, <1>3, <1>4, <1>5, <1>6, <1>7, <1>8, <1>9, <1>10, <1>11 DEF Work

LEMMA StutterPreserves == IInv /\ UNCHANGED vars => IInv'
<1> SUFFICES ASSUME IInv, UNCHANGED vars PROVE IInv'
  OBVIOUS
<1> USE DEF vars, outcode, grants, vbms, remands
<1>1. TypeOK'
  BY TypeParts, TypePartsNext DEF IInv, JobTypes
<1>2. Sound'
  BY DEF IInv, Sound, DocumentsSound, Submitted, RequestSound, Fit, JobSound, EpeSound,
     RecordsSound, NoneForgotten, AllEffectuated, Effectuated, OneExecution, ProcessedSound,
     GrantsSound, OrphansAwaited, Orphan, Awaits
<1> QED
  BY <1>1, <1>2 DEF IInv

\* The invariant holds of every behaviour: what requests and executions know of
\* documents and grants stays true, whichever of them run, end or break off
\* between two steps of another.
THEOREM InductiveInvariant == Spec => []IInv
<1>1. Init => IInv
  BY InitSound
<1>2. IInv /\ [Next]_vars => IInv'
  <2> SUFFICES ASSUME IInv, [Next]_vars PROVE IInv'
    OBVIOUS
  <2>1. ASSUME NEW r \in Requests,
               (\E c \in Citations : CheckRequest(r, c)) \/ Dispatch(r) \/ FailRequest(r)
        PROVE  IInv'
    BY <2>1, RequestStepPreserves
  <2>2. ASSUME NEW d \in DOMAIN docs, Requeue(d) PROVE IInv'
    BY <2>2, RequeuePreserves
  <2>3. ASSUME NEW d \in DOMAIN docs, NEW w \in Workers, StartJob(w, d) PROVE IInv'
    BY <2>3, StartJobPreserves
  <2>4. ASSUME NEW w \in Workers, Work(w) PROVE IInv'
    BY <2>4, WorkPreserves
  <2>5. ASSUME NEW w \in Workers, FailJob(w) PROVE IInv'
    BY <2>5, FailJobPreserves
  <2>6. ASSUME NEW b \in Benefits, EstablishClaim(b) PROVE IInv'
    BY <2>6, EstablishClaimPreserves
  <2>7. CASE UNCHANGED vars
    BY <2>7, StutterPreserves
  <2> QED
    BY <2>1, <2>2, <2>3, <2>4, <2>5, <2>6, <2>7 DEF Next
<1> QED
  BY <1>1, <1>2, PTL DEF Spec

\* Every row has its type, and refers to rows and records of VBMS that exist.
THEOREM TypeCorrect == Spec => []TypeOK
<1>1. IInv => TypeOK
  BY DEF IInv
<1> QED
  BY <1>1, InductiveInvariant, PTL

\* An appeal that is closed has a submitted document, and a processed document is
\* in VBMS, wherever requests and executions broke off (outcode_appeal,
\* upload_to_vbms!).
THEOREM DecisionSent == Spec => []ClosedHasDecision
<1>1. ASSUME IInv PROVE ClosedHasDecision
  <2>1. \A d \in Processed : docs[d].uploaded /\ copies[d] > 0
    BY <1>1 DEF IInv, Sound, DocumentsSound, ProcessedSound, Processed
  <2> QED
    BY <1>1, <2>1 DEF IInv, Sound, DocumentsSound, ClosedHasDecision
<1> QED
  BY <1>1, InductiveInvariant, PTL

\* When the appeal is closed and its documents are processed, every grant has its
\* effectuation, and on a submitted document its contention on an end product of
\* its code, with any number of documents, requests and executions
\* (process_board_grant_effectuations!).
THEOREM GrantsAreCarriedOut == Spec => []GrantsCarriedOut
<1>1. ASSUME IInv, root = "completed", Submitted \subseteq Processed, NEW g \in Grants
      PROVE  \E x \in DOMAIN effs :
                /\ effs[x].issue = g
                /\ effs[x].contention # None \/ effs[x].doc \in Submitted =>
                     LET claim == epes[effs[x].epe].claim
                     IN  /\ claim # None /\ claims[claim] = Code(g)
                         /\ effs[x].contention # None
                         /\ contentions[effs[x].contention] = [claim |-> claim, issue |-> g]
  <2>1. PICK d \in Submitted : d \in Processed
    BY <1>1 DEF IInv, Sound, DocumentsSound
  <2>2. Effectuated(g)
    BY <1>1, <2>1 DEF IInv, Sound, ProcessedSound, Processed, AllEffectuated
  <2>3. PICK x \in DOMAIN effs : effs[x].issue = g
    BY <2>2 DEF Effectuated
  <2>4. effs[x].doc \in Submitted => effs[x].contention # None
    BY <1>1 DEF IInv, Sound, ProcessedSound, Processed
  <2>5. effs[x].epe \in DOMAIN epes
    BY <1>1, GrantsKnown DEF EffRows
  <2>6. GrantsSound
    BY <1>1 DEF IInv, Sound
  <2> QED
    BY <1>1, <2>3, <2>4, <2>5, <2>6 DEF GrantsSound
<1>2. IInv => GrantsCarriedOut
  BY <1>1 DEF GrantsCarriedOut
<1> QED
  BY <1>2, InductiveInvariant, PTL

\* VBMS has no more end products of a code than there are EPEs of it, with any
\* number of executions at a time: the one orphan a code may have is awaited, so
\* the EPEs of the code map onto its end products (save_recovered_end_product!).
THEOREM NoExtraClaims == Spec => []ClaimsBounded
<1>1. ASSUME IInv, NEW c \in Codes
      PROVE  Cardinality({k \in DOMAIN claims : claims[k] = c})
               <= Cardinality({e \in DOMAIN epes : epes[e].code = c})
  <2> DEFINE S == {k \in DOMAIN claims : claims[k] = c}
             T == {e \in DOMAIN epes : epes[e].code = c}
  <2>1. IsFiniteSet(T) /\ Cardinality(T) \in Nat
    <3>1. DOMAIN epes = 1..Len(epes) /\ Len(epes) \in Nat
      BY <1>1, GrantsKnown, LenProperties
    <3>2. IsFiniteSet(DOMAIN epes)
      BY <3>1, FS_Interval
    <3> QED
      BY <3>2, FS_Subset, FS_CardinalityType
  <2>2. \A e \in T : epes[e].claim = None \/ epes[e].claim \in S
    BY <1>1, GrantsKnown DEF GrantsSound, EpeRows
  <2>3. CASE S = {}
    BY <2>1, <2>3, FS_EmptySet
  <2>4. CASE S # {}
    <3>1. PICK s \in S : \A k \in S : Orphan(k) => k = s
      BY <1>1, <2>4 DEF IInv, Sound, OrphansAwaited
    <3> DEFINE f == [e \in T |-> IF epes[e].claim = None THEN s ELSE epes[e].claim]
    <3>2. f \in [T -> S]
      BY <2>2, <3>1
    <3>3. ASSUME NEW k \in S
          PROVE  \E e \in T : f[e] = k
      <4>1. CASE Orphan(k)
        <5>1. PICK e \in DOMAIN epes : Awaits(e, k)
          BY <1>1, <4>1 DEF IInv, Sound, OrphansAwaited
        <5> QED
          BY <3>1, <4>1, <5>1 DEF Awaits
      <4>2. CASE ~ Orphan(k)
        <5>1. PICK e \in DOMAIN epes : epes[e].claim = k
          BY <4>2 DEF Orphan
        <5>2. e \in T /\ k # None
          BY <1>1, <5>1, GrantsKnown DEF GrantsSound
        <5> QED
          BY <5>1, <5>2
      <4> QED
        BY <4>1, <4>2
    <3> HIDE DEF f, S, T
    <3>4. f \in Surjection(T, S)
      BY <3>2, <3>3 DEF Surjection
    <3> QED
      BY <2>1, <3>4, FS_Surjection DEF S, T
  <2> QED
    BY <2>3, <2>4
<1>2. IInv => ClaimsBounded
  BY <1>1 DEF ClaimsBounded
<1> QED
  BY <1>2, InductiveInvariant, PTL
=============================================================================
