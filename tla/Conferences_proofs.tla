------------------------- MODULE Conferences_proofs -------------------------
(***************************************************************************)
(* Proofs about Conferences, for any number of hearings, requests and      *)
(* executions of the two jobs: the type invariant, and that no established *)
(* virtual hearing to come is without its room.                            *)
(***************************************************************************)
EXTENDS Conferences, SequenceTheorems, FiniteSetTheorems, TLAPS

-----------------------------------------------------------------------------
(* The inductive invariant *)

Row(h, n) == rows[h][n]

\* A virtual hearing that is still to take place.
ToCome(h, n) == ~ Row(h, n).cancelled /\ status[h] = "upcoming"

\* A request knows its hearing, and the row it found is one.
FormOk(f) ==
    form[f].pc # "idle" =>
        /\ form[f].hearing \in Hearings
        /\ form[f].found # None => form[f].found \in DOMAIN rows[form[f].hearing]

\* Established rows have a conference, and the conferences of those to come
\* have their room.
RowsOk ==
    \A h \in Hearings : \A n \in DOMAIN rows[h] :
        /\ Row(h, n).processed => Row(h, n).conf # None
        /\ ToCome(h, n) /\ Row(h, n).conf # None => rooms[Row(h, n).conf]

\* No two rows have one conference.
ConfsDistinct ==
    \A g, h \in Hearings : \A m \in DOMAIN rows[g], n \in DOMAIN rows[h] :
        Row(g, m).conf = Row(h, n).conf /\ Row(g, m).conf # None => g = h /\ m = n

\* The job is about to record the conference c.
Recording(w, c) == creator[w].pc = "record" /\ creator[w].conf = c

\* An execution knows its row, which has a conference once it is recorded.
CreatorOk(w) ==
    creator[w].pc # "idle" =>
        /\ creator[w].hearing \in Hearings
        /\ creator[w].row \in DOMAIN rows[creator[w].hearing]
        /\ creator[w].pc \in {"mail", "sent", "establish"} =>
              Row(creator[w].hearing, creator[w].row).conf # None

\* A conference that is about to be recorded is there, and nobody else's.
RecordingOk ==
    \A w \in Creators : creator[w].pc = "record" =>
        /\ creator[w].conf \in DOMAIN rooms /\ rooms[creator[w].conf]
        /\ \A v \in Creators : Recording(v, creator[w].conf) => v = w
        /\ \A h \in Hearings : \A n \in DOMAIN rows[h] : Row(h, n).conf # creator[w].conf

\* What DeleteConferencesJob has listed is no longer to take place.
DoomedOk ==
    \A d \in Deleters : \A x \in deleter[d].rooms :
        /\ x[2] \in DOMAIN rows[x[1]]
        /\ \A h \in Hearings : \A n \in DOMAIN rows[h] : Row(h, n).conf = x[3] => ~ ToCome(h, n)
        /\ \A w \in Creators : ~ Recording(w, x[3])

CurrentOk(d) ==
    /\ deleter[d].pc \in {"mail", "sent", "deleted"} => deleter[d].current # None
    /\ deleter[d].pc = "deleted" => deleter[d].current[2] \in DOMAIN rows[deleter[d].current[1]]

IInv ==
    /\ TypeOK
    /\ \A f \in Forms : FormOk(f)
    /\ RowsOk
    /\ ConfsDistinct
    /\ \A w \in Creators : CreatorOk(w)
    /\ RecordingOk
    /\ DoomedOk
    /\ \A d \in Deleters : CurrentOk(d)

-----------------------------------------------------------------------------
(* Records and sequences *)

RowsOver(D) == [conf : {None} \union D, cancelled : BOOLEAN, deleted : BOOLEAN, processed : BOOLEAN]

FormRecords ==
    [pc : {"idle", "commit", "flags", "start"}, hearing : Hearings \union {None},
     kind : Kinds \union {"notes"}, change : BOOLEAN, found : (1..MaxRows) \union {None}]

CreatorRecords(D) ==
    [pc : {"idle", "create", "record", "mail", "sent", "establish"},
     hearing : Hearings \union {None}, row : (1..MaxRows) \union {None},
     conf : {None} \union D, processed : BOOLEAN, todo : SUBSET Addressed]

DeleterRecords(D) ==
    [pc : {"idle", "mails", "mail", "sent", "rooms", "deleted"},
     mails : SUBSET (Hearings \X (1..MaxRows)),
     rooms : SUBSET (Hearings \X (1..MaxRows) \X D),
     current : (Hearings \X (1..MaxRows)) \union {None}, todo : SUBSET Addressed]

\* The type invariant, in terms of these.
LEMMA TypeParts ==
    TypeOK <=>
        /\ status \in [Hearings -> {"upcoming", "postponed", "past"}]
        /\ rows \in [Hearings -> Seq(RowsOver(DOMAIN rooms))]
        /\ \A h \in Hearings : Latest(h) <= MaxRows
        /\ sent \in [Hearings -> [Addressed -> BOOLEAN]]
        /\ inbox \in [Hearings -> [Addressed -> {"none", "confirmation", "cancellation"}]]
        /\ rooms \in Seq(BOOLEAN)
        /\ queue \in [Hearings -> 0..MaxQueued]
        /\ form \in [Forms -> FormRecords]
        /\ creator \in [Creators -> CreatorRecords(DOMAIN rooms)]
        /\ deleter \in [Deleters -> DeleterRecords(DOMAIN rooms)]
        /\ edits \in 0..MaxEdits /\ reruns \in 0..MaxReruns /\ faults \in 0..MaxFaults
BY Zenon DEF TypeOK, RowsOver, FormRecords, CreatorRecords, DeleterRecords

\* SendEmail takes up a recipient that is still to be told.
LEMMA FirstInTodo ==
    ASSUME NEW todo \in SUBSET Addressed, todo # {}
    PROVE  First(todo) \in todo
BY AddressedAssumption DEF First

\* A row is replaced: the others stay.
LEMMA RowReplaced ==
    ASSUME NEW D, rows \in [Hearings -> Seq(RowsOver(D))],
           NEW h \in Hearings, NEW n \in DOMAIN rows[h], NEW e \in RowsOver(D),
           rows' = [rows EXCEPT ![h] = [rows[h] EXCEPT ![n] = e]]
    PROVE  /\ rows' \in [Hearings -> Seq(RowsOver(D))]
           /\ \A g \in Hearings : Len(rows'[g]) = Len(rows[g]) /\ DOMAIN rows'[g] = DOMAIN rows[g]
           /\ \A g \in Hearings : \A m \in DOMAIN rows[g] :
                 rows'[g][m] = IF g = h /\ m = n THEN e ELSE rows[g][m]
<1>1. rows[h] \in Seq(RowsOver(D)) /\ n \in 1..Len(rows[h])
  BY LenProperties
<1>2. /\ [rows[h] EXCEPT ![n] = e] \in Seq(RowsOver(D))
      /\ Len([rows[h] EXCEPT ![n] = e]) = Len(rows[h])
  BY <1>1, ExceptSeq, Zenon
<1>3. \A g \in Hearings : rows'[g] = IF g = h THEN [rows[h] EXCEPT ![n] = e] ELSE rows[g]
  OBVIOUS
<1>4. rows' \in [Hearings -> Seq(RowsOver(D))]
  BY <1>2, Zenon
<1>5. \A g \in Hearings : Len(rows'[g]) = Len(rows[g]) /\ DOMAIN rows'[g] = DOMAIN rows[g]
  BY <1>2, <1>3
<1>6. \A g \in Hearings : \A m \in DOMAIN rows[g] :
          rows'[g][m] = IF g = h /\ m = n THEN e ELSE rows[g][m]
  BY <1>3
<1> QED
  BY <1>4, <1>5, <1>6

\* A row is added: the others stay.
LEMMA RowAdded ==
    ASSUME NEW D, rows \in [Hearings -> Seq(RowsOver(D))],
           NEW h \in Hearings, NEW e \in RowsOver(D),
           rows' = [rows EXCEPT ![h] = Append(rows[h], e)]
    PROVE  /\ rows' \in [Hearings -> Seq(RowsOver(D))]
           /\ \A g \in Hearings : Len(rows'[g]) = IF g = h THEN Len(rows[g]) + 1 ELSE Len(rows[g])
           /\ \A g \in Hearings : DOMAIN rows[g] \subseteq DOMAIN rows'[g]
           /\ \A g \in Hearings : \A m \in DOMAIN rows[g] : rows'[g][m] = rows[g][m]
           /\ \A g \in Hearings : \A m \in DOMAIN rows'[g] :
                 m \in DOMAIN rows[g] \/ (g = h /\ rows'[g][m] = e)
<1>1. rows[h] \in Seq(RowsOver(D))
  OBVIOUS
<1>2. /\ Append(rows[h], e) \in Seq(RowsOver(D))
      /\ Len(Append(rows[h], e)) = Len(rows[h]) + 1
      /\ DOMAIN Append(rows[h], e) = 1..(Len(rows[h]) + 1)
      /\ DOMAIN rows[h] = 1..Len(rows[h]) /\ Len(rows[h]) \in Nat
      /\ \A m \in 1..Len(rows[h]) : Append(rows[h], e)[m] = rows[h][m]
      /\ Append(rows[h], e)[Len(rows[h]) + 1] = e
  BY <1>1
<1>3. \A g \in Hearings : rows'[g] = IF g = h THEN Append(rows[h], e) ELSE rows[g]
  OBVIOUS
<1>4. rows' \in [Hearings -> Seq(RowsOver(D))]
  BY <1>2, Zenon
<1>5. \A g \in Hearings : \A m \in DOMAIN rows'[g] :
          m \in DOMAIN rows[g] \/ (g = h /\ rows'[g][m] = e)
  BY <1>2, <1>3
<1>6. \A g \in Hearings : /\ DOMAIN rows[g] \subseteq DOMAIN rows'[g]
                          /\ \A m \in DOMAIN rows[g] : rows'[g][m] = rows[g][m]
  BY <1>2, <1>3
<1>7. \A g \in Hearings : Len(rows'[g]) = IF g = h THEN Len(rows[g]) + 1 ELSE Len(rows[g])
  BY <1>2, <1>3
<1> QED
  BY <1>4, <1>5, <1>6, <1>7

-----------------------------------------------------------------------------
(* What a step leaves as it is *)

LEMMA TypePartsNext ==
    TypeOK' <=>
        /\ status' \in [Hearings -> {"upcoming", "postponed", "past"}]
        /\ rows' \in [Hearings -> Seq(RowsOver(DOMAIN rooms'))]
        /\ \A h \in Hearings : Latest(h)' <= MaxRows
        /\ sent' \in [Hearings -> [Addressed -> BOOLEAN]]
        /\ inbox' \in [Hearings -> [Addressed -> {"none", "confirmation", "cancellation"}]]
        /\ rooms' \in Seq(BOOLEAN)
        /\ queue' \in [Hearings -> 0..MaxQueued]
        /\ form' \in [Forms -> FormRecords]
        /\ creator' \in [Creators -> CreatorRecords(DOMAIN rooms')]
        /\ deleter' \in [Deleters -> DeleterRecords(DOMAIN rooms')]
        /\ edits' \in 0..MaxEdits /\ reruns' \in 0..MaxReruns /\ faults' \in 0..MaxFaults
BY Zenon DEF TypeOK, RowsOver, FormRecords, CreatorRecords, DeleterRecords

LEMMA CreatorStop ==
    ASSUME NEW D, creator \in [Creators -> CreatorRecords(D)], NEW w \in Creators, Stop(w)
    PROVE  /\ creator' \in [Creators -> CreatorRecords(D)]
           /\ creator'[w] = NoCreator
           /\ \A v \in Creators : v # w => creator'[v] = creator[v]
BY DEF Stop, NoCreator, CreatorRecords

\* Requests and executions that do not move keep what they know as long as
\* rows are not lost and conferences not taken away.
LEMMA ActorsKept ==
    ASSUME TypeOK,
           \A h \in Hearings : DOMAIN rows[h] \subseteq DOMAIN rows'[h],
           \A h \in Hearings : \A n \in DOMAIN rows[h] :
               rows[h][n].conf # None => rows'[h][n].conf # None
    PROVE  /\ \A f \in Forms : FormOk(f) /\ form'[f] = form[f] => FormOk(f)'
           /\ \A w \in Creators : CreatorOk(w) /\ creator'[w] = creator[w] => CreatorOk(w)'
           /\ \A d \in Deleters : CurrentOk(d) /\ deleter'[d] = deleter[d] => CurrentOk(d)'
<1>1. \A f \in Forms : FormOk(f) /\ form'[f] = form[f] => FormOk(f)'
  BY DEF FormOk
<1>2. \A w \in Creators : CreatorOk(w) /\ creator'[w] = creator[w] => CreatorOk(w)'
  BY DEF CreatorOk, Row
<1>3. ASSUME NEW d \in Deleters, CurrentOk(d), deleter'[d] = deleter[d]
      PROVE  CurrentOk(d)'
  <2>1. CASE deleter[d].pc = "deleted"
    <3>1. deleter[d].current \in Hearings \X (1..MaxRows)
      BY <1>3, <2>1, TypeParts DEF CurrentOk, DeleterRecords
    <3>2. deleter[d].current[1] \in Hearings
      BY <3>1
    <3> QED
      BY <1>3, <2>1, <3>2 DEF CurrentOk
  <2>2. CASE deleter[d].pc # "deleted"
    BY <1>3, <2>2 DEF CurrentOk
  <2> QED
    BY <2>1, <2>2
<1> QED
  BY <1>1, <1>2, <1>3

\* Nothing is recorded, established or listed, and no hearing comes back.
LEMMA QuietStep ==
    ASSUME RowsOk, ConfsDistinct, RecordingOk, DoomedOk,
           UNCHANGED <<rows, rooms>>,
           \A h \in Hearings : status'[h] = "upcoming" => status[h] = "upcoming",
           \A w \in Creators : creator'[w].pc = "record" => creator'[w] = creator[w],
           \A d \in Deleters : deleter'[d].rooms \subseteq deleter[d].rooms
    PROVE  RowsOk' /\ ConfsDistinct' /\ RecordingOk' /\ DoomedOk'
<1>1. RowsOk'
  BY DEF RowsOk, ToCome, Row
<1>2. ConfsDistinct'
  BY Zenon DEF ConfsDistinct, Row
<1>3. \A w \in Creators : \A c : Recording(w, c)' => Recording(w, c)
  BY DEF Recording
<1>4. RecordingOk'
  BY <1>3 DEF RecordingOk, Row
<1>5. \A h \in Hearings : \A n : ToCome(h, n)' => ToCome(h, n)
  BY DEF ToCome, Row
<1>6. DoomedOk'
  BY <1>3, <1>5 DEF DoomedOk, Row
<1> QED
  BY <1>1, <1>2, <1>4, <1>6

\* A row is changed that keeps its conference and stays cancelled if it was.
LEMMA RowChanged ==
    ASSUME TypeOK, RowsOk, ConfsDistinct, RecordingOk, DoomedOk,
           NEW h \in Hearings, NEW n \in DOMAIN rows[h], NEW e \in RowsOver(DOMAIN rooms),
           rows' = [rows EXCEPT ![h] = [rows[h] EXCEPT ![n] = e]],
           e.conf = rows[h][n].conf,
           rows[h][n].cancelled => e.cancelled,
           e.processed => e.conf # None,
           UNCHANGED <<status, rooms>>,
           \A w \in Creators : creator'[w].pc = "record" => creator'[w] = creator[w],
           \A d \in Deleters : deleter'[d].rooms \subseteq deleter[d].rooms
    PROVE  /\ RowsOk' /\ ConfsDistinct' /\ RecordingOk' /\ DoomedOk'
           /\ rows' \in [Hearings -> Seq(RowsOver(DOMAIN rooms))]
           /\ \A g \in Hearings : Latest(g)' = Latest(g) /\ DOMAIN rows'[g] = DOMAIN rows[g]
           /\ \A g \in Hearings : \A m \in DOMAIN rows[g] : rows'[g][m].conf = rows[g][m].conf
<1>0. rows \in [Hearings -> Seq(RowsOver(DOMAIN rooms))]
  BY TypeParts, Zenon
<1>1. /\ rows' \in [Hearings -> Seq(RowsOver(DOMAIN rooms))]
      /\ \A g \in Hearings : Len(rows'[g]) = Len(rows[g]) /\ DOMAIN rows'[g] = DOMAIN rows[g]
      /\ \A g \in Hearings : \A m \in DOMAIN rows[g] :
            rows'[g][m] = IF g = h /\ m = n THEN e ELSE rows[g][m]
  BY <1>0, RowReplaced
<1>2. \A g \in Hearings : \A m \in DOMAIN rows[g] :
          /\ rows'[g][m].conf = rows[g][m].conf
          /\ rows[g][m].cancelled => rows'[g][m].cancelled
          /\ rows'[g][m].processed => rows'[g][m].conf # None \/ rows[g][m].processed
  BY <1>1
<1>3. \A g \in Hearings : \A m \in DOMAIN rows[g] : ToCome(g, m)' => ToCome(g, m)
  BY <1>2 DEF ToCome, Row
<1>4. RowsOk'
  BY <1>1, <1>2, <1>3 DEF RowsOk, Row
<1>5. ConfsDistinct'
  BY <1>1, <1>2 DEF ConfsDistinct, Row
<1>6. \A w \in Creators : \A c : Recording(w, c)' => Recording(w, c)
  BY DEF Recording
<1>7. RecordingOk'
  BY <1>1, <1>2, <1>6 DEF RecordingOk, Row
<1>8. DoomedOk'
  <2> SUFFICES ASSUME NEW d \in Deleters, NEW x \in deleter[d].rooms
               PROVE  /\ x[2] \in DOMAIN rows'[x[1]]
                      /\ \A g \in Hearings : \A m \in DOMAIN rows'[g] :
                            rows'[g][m].conf = x[3] => ~ ToCome(g, m)'
                      /\ \A w \in Creators : ~ Recording(w, x[3])'
    BY DEF DoomedOk, Row
  <2>1. x \in Hearings \X (1..MaxRows) \X DOMAIN rooms
    BY TypeParts DEF DeleterRecords
  <2> QED
    BY <1>1, <1>2, <1>3, <1>6, <2>1 DEF DoomedOk, Row
<1> QED
  BY <1>1, <1>2, <1>4, <1>5, <1>7, <1>8 DEF Latest

-----------------------------------------------------------------------------
(* CreateConferenceJob *)

\* An execution goes on with its row, which has its conference.
LEMMA CreatorMoves ==
    ASSUME IInv, NEW w \in Creators, NEW record \in CreatorRecords(DOMAIN rooms),
           NEW pc \in {"mail", "sent", "establish"}, GoOn(w, record, pc),
           record.hearing \in Hearings, record.row \in DOMAIN rows[record.hearing],
           rows[record.hearing][record.row].conf # None,
           UNCHANGED <<status, rows, rooms, form, deleter, edits, reruns>>,
           sent' \in [Hearings -> [Addressed -> BOOLEAN]],
           inbox' \in [Hearings -> [Addressed -> {"none", "confirmation", "cancellation"}]],
           queue' \in [Hearings -> 0..MaxQueued],
           faults' \in 0..MaxFaults
    PROVE  IInv'
<1>0. /\ creator \in [Creators -> CreatorRecords(DOMAIN rooms)]
      /\ pc \in {"idle", "create", "record", "mail", "sent", "establish"}
  BY TypeParts, Zenon DEF IInv
<1>1. /\ creator' \in [Creators -> CreatorRecords(DOMAIN rooms)]
      /\ creator'[w] = [record EXCEPT !.pc = pc]
      /\ \A v \in Creators : v # w => creator'[v] = creator[v]
  BY <1>0 DEF GoOn, CreatorRecords
<1>2. TypeOK'
  BY <1>1, TypeParts, TypePartsNext DEF IInv, Latest
<1>3. RowsOk' /\ ConfsDistinct' /\ RecordingOk' /\ DoomedOk'
  <2>1. creator'[w].pc # "record"
    BY <1>1 DEF CreatorRecords
  <2> QED
    BY <1>1, <2>1, QuietStep DEF IInv
<1>4. \A v \in Creators : CreatorOk(v)'
  <2>1. CreatorOk(w)'
    BY <1>1 DEF CreatorOk, CreatorRecords, Row
  <2> QED
    BY <1>1, <2>1, ActorsKept DEF IInv
<1>5. /\ \A f \in Forms : FormOk(f)'
      /\ \A d \in Deleters : CurrentOk(d)'
  BY ActorsKept DEF IInv
<1> QED
  BY <1>2, <1>3, <1>4, <1>5 DEF IInv

LEMMA CreatorStops ==
    ASSUME IInv, NEW w \in Creators, Stop(w),
           UNCHANGED <<status, rows, sent, inbox, rooms, form, deleter, edits, reruns>>,
           queue' \in [Hearings -> 0..MaxQueued],
           faults' \in 0..MaxFaults
    PROVE  IInv'
<1>0. creator \in [Creators -> CreatorRecords(DOMAIN rooms)]
  BY TypeParts, Zenon DEF IInv
<1>1. /\ creator' \in [Creators -> CreatorRecords(DOMAIN rooms)]
      /\ creator'[w] = NoCreator
      /\ \A v \in Creators : v # w => creator'[v] = creator[v]
  BY <1>0, CreatorStop
<1>2. TypeOK'
  BY <1>1, TypeParts, TypePartsNext DEF IInv, Latest
<1>3. RowsOk' /\ ConfsDistinct' /\ RecordingOk' /\ DoomedOk'
  <2>1. creator'[w].pc # "record"
    BY <1>1 DEF NoCreator
  <2> QED
    BY <1>1, <2>1, QuietStep DEF IInv
<1>4. \A v \in Creators : CreatorOk(v)'
  <2>1. CreatorOk(w)'
    BY <1>1 DEF CreatorOk, NoCreator
  <2> QED
    BY <1>1, <2>1, ActorsKept DEF IInv
<1>5. /\ \A f \in Forms : FormOk(f)'
      /\ \A d \in Deleters : CurrentOk(d)'
  BY ActorsKept DEF IInv
<1> QED
  BY <1>2, <1>3, <1>4, <1>5 DEF IInv

\* What an execution with a conference knows.
LEMMA CreatorKnows ==
    ASSUME IInv, NEW w \in Creators, creator[w].pc # "idle"
    PROVE  /\ creator[w] \in CreatorRecords(DOMAIN rooms)
           /\ creator[w].hearing \in Hearings
           /\ creator[w].row \in DOMAIN rows[creator[w].hearing]
           /\ creator[w].pc \in {"mail", "sent", "establish"} =>
                 rows[creator[w].hearing][creator[w].row].conf # None
BY TypeParts DEF IInv, CreatorOk, Row

LEMMA SendPreserves ==
    ASSUME IInv, NEW w \in Creators, Send(w) \/ MarkSent(w) \/ FailSend(w)
    PROVE  IInv'
<1> DEFINE h == creator[w].hearing
           r == First(creator[w].todo)
           less == [creator[w] EXCEPT !.todo = @ \ {r}]
<1>1. /\ creator[w] \in CreatorRecords(DOMAIN rooms)
      /\ h \in Hearings /\ creator[w].row \in DOMAIN rows[h]
      /\ rows[h][creator[w].row].conf # None
  BY CreatorKnows DEF Send, MarkSent, FailSend
<1>2. less \in CreatorRecords(DOMAIN rooms) /\ less.hearing = h /\ less.row = creator[w].row
  BY <1>1 DEF CreatorRecords
<1>3. /\ sent \in [Hearings -> [Addressed -> BOOLEAN]]
      /\ inbox \in [Hearings -> [Addressed -> {"none", "confirmation", "cancellation"}]]
      /\ queue \in [Hearings -> 0..MaxQueued] /\ faults \in 0..MaxFaults
  BY TypeParts DEF IInv
<1>4. CASE Send(w)
  <2>1. creator[w].todo # {} /\ creator[w].todo \in SUBSET Addressed
    BY <1>1, <1>4 DEF Send, CreatorRecords
  <2>2. r \in Addressed
    BY <2>1, FirstInTodo
  <2>3. CASE sent[h][r]
    BY <1>1, <1>2, <1>3, <1>4, <2>3, CreatorMoves DEF Send
  <2>4. CASE ~ sent[h][r]
    <3>1. inbox' = [inbox EXCEPT ![h][r] = "confirmation"] /\ GoOn(w, creator[w], "sent")
      BY <1>4, <2>4, Zenon DEF Send
    <3>2. inbox' \in [Hearings -> [Addressed -> {"none", "confirmation", "cancellation"}]]
      BY <1>3, <3>1
    <3> QED
      BY <1>1, <1>3, <1>4, <3>1, <3>2, CreatorMoves DEF Send
  <2> QED
    BY <2>3, <2>4
<1>5. CASE MarkSent(w)
  <2>1. sent' \in [Hearings -> [Addressed -> BOOLEAN]]
    BY <1>3, <1>5 DEF MarkSent
  <2> QED
    BY <1>1, <1>2, <1>3, <1>5, <2>1, CreatorMoves DEF MarkSent
<1>6. CASE FailSend(w)
  <2>1. sent' \in [Hearings -> [Addressed -> BOOLEAN]]
    BY <1>3, <1>6 DEF FailSend
  <2>2. faults' \in 0..MaxFaults
    BY <1>3, <1>6, BoundsAssumption DEF FailSend
  <2> QED
    BY <1>1, <1>2, <1>3, <1>6, <2>1, <2>2, CreatorMoves DEF FailSend
<1> QED
  BY <1>4, <1>5, <1>6

LEMMA CheckEstablishedPreserves ==
    ASSUME IInv, NEW w \in Creators, CheckEstablished(w)
    PROVE  IInv'
<1>1. creator[w].pc = "mail"
  BY DEF CheckEstablished
<1>2. /\ sent \in [Hearings -> [Addressed -> BOOLEAN]]
      /\ inbox \in [Hearings -> [Addressed -> {"none", "confirmation", "cancellation"}]]
      /\ queue \in [Hearings -> 0..MaxQueued] /\ faults \in 0..MaxFaults
  BY TypeParts DEF IInv
<1>3. CASE AllEmailsSent(creator[w].hearing)
  BY <1>1, <1>2, <1>3, CreatorKnows, CreatorMoves DEF CheckEstablished
<1>4. CASE ~ AllEmailsSent(creator[w].hearing)
  <2>1. queue' \in [Hearings -> 0..MaxQueued]
    BY <1>1, <1>2, <1>4, CreatorKnows, BoundsAssumption DEF CheckEstablished
  <2> QED
    BY <1>2, <1>4, <2>1, CreatorStops DEF CheckEstablished
<1> QED
  BY <1>3, <1>4

LEMMA FailCreatePreserves ==
    ASSUME IInv, NEW w \in Creators, FailCreate(w)
    PROVE  IInv'
<1>1. creator[w].hearing \in Hearings
  BY CreatorKnows DEF FailCreate
<1>2. queue \in [Hearings -> 0..MaxQueued] /\ faults \in 0..MaxFaults
  BY TypeParts DEF IInv
<1>3. faults' \in 0..MaxFaults
  BY <1>2, BoundsAssumption DEF FailCreate
<1>4. queue' \in [Hearings -> 0..MaxQueued]
  BY <1>1, <1>2, BoundsAssumption DEF FailCreate
<1> QED
  BY <1>3, <1>4, CreatorStops DEF FailCreate

LEMMA BeginCreatePreserves ==
    ASSUME IInv, NEW w \in Creators, NEW h \in Hearings, BeginCreate(w, h)
    PROVE  IInv'
<1>1. /\ rows \in [Hearings -> Seq(RowsOver(DOMAIN rooms))]
      /\ creator \in [Creators -> CreatorRecords(DOMAIN rooms)]
      /\ queue \in [Hearings -> 0..MaxQueued] /\ faults \in 0..MaxFaults
      /\ Latest(h) <= MaxRows
  BY TypeParts DEF IInv
<1>2. queue' \in [Hearings -> 0..MaxQueued]
  BY <1>1, BoundsAssumption DEF BeginCreate
<1>3. CASE ~ Virtual(h)
  BY <1>1, <1>2, <1>3, CreatorStops DEF BeginCreate
<1>4. CASE Virtual(h)
  <2> DEFINE row == rows[h][Latest(h)]
             new == [NoCreator EXCEPT !.hearing = h, !.row = Latest(h), !.conf = row.conf,
                                      !.processed = row.processed, !.todo = Addressed]
             pc == IF Active(row) THEN "mail" ELSE "create"
  <2>1. /\ rows[h] \in Seq(RowsOver(DOMAIN rooms)) /\ Latest(h) \in 1..Len(rows[h])
        /\ Latest(h) \in DOMAIN rows[h] /\ Latest(h) \in 1..MaxRows
    BY <1>1, <1>4, BoundsAssumption, LenProperties DEF Virtual, Latest
  <2>2. row \in RowsOver(DOMAIN rooms)
    BY <2>1, ElementOfSeq, Zenon
  <2>3. /\ new \in CreatorRecords(DOMAIN rooms)
        /\ new.hearing = h /\ new.row = Latest(h) /\ new.pc = "idle"
    BY <2>1, <2>2 DEF CreatorRecords, RowsOver, NoCreator
  <2>4. GoOn(w, new, pc)
    BY <1>4 DEF BeginCreate
  <2> HIDE DEF new
  <2>5. /\ creator' \in [Creators -> CreatorRecords(DOMAIN rooms)]
        /\ creator'[w] = [new EXCEPT !.pc = pc]
        /\ \A v \in Creators : v # w => creator'[v] = creator[v]
    BY <1>1, <2>3, <2>4 DEF GoOn, CreatorRecords
  <2>6. /\ creator'[w].pc = pc /\ creator'[w].hearing = h /\ creator'[w].row = Latest(h)
    BY <2>3, <2>5 DEF CreatorRecords
  <2>7. UNCHANGED <<status, rows, sent, inbox, rooms, form, deleter, edits, reruns, faults>>
    BY DEF BeginCreate
  <2>8. TypeOK'
    BY <1>2, <2>5, <2>7, TypeParts, TypePartsNext DEF IInv, Latest
  <2>9. RowsOk' /\ ConfsDistinct' /\ RecordingOk' /\ DoomedOk'
    BY <2>5, <2>6, <2>7, QuietStep DEF IInv
  <2>10. \A v \in Creators : CreatorOk(v)'
    <3>1. CreatorOk(w)'
      BY <2>1, <2>6, <2>7 DEF CreatorOk, Row, Active
    <3> QED
      BY <2>5, <2>7, <3>1, ActorsKept DEF IInv
  <2>11. /\ \A f \in Forms : FormOk(f)'
         /\ \A d \in Deleters : CurrentOk(d)'
    BY <2>7, ActorsKept DEF IInv
  <2> QED
    BY <2>8, <2>9, <2>10, <2>11 DEF IInv
<1> QED
  BY <1>3, <1>4

\* A new room is in no row, no reply and no list yet.
LEMMA CreatePreserves ==
    ASSUME IInv, NEW w \in Creators, Create(w)
    PROVE  IInv'
<1> DEFINE c == Len(rooms) + 1
           D == DOMAIN rooms
<1>1. /\ rows \in [Hearings -> Seq(RowsOver(D))]
      /\ creator \in [Creators -> CreatorRecords(D)]
      /\ deleter \in [Deleters -> DeleterRecords(D)]
      /\ rooms \in Seq(BOOLEAN)
  BY TypeParts DEF IInv
<1>2. /\ creator[w].pc = "create" /\ rooms' = Append(rooms, TRUE)
      /\ UNCHANGED <<status, rows, sent, inbox, queue, form, deleter, edits, reruns, faults>>
  BY DEF Create
<1>3. /\ rooms' \in Seq(BOOLEAN)
      /\ D \subseteq DOMAIN rooms'
      /\ c \in DOMAIN rooms' /\ c \notin D /\ c \in Nat
      /\ rooms'[c] = TRUE /\ \A k \in D : rooms'[k] = rooms[k]
  <2>1. Len(rooms) \in Nat /\ DOMAIN rooms = 1..Len(rooms)
    BY <1>1, LenProperties
  <2>2. /\ rooms' \in Seq(BOOLEAN) /\ Len(rooms') = Len(rooms) + 1
        /\ \A k \in 1..Len(rooms) : rooms'[k] = rooms[k]
        /\ rooms'[Len(rooms) + 1] = TRUE
    BY <1>1, <1>2
  <2>3. DOMAIN rooms' = 1..(Len(rooms) + 1)
    BY <2>2, LenProperties
  <2> QED
    BY <2>1, <2>2, <2>3
<1> HIDE DEF c, D
<1>4. creator' = [creator EXCEPT ![w] = [[creator[w] EXCEPT !.conf = c] EXCEPT !.pc = "record"]]
  BY DEF Create, GoOn, c
<1>5. rows \in [Hearings -> Seq(RowsOver(DOMAIN rooms'))]
  <2>1. RowsOver(D) \subseteq RowsOver(DOMAIN rooms')
    BY <1>3 DEF RowsOver
  <2>2. \A h \in Hearings : rows[h] \in Seq(RowsOver(DOMAIN rooms'))
    BY <1>1, <2>1, SeqMonotonic
  <2> QED
    BY <1>1, <2>2
<1>6. /\ creator' \in [Creators -> CreatorRecords(DOMAIN rooms')]
      /\ creator'[w].pc = "record" /\ creator'[w].conf = c
      /\ creator'[w].hearing = creator[w].hearing /\ creator'[w].row = creator[w].row
      /\ \A v \in Creators : v # w => creator'[v] = creator[v]
  <2> DEFINE record == [[creator[w] EXCEPT !.conf = c] EXCEPT !.pc = "record"]
  <2>1. CreatorRecords(D) \subseteq CreatorRecords(DOMAIN rooms')
    BY <1>3 DEF CreatorRecords
  <2>2. /\ record \in CreatorRecords(DOMAIN rooms')
        /\ record.pc = "record" /\ record.conf = c
        /\ record.hearing = creator[w].hearing /\ record.row = creator[w].row
    BY <1>1, <1>3 DEF CreatorRecords
  <2> HIDE DEF record
  <2>3. /\ creator'[w] = record
        /\ \A v \in Creators : v # w => creator'[v] = creator[v]
    BY <1>1, <1>4 DEF record
  <2> QED
    BY <1>1, <1>4, <2>1, <2>2, <2>3 DEF record
<1>7. deleter \in [Deleters -> DeleterRecords(DOMAIN rooms')]
  BY <1>1, <1>3 DEF DeleterRecords
<1>8. TypeOK'
  BY <1>2, <1>3, <1>5, <1>6, <1>7, TypeParts, TypePartsNext DEF IInv, Latest
<1>9. \A h \in Hearings : \A n \in DOMAIN rows[h] : rows[h][n] \in RowsOver(D)
  BY <1>1, ElementOfSeq, LenProperties
<1>10. \A h \in Hearings : \A n \in DOMAIN rows[h] : rows[h][n].conf \in {None} \union D
  BY <1>9 DEF RowsOver
<1>11. RowsOk'
  BY <1>2, <1>3, <1>10 DEF RowsOk, ToCome, Row, IInv
<1>12. ConfsDistinct'
  BY <1>2 DEF ConfsDistinct, Row, IInv
<1>13. RecordingOk'
  <2> SUFFICES ASSUME NEW v \in Creators, creator'[v].pc = "record"
               PROVE  /\ creator'[v].conf \in DOMAIN rooms' /\ rooms'[creator'[v].conf]
                      /\ \A u \in Creators :
                            creator'[u].pc = "record" /\ creator'[u].conf = creator'[v].conf => u = v
                      /\ \A h \in Hearings : \A n \in DOMAIN rows[h] :
                            rows[h][n].conf # creator'[v].conf
    BY <1>2 DEF RecordingOk, Row, Recording
  <2>1. \A u \in Creators : u # w /\ creator'[u].pc = "record" =>
            /\ creator[u] = creator'[u] /\ creator[u].conf \in D
    BY <1>6, D = DOMAIN rooms DEF RecordingOk, IInv, D
  <2>2. CASE v = w
    BY <1>3, <1>6, <1>10, <2>1, <2>2, NoneAssumption DEF Recording
  <2>3. CASE v # w
    BY <1>3, <1>6, <2>1, <2>3 DEF Recording, RecordingOk, Row, IInv
  <2> QED
    BY <2>2, <2>3
<1>14. DoomedOk'
  <2> SUFFICES ASSUME NEW d \in Deleters, NEW x \in deleter[d].rooms
               PROVE  /\ x[2] \in DOMAIN rows[x[1]]
                      /\ \A h \in Hearings : \A n \in DOMAIN rows[h] :
                            Row(h, n).conf = x[3] => ~ ToCome(h, n)
                      /\ \A v \in Creators : ~ Recording(v, x[3])'
    BY <1>2 DEF DoomedOk, ToCome, Row
  <2>1. x[3] # c
    BY <1>1, <1>3 DEF DeleterRecords
  <2>2. \A v \in Creators : ~ Recording(v, x[3])'
    BY <1>6, <2>1 DEF DoomedOk, Recording, IInv
  <2> QED
    BY <2>2 DEF DoomedOk, IInv
<1>15. \A v \in Creators : CreatorOk(v)'
  <2>1. CreatorOk(w)'
    BY <1>2, <1>6, CreatorKnows DEF CreatorOk
  <2> QED
    BY <1>2, <1>6, <2>1, ActorsKept DEF IInv
<1>16. /\ \A f \in Forms : FormOk(f)'
       /\ \A d \in Deleters : CurrentOk(d)'
  BY <1>2, ActorsKept DEF IInv
<1> QED
  BY <1>8, <1>11, <1>12, <1>13, <1>14, <1>15, <1>16 DEF IInv

\* The recorded room is there and nobody else's.
LEMMA RecordPreserves ==
    ASSUME IInv, NEW w \in Creators, Record(w)
    PROVE  IInv'
<1> DEFINE h == creator[w].hearing
           n == creator[w].row
           c == creator[w].conf
           D == DOMAIN rooms
           e == [rows[h][n] EXCEPT !.conf = c]
<1>1. /\ rows \in [Hearings -> Seq(RowsOver(D))]
      /\ creator \in [Creators -> CreatorRecords(D)]
      /\ deleter \in [Deleters -> DeleterRecords(D)]
  BY TypeParts DEF IInv
<1>2. /\ creator[w].pc = "record"
      /\ UNCHANGED <<status, sent, inbox, rooms, queue, form, deleter, edits, reruns, faults>>
  BY DEF Record
<1>3. /\ h \in Hearings /\ n \in DOMAIN rows[h] /\ creator[w] \in CreatorRecords(D)
  BY <1>2, CreatorKnows
<1>4. /\ c \in D /\ rooms[c] = TRUE /\ c # None
      /\ \A v \in Creators : Recording(v, c) => v = w
      /\ \A g \in Hearings : \A m \in DOMAIN rows[g] : rows[g][m].conf # c
  <2>1. c \in D /\ rooms[c]
    BY <1>2 DEF RecordingOk, IInv
  <2>2. rooms \in Seq(BOOLEAN)
    BY TypeParts DEF IInv
  <2>3. rooms[c] = TRUE /\ c \in Nat
    BY <2>1, <2>2, LenProperties
  <2> QED
    BY <1>2, <2>1, <2>3, NoneAssumption DEF RecordingOk, Row, IInv
<1>5. rows[h][n] \in RowsOver(D)
  BY <1>1, <1>3, ElementOfSeq, LenProperties
<1>6. /\ e \in RowsOver(D) /\ e.conf = c
      /\ e.cancelled = rows[h][n].cancelled /\ e.processed = rows[h][n].processed
  BY <1>4, <1>5 DEF RowsOver
<1>7. rows' = [rows EXCEPT ![h] = [rows[h] EXCEPT ![n] = e]]
  BY DEF Record
<1>8. creator' = [creator EXCEPT ![w] = [creator[w] EXCEPT !.pc = "mail"]]
  BY DEF Record, GoOn
<1> HIDE DEF h, n, c, D, e
<1>9. /\ rows' \in [Hearings -> Seq(RowsOver(D))]
      /\ \A g \in Hearings : Len(rows'[g]) = Len(rows[g]) /\ DOMAIN rows'[g] = DOMAIN rows[g]
      /\ \A g \in Hearings : \A m \in DOMAIN rows[g] :
            rows'[g][m] = IF g = h /\ m = n THEN e ELSE rows[g][m]
  BY <1>1, <1>3, <1>6, <1>7, RowReplaced
<1>10. /\ creator' \in [Creators -> CreatorRecords(D)]
       /\ creator'[w].pc = "mail" /\ creator'[w].hearing = h /\ creator'[w].row = n
       /\ \A v \in Creators : v # w => creator'[v] = creator[v]
  BY <1>1, <1>8 DEF CreatorRecords, h, n
<1>11. TypeOK'
  BY <1>1, <1>2, <1>9, <1>10, TypeParts, TypePartsNext DEF IInv, Latest, D
<1>12. RowsOk'
  BY <1>2, <1>4, <1>6, <1>9 DEF RowsOk, ToCome, Row, IInv
<1>13. ConfsDistinct'
  BY <1>4, <1>6, <1>9 DEF ConfsDistinct, Row, IInv
<1>14. \A v \in Creators : \A k : Recording(v, k)' => Recording(v, k) /\ v # w
  BY <1>10 DEF Recording
<1>15. RecordingOk'
  <2> SUFFICES ASSUME NEW v \in Creators, creator'[v].pc = "record"
               PROVE  /\ creator'[v].conf \in DOMAIN rooms' /\ rooms'[creator'[v].conf]
                      /\ \A u \in Creators :
                            creator'[u].pc = "record" /\ creator'[u].conf = creator'[v].conf => u = v
                      /\ \A g \in Hearings : \A m \in DOMAIN rows'[g] :
                            rows'[g][m].conf # creator'[v].conf
    BY DEF RecordingOk, Row, Recording
  <2>1. v # w /\ creator'[v] = creator[v]
    BY <1>10
  <2>2. creator[v].conf # c
    BY <1>4, <2>1 DEF Recording
  <2>3. \A u \in Creators : creator'[u].pc = "record" /\ creator'[u].conf = creator'[v].conf => u = v
    BY <1>10, <2>1 DEF RecordingOk, Recording, IInv
  <2> QED
    BY <1>2, <1>6, <1>9, <2>1, <2>2, <2>3 DEF RecordingOk, Row, IInv
<1>16. DoomedOk'
  <2> SUFFICES ASSUME NEW d \in Deleters, NEW x \in deleter[d].rooms
               PROVE  /\ x[2] \in DOMAIN rows'[x[1]]
                      /\ \A g \in Hearings : \A m \in DOMAIN rows'[g] :
                            rows'[g][m].conf = x[3] => ~ ToCome(g, m)'
                      /\ \A v \in Creators : ~ Recording(v, x[3])'
    BY <1>2 DEF DoomedOk, Row
  <2>1. x \in Hearings \X (1..MaxRows) \X D
    BY <1>1 DEF DeleterRecords
  <2>2. x[3] # c
    BY <1>2 DEF DoomedOk, Recording, c, IInv
  <2>3. x[2] \in DOMAIN rows'[x[1]]
    BY <1>9, <2>1 DEF DoomedOk, IInv
  <2>4. \A v \in Creators : ~ Recording(v, x[3])'
    BY <1>14 DEF DoomedOk, IInv
  <2>5. ASSUME NEW g \in Hearings, NEW m \in DOMAIN rows'[g], rows'[g][m].conf = x[3]
        PROVE  ~ ToCome(g, m)'
    <3>1. m \in DOMAIN rows[g] /\ rows'[g][m] = rows[g][m]
      BY <1>6, <1>9, <2>2, <2>5
    <3>2. ~ ToCome(g, m)
      BY <2>5, <3>1 DEF DoomedOk, Row, IInv
    <3> QED
      BY <1>2, <3>1, <3>2 DEF ToCome, Row
  <2> QED
    BY <2>3, <2>4, <2>5
<1>17. \A g \in Hearings : \A m \in DOMAIN rows[g] : rows[g][m].conf # None => rows'[g][m].conf # None
  BY <1>4, <1>6, <1>9
<1>18. \A v \in Creators : CreatorOk(v)'
  <2>1. CreatorOk(w)'
    BY <1>3, <1>4, <1>6, <1>9, <1>10 DEF CreatorOk, Row
  <2> QED
    BY <1>9, <1>10, <1>17, <2>1, ActorsKept DEF IInv
<1>19. /\ \A f \in Forms : FormOk(f)'
       /\ \A d \in Deleters : CurrentOk(d)'
  BY <1>2, <1>9, <1>17, ActorsKept DEF IInv
<1> QED
  BY <1>11, <1>12, <1>13, <1>15, <1>16, <1>18, <1>19 DEF IInv

LEMMA EstablishPreserves ==
    ASSUME IInv, NEW w \in Creators, Establish(w)
    PROVE  IInv'
<1> DEFINE h == creator[w].hearing
           n == creator[w].row
           e == [rows[h][n] EXCEPT !.processed = TRUE]
<1>1. /\ rows \in [Hearings -> Seq(RowsOver(DOMAIN rooms))]
      /\ creator \in [Creators -> CreatorRecords(DOMAIN rooms)]
      /\ queue \in [Hearings -> 0..MaxQueued] /\ faults \in 0..MaxFaults
  BY TypeParts DEF IInv
<1>2. /\ creator[w].pc = "establish" /\ Stop(w)
      /\ UNCHANGED <<status, sent, inbox, rooms, queue, form, deleter, edits, reruns, faults>>
  BY DEF Establish
<1>3. /\ h \in Hearings /\ n \in DOMAIN rows[h] /\ rows[h][n].conf # None
  BY <1>2, CreatorKnows
<1>4. CASE creator[w].processed
  BY <1>1, <1>2, <1>4, CreatorStops DEF Establish
<1>5. CASE ~ creator[w].processed
  <2>1. rows' = [rows EXCEPT ![h] = [rows[h] EXCEPT ![n] = e]]
    BY <1>5 DEF Establish
  <2>2. rows[h][n] \in RowsOver(DOMAIN rooms)
    BY <1>1, <1>3, ElementOfSeq, LenProperties
  <2>3. e \in RowsOver(DOMAIN rooms) /\ e.conf = rows[h][n].conf /\ e.cancelled = rows[h][n].cancelled
    BY <2>2 DEF RowsOver
  <2> HIDE DEF h, n, e
  <2>4. /\ creator' \in [Creators -> CreatorRecords(DOMAIN rooms)]
        /\ creator'[w] = NoCreator
        /\ \A v \in Creators : v # w => creator'[v] = creator[v]
    BY <1>1, <1>2, CreatorStop
  <2>5. creator'[w].pc = "idle"
    BY <2>4 DEF NoCreator
  <2>6. /\ RowsOk' /\ ConfsDistinct' /\ RecordingOk' /\ DoomedOk'
        /\ rows' \in [Hearings -> Seq(RowsOver(DOMAIN rooms))]
        /\ \A g \in Hearings : Latest(g)' = Latest(g) /\ DOMAIN rows'[g] = DOMAIN rows[g]
        /\ \A g \in Hearings : \A m \in DOMAIN rows[g] : rows'[g][m].conf = rows[g][m].conf
    BY <1>2, <1>3, <2>1, <2>3, <2>4, <2>5, RowChanged DEF IInv
  <2>7. TypeOK'
    BY <1>2, <2>4, <2>6, TypeParts, TypePartsNext DEF IInv
  <2>8. \A v \in Creators : CreatorOk(v)'
    BY <2>4, <2>5, <2>6, ActorsKept DEF CreatorOk, IInv
  <2>9. /\ \A f \in Forms : FormOk(f)'
        /\ \A d \in Deleters : CurrentOk(d)'
    BY <1>2, <2>6, ActorsKept DEF IInv
  <2> QED
    BY <2>6, <2>7, <2>8, <2>9 DEF IInv
<1> QED
  BY <1>4, <1>5

-----------------------------------------------------------------------------
(* DeleteConferencesJob *)

\* An execution goes on with no more conferences to delete than before.
LEMMA DeleterMoves ==
    ASSUME IInv, NEW d \in Deleters, NEW record \in DeleterRecords(DOMAIN rooms),
           NEW pc \in {"idle", "mails", "mail", "sent", "rooms"}, Proceed(d, record, pc),
           record.rooms \subseteq deleter[d].rooms,
           pc \in {"mail", "sent"} => record.current # None,
           UNCHANGED <<status, rows, rooms, queue, form, creator, edits, reruns>>,
           sent' \in [Hearings -> [Addressed -> BOOLEAN]],
           inbox' \in [Hearings -> [Addressed -> {"none", "confirmation", "cancellation"}]],
           faults' \in 0..MaxFaults
    PROVE  IInv'
<1>1. deleter \in [Deleters -> DeleterRecords(DOMAIN rooms)]
  BY TypeParts, Zenon DEF IInv
<1>2. /\ deleter' \in [Deleters -> DeleterRecords(DOMAIN rooms)]
      /\ deleter'[d].pc = pc /\ deleter'[d].rooms = record.rooms
      /\ deleter'[d].current = record.current
      /\ \A e \in Deleters : e # d => deleter'[e] = deleter[e]
  BY <1>1 DEF Proceed, DeleterRecords
<1>3. TypeOK'
  BY <1>2, TypeParts, TypePartsNext DEF IInv, Latest
<1>4. RowsOk' /\ ConfsDistinct' /\ RecordingOk' /\ DoomedOk'
  <2>1. \A e \in Deleters : deleter'[e].rooms \subseteq deleter[e].rooms
    BY <1>2
  <2> QED
    BY <2>1, QuietStep DEF IInv
<1>5. \A e \in Deleters : CurrentOk(e)'
  <2>1. CurrentOk(d)'
    BY <1>2 DEF CurrentOk
  <2> QED
    BY <1>2, <2>1, ActorsKept DEF IInv
<1>6. /\ \A f \in Forms : FormOk(f)'
      /\ \A w \in Creators : CreatorOk(w)'
  BY ActorsKept DEF IInv
<1> QED
  BY <1>3, <1>4, <1>5, <1>6 DEF IInv

\* What the records hold that the steps of the emails write.
LEMMA MailsPreserve ==
    ASSUME IInv, NEW d \in Deleters,
           \/ BeginDelete(d) \/ SendCancellation(d) \/ MarkCancellation(d) \/ EndMail(d)
           \/ \E x \in deleter[d].mails : TakeMail(d, x)
    PROVE  IInv'
<1> DEFINE old == deleter[d]
           r == First(old.todo)
           less == [old EXCEPT !.todo = @ \ {r}]
<1>1. /\ old \in DeleterRecords(DOMAIN rooms)
      /\ sent \in [Hearings -> [Addressed -> BOOLEAN]]
      /\ inbox \in [Hearings -> [Addressed -> {"none", "confirmation", "cancellation"}]]
      /\ faults \in 0..MaxFaults
  BY TypeParts DEF IInv
<1>2. /\ less \in DeleterRecords(DOMAIN rooms)
      /\ less.rooms = old.rooms /\ less.current = old.current
  BY <1>1 DEF DeleterRecords
<1>3. old.pc \in {"mail", "sent"} => old.current # None /\ old.current[1] \in Hearings
  BY <1>1, NoneAssumption DEF CurrentOk, DeleterRecords, IInv
<1>4. CASE BeginDelete(d)
  <2> DEFINE new == [NoDeleter EXCEPT !.mails = CancelledWithPendingEmails]
  <2>1. new \in DeleterRecords(DOMAIN rooms) /\ new.rooms = {}
    BY DEF DeleterRecords, NoDeleter, CancelledWithPendingEmails, Listed
  <2> HIDE DEF new
  <2>2. Proceed(d, new, "mails") /\ UNCHANGED <<status, rows, sent, inbox, rooms, queue, form, creator, edits, reruns, faults>>
    BY <1>4 DEF BeginDelete, new
  <2> QED
    BY <1>1, <2>1, <2>2, DeleterMoves
<1>5. CASE SendCancellation(d)
  <2>1. /\ old.pc = "mail" /\ UNCHANGED <<status, rows, sent, rooms, queue, form, creator, edits, reruns, faults>>
    BY <1>5 DEF SendCancellation
  <2>2. CASE sent[old.current[1]][r]
    <3>1. Proceed(d, less, "mail") /\ UNCHANGED inbox
      BY <1>5, <2>2 DEF SendCancellation
    <3> QED
      BY <1>1, <1>2, <1>3, <2>1, <3>1, DeleterMoves
  <2>3. CASE ~ sent[old.current[1]][r]
    <3>1. Proceed(d, old, "sent") /\ inbox' = [inbox EXCEPT ![old.current[1]][r] = "cancellation"]
      BY <1>5, <2>3, Zenon DEF SendCancellation
    <3>2. inbox' \in [Hearings -> [Addressed -> {"none", "confirmation", "cancellation"}]]
      BY <1>1, <3>1
    <3> QED
      BY <1>1, <1>3, <2>1, <3>1, <3>2, DeleterMoves
  <2> QED
    BY <2>2, <2>3
<1>6. CASE MarkCancellation(d)
  <2>1. /\ old.pc = "sent" /\ sent' = [sent EXCEPT ![old.current[1]][r] = TRUE]
        /\ Proceed(d, less, "mail")
        /\ UNCHANGED <<status, rows, inbox, rooms, queue, form, creator, edits, reruns, faults>>
    BY <1>6 DEF MarkCancellation
  <2>2. sent' \in [Hearings -> [Addressed -> BOOLEAN]]
    BY <1>1, <2>1
  <2> QED
    BY <1>1, <1>2, <1>3, <2>1, <2>2, DeleterMoves
<1>7. CASE EndMail(d)
  <2> DEFINE new == [old EXCEPT !.current = None]
  <2>1. new \in DeleterRecords(DOMAIN rooms) /\ new.rooms = old.rooms
    BY <1>1 DEF DeleterRecords
  <2> HIDE DEF new
  <2>2. Proceed(d, new, "mails") /\ UNCHANGED <<status, rows, sent, inbox, rooms, queue, form, creator, edits, reruns, faults>>
    BY <1>7 DEF EndMail, new
  <2> QED
    BY <1>1, <2>1, <2>2, DeleterMoves
<1>8. ASSUME NEW x \in old.mails, TakeMail(d, x)
      PROVE  IInv'
  <2> DEFINE skip == [old EXCEPT !.mails = @ \ {x}]
             new == [old EXCEPT !.mails = @ \ {x}, !.current = x, !.todo = Addressed \ {"judge"}]
  <2>1. x \in Hearings \X (1..MaxRows)
    BY <1>1 DEF DeleterRecords
  <2>2. x # None
    BY <2>1, NoneAssumption, BoundsAssumption
  <2>3. skip \in DeleterRecords(DOMAIN rooms) /\ skip.rooms = old.rooms
    BY <1>1 DEF DeleterRecords
  <2>4. new \in DeleterRecords(DOMAIN rooms) /\ new.rooms = old.rooms /\ new.current = x
    BY <1>1, <2>1 DEF DeleterRecords
  <2> HIDE DEF skip, new
  <2>5. /\ Proceed(d, skip, "mails") \/ Proceed(d, new, "mail")
        /\ UNCHANGED <<status, rows, sent, inbox, rooms, queue, form, creator, edits, reruns, faults>>
    BY <1>8 DEF TakeMail, skip, new
  <2> QED
    BY <1>1, <2>2, <2>3, <2>4, <2>5, DeleterMoves
<1> QED
  BY <1>4, <1>5, <1>6, <1>7, <1>8

LEMMA EndsPreserve ==
    ASSUME IInv, NEW d \in Deleters,
           \/ EndDelete(d) \/ FailDelete(d)
           \/ \E x \in deleter[d].rooms : FailRoom(d, x)
    PROVE  IInv'
<1>1. /\ deleter[d] \in DeleterRecords(DOMAIN rooms)
      /\ deleter \in [Deleters -> DeleterRecords(DOMAIN rooms)]
      /\ sent \in [Hearings -> [Addressed -> BOOLEAN]]
      /\ inbox \in [Hearings -> [Addressed -> {"none", "confirmation", "cancellation"}]]
      /\ faults \in 0..MaxFaults
  BY TypeParts DEF IInv
<1>2. NoDeleter \in DeleterRecords(DOMAIN rooms) /\ NoDeleter.rooms = {}
  BY DEF DeleterRecords, NoDeleter
<1>3. CASE EndDelete(d) \/ FailDelete(d)
  <2>1. deleter' = [deleter EXCEPT ![d] = NoDeleter]
    BY <1>3 DEF EndDelete, FailDelete
  <2>2. Proceed(d, NoDeleter, "idle")
    BY <2>1 DEF Proceed, NoDeleter
  <2>3. /\ UNCHANGED <<status, rows, sent, inbox, rooms, queue, form, creator, edits, reruns>>
        /\ faults' \in 0..MaxFaults
    BY <1>1, <1>3, BoundsAssumption DEF EndDelete, FailDelete
  <2> QED
    BY <1>1, <1>2, <2>2, <2>3, DeleterMoves
<1>4. ASSUME NEW x \in deleter[d].rooms, FailRoom(d, x)
      PROVE  IInv'
  <2> DEFINE new == [deleter[d] EXCEPT !.rooms = @ \ {x}]
  <2>1. new \in DeleterRecords(DOMAIN rooms) /\ new.rooms \subseteq deleter[d].rooms
    BY <1>1 DEF DeleterRecords
  <2> HIDE DEF new
  <2>2. /\ Proceed(d, new, "rooms")
        /\ UNCHANGED <<status, rows, sent, inbox, rooms, queue, form, creator, edits, reruns>>
    BY <1>4 DEF FailRoom, new
  <2>3. faults' \in 0..MaxFaults
    BY <1>1, <1>4, BoundsAssumption DEF FailRoom
  <2> QED
    BY <1>1, <2>1, <2>2, <2>3, DeleterMoves
<1> QED
  BY <1>3, <1>4

\* What is ready for deletion is not to take place, and its conference is in
\* no other row and in no reply.
LEMMA ListRoomsPreserves ==
    ASSUME IInv, NEW d \in Deleters, ListRooms(d)
    PROVE  IInv'
<1> DEFINE listed == {<<x[1], x[2], rows[x[1]][x[2]].conf>> : x \in ReadyForDeletion}
           new == [deleter[d] EXCEPT !.rooms = listed]
<1>1. /\ deleter \in [Deleters -> DeleterRecords(DOMAIN rooms)]
      /\ rows \in [Hearings -> Seq(RowsOver(DOMAIN rooms))]
      /\ \A h \in Hearings : Latest(h) <= MaxRows
  BY TypeParts DEF IInv
<1>2. /\ Proceed(d, new, "rooms")
      /\ UNCHANGED <<status, rows, sent, inbox, rooms, queue, form, creator, edits, reruns, faults>>
  BY DEF ListRooms
<1>3. \A y \in listed :
          /\ y \in Hearings \X (1..MaxRows) \X DOMAIN rooms
          /\ y[2] \in DOMAIN rows[y[1]] /\ Row(y[1], y[2]).conf = y[3]
          /\ y[3] # None /\ ~ ToCome(y[1], y[2])
  <2> SUFFICES ASSUME NEW x \in ReadyForDeletion
               PROVE  LET y == <<x[1], x[2], rows[x[1]][x[2]].conf>>
                      IN  /\ y \in Hearings \X (1..MaxRows) \X DOMAIN rooms
                          /\ y[2] \in DOMAIN rows[y[1]] /\ Row(y[1], y[2]).conf = y[3]
                          /\ y[3] # None /\ ~ ToCome(y[1], y[2])
    OBVIOUS
  <2>1. /\ x \in Hearings \X (1..MaxRows) /\ x[1] \in Hearings /\ x[2] \in 1..MaxRows
        /\ x[2] <= Latest(x[1]) /\ Eligible(rows[x[1]][x[2]])
        /\ status[x[1]] # "upcoming" \/ rows[x[1]][x[2]].cancelled
    BY DEF ReadyForDeletion, Listed
  <2>2. x[2] \in DOMAIN rows[x[1]] /\ rows[x[1]][x[2]] \in RowsOver(DOMAIN rooms)
    <3>1. rows[x[1]] \in Seq(RowsOver(DOMAIN rooms))
      BY <1>1, <2>1
    <3>2. x[2] \in 1..Len(rows[x[1]])
      BY <2>1, <3>1, BoundsAssumption DEF Latest
    <3> QED
      BY <3>1, <3>2, ElementOfSeq, LenProperties
  <2>3. rows[x[1]][x[2]].conf # None
    BY <2>1 DEF Eligible, Active
  <2>4. rows[x[1]][x[2]].conf \in DOMAIN rooms
    BY <2>2, <2>3 DEF RowsOver
  <2> QED
    BY <2>1, <2>2, <2>3, <2>4 DEF Row, ToCome
<1> HIDE DEF listed
<1>4. /\ new \in DeleterRecords(DOMAIN rooms) /\ new.rooms = listed
  <2>1. listed \in SUBSET (Hearings \X (1..MaxRows) \X DOMAIN rooms)
    BY <1>3
  <2> QED
    BY <1>1, <2>1 DEF DeleterRecords
<1> HIDE DEF new
<1>5. /\ deleter' \in [Deleters -> DeleterRecords(DOMAIN rooms)]
      /\ deleter'[d].pc = "rooms" /\ deleter'[d].rooms = listed
      /\ \A e \in Deleters : e # d => deleter'[e] = deleter[e]
  BY <1>1, <1>2, <1>4 DEF Proceed, DeleterRecords
<1>6. TypeOK'
  BY <1>2, <1>5, TypeParts, TypePartsNext DEF IInv, Latest
<1>7. RowsOk' /\ ConfsDistinct' /\ RecordingOk'
  BY <1>2 DEF RowsOk, ConfsDistinct, RecordingOk, Recording, ToCome, Row, IInv
<1>8. \A y \in listed :
          /\ \A h \in Hearings : \A n \in DOMAIN rows[h] : Row(h, n).conf = y[3] => ~ ToCome(h, n)
          /\ \A w \in Creators : ~ Recording(w, y[3])
  <2> SUFFICES ASSUME NEW y \in listed
               PROVE  /\ \A h \in Hearings : \A n \in DOMAIN rows[h] :
                            Row(h, n).conf = y[3] => ~ ToCome(h, n)
                      /\ \A w \in Creators : ~ Recording(w, y[3])
    OBVIOUS
  <2>1. y[1] \in Hearings /\ y[2] \in DOMAIN rows[y[1]]
    BY <1>3
  <2>2. ASSUME NEW h \in Hearings, NEW n \in DOMAIN rows[h], Row(h, n).conf = y[3]
        PROVE  ~ ToCome(h, n)
    <3>1. h = y[1] /\ n = y[2]
      BY <1>3, <2>1, <2>2 DEF ConfsDistinct, IInv
    <3> QED
      BY <1>3, <3>1
  <2>3. \A w \in Creators : ~ Recording(w, y[3])
    BY <1>3, <2>1 DEF RecordingOk, Recording, IInv
  <2> QED
    BY <2>2, <2>3
<1>9. DoomedOk'
  BY <1>2, <1>3, <1>5, <1>8 DEF DoomedOk, Recording, ToCome, Row, IInv
<1>10. \A e \in Deleters : CurrentOk(e)'
  <2>1. CurrentOk(d)'
    BY <1>5 DEF CurrentOk
  <2> QED
    BY <1>2, <1>5, <2>1, ActorsKept DEF IInv
<1>11. /\ \A f \in Forms : FormOk(f)'
       /\ \A w \in Creators : CreatorOk(w)'
  BY <1>2, ActorsKept DEF IInv
<1> QED
  BY <1>6, <1>7, <1>9, <1>10, <1>11 DEF IInv

\* The room that goes is of no hearing to come, and nobody is about to record
\* it.
LEMMA DeleteRoomPreserves ==
    ASSUME IInv, NEW d \in Deleters, NEW x \in deleter[d].rooms, DeleteRoom(d, x)
    PROVE  IInv'
<1> DEFINE new == [deleter[d] EXCEPT !.rooms = @ \ {x}, !.current = <<x[1], x[2]>>]
           D == DOMAIN rooms
<1>1. /\ deleter \in [Deleters -> DeleterRecords(D)]
      /\ rooms \in Seq(BOOLEAN)
  BY TypeParts DEF IInv
<1>2. /\ Proceed(d, new, "deleted") /\ rooms' = [rooms EXCEPT ![x[3]] = FALSE]
      /\ UNCHANGED <<status, rows, sent, inbox, queue, form, creator, edits, reruns, faults>>
  BY DEF DeleteRoom
<1>3. /\ x \in Hearings \X (1..MaxRows) \X D
      /\ x[1] \in Hearings /\ x[2] \in 1..MaxRows /\ x[3] \in D
  BY <1>1 DEF DeleterRecords
<1>4. /\ rooms' \in Seq(BOOLEAN) /\ DOMAIN rooms' = D
      /\ \A c \in D : c # x[3] => rooms'[c] = rooms[c]
  <2>1. x[3] \in 1..Len(rooms)
    BY <1>1, <1>3, LenProperties
  <2>2. rooms' \in Seq(BOOLEAN) /\ Len(rooms') = Len(rooms)
    BY <1>1, <1>2, <2>1, ExceptSeq
  <2> QED
    BY <1>1, <1>2, <2>2, LenProperties
<1>5. /\ new \in DeleterRecords(D) /\ new.rooms \subseteq deleter[d].rooms
      /\ new.current = <<x[1], x[2]>>
  BY <1>1, <1>3 DEF DeleterRecords
<1> HIDE DEF new, D
<1>6. /\ deleter' \in [Deleters -> DeleterRecords(D)]
      /\ deleter'[d].pc = "deleted" /\ deleter'[d].rooms = new.rooms
      /\ deleter'[d].current = new.current
      /\ \A e \in Deleters : e # d => deleter'[e] = deleter[e]
  BY <1>1, <1>2, <1>5 DEF Proceed, DeleterRecords
<1>7. TypeOK'
  BY <1>2, <1>4, <1>6, TypeParts, TypePartsNext DEF IInv, Latest, D
<1>8. /\ x[2] \in DOMAIN rows[x[1]]
      /\ \A h \in Hearings : \A n \in DOMAIN rows[h] : Row(h, n).conf = x[3] => ~ ToCome(h, n)
      /\ \A w \in Creators : ~ Recording(w, x[3])
  BY DEF DoomedOk, IInv
<1>9. RowsOk'
  <2>1. \A h \in Hearings : \A n \in DOMAIN rows[h] : rows[h][n].conf \in {None} \union D
    <3>1. \A h \in Hearings : \A n \in DOMAIN rows[h] : rows[h][n] \in RowsOver(D)
      BY TypeParts, ElementOfSeq, LenProperties DEF IInv, D
    <3> QED
      BY <3>1 DEF RowsOver
  <2> QED
    BY <1>2, <1>4, <1>8, <2>1 DEF RowsOk, ToCome, Row, IInv
<1>10. ConfsDistinct'
  BY <1>2 DEF ConfsDistinct, Row, IInv
<1>11. RecordingOk'
  BY <1>2, <1>4, <1>8 DEF RecordingOk, Recording, Row, IInv, D
<1>12. DoomedOk'
  BY <1>2, <1>5, <1>6 DEF DoomedOk, Recording, ToCome, Row, IInv
<1>13. \A e \in Deleters : CurrentOk(e)'
  <2>1. CurrentOk(d)'
    BY <1>2, <1>3, <1>5, <1>6, <1>8, NoneAssumption, BoundsAssumption DEF CurrentOk
  <2> QED
    BY <1>2, <1>6, <2>1, ActorsKept DEF IInv
<1>14. /\ \A f \in Forms : FormOk(f)'
       /\ \A w \in Creators : CreatorOk(w)'
  BY <1>2, ActorsKept DEF IInv
<1> QED
  BY <1>7, <1>9, <1>10, <1>11, <1>12, <1>13, <1>14 DEF IInv

LEMMA MarkDeletedPreserves ==
    ASSUME IInv, NEW d \in Deleters, MarkDeleted(d)
    PROVE  IInv'
<1> DEFINE h == deleter[d].current[1]
           n == deleter[d].current[2]
           e == [rows[h][n] EXCEPT !.deleted = TRUE]
           new == [deleter[d] EXCEPT !.current = None]
<1>1. /\ rows \in [Hearings -> Seq(RowsOver(DOMAIN rooms))]
      /\ deleter \in [Deleters -> DeleterRecords(DOMAIN rooms)]
  BY TypeParts DEF IInv
<1>2. /\ deleter[d].pc = "deleted" /\ Proceed(d, new, "rooms")
      /\ rows' = [rows EXCEPT ![h] = [rows[h] EXCEPT ![n] = e]]
      /\ UNCHANGED <<status, sent, inbox, rooms, queue, form, creator, edits, reruns, faults>>
  BY DEF MarkDeleted
<1>3. h \in Hearings /\ n \in DOMAIN rows[h]
  <2>1. deleter[d].current \in Hearings \X (1..MaxRows) /\ n \in DOMAIN rows[h]
    BY <1>1, <1>2 DEF CurrentOk, DeleterRecords, IInv
  <2> QED
    BY <2>1
<1>4. rows[h][n] \in RowsOver(DOMAIN rooms)
  BY <1>1, <1>3, ElementOfSeq, LenProperties
<1>5. /\ e \in RowsOver(DOMAIN rooms) /\ e.conf = rows[h][n].conf
      /\ e.cancelled = rows[h][n].cancelled /\ e.processed = rows[h][n].processed
  BY <1>4 DEF RowsOver
<1>6. e.processed => e.conf # None
  BY <1>3, <1>5 DEF RowsOk, Row, IInv
<1>7. new \in DeleterRecords(DOMAIN rooms) /\ new.rooms = deleter[d].rooms
  BY <1>1 DEF DeleterRecords
<1> HIDE DEF h, n, e, new
<1>8. /\ deleter' \in [Deleters -> DeleterRecords(DOMAIN rooms)]
      /\ deleter'[d].pc = "rooms" /\ deleter'[d].rooms = deleter[d].rooms
      /\ \A k \in Deleters : k # d => deleter'[k] = deleter[k]
  BY <1>1, <1>2, <1>7 DEF Proceed, DeleterRecords
<1>9. /\ RowsOk' /\ ConfsDistinct' /\ RecordingOk' /\ DoomedOk'
      /\ rows' \in [Hearings -> Seq(RowsOver(DOMAIN rooms))]
      /\ \A g \in Hearings : Latest(g)' = Latest(g) /\ DOMAIN rows'[g] = DOMAIN rows[g]
      /\ \A g \in Hearings : \A m \in DOMAIN rows[g] : rows'[g][m].conf = rows[g][m].conf
  BY <1>2, <1>3, <1>5, <1>6, <1>8, RowChanged DEF IInv
<1>10. TypeOK'
  BY <1>2, <1>8, <1>9, TypeParts, TypePartsNext DEF IInv
<1>11. \A k \in Deleters : CurrentOk(k)'
  <2>1. CurrentOk(d)'
    BY <1>8 DEF CurrentOk
  <2> QED
    BY <1>8, <1>9, <2>1, ActorsKept DEF IInv
<1>12. /\ \A f \in Forms : FormOk(f)'
       /\ \A w \in Creators : CreatorOk(w)'
  BY <1>2, <1>9, ActorsKept DEF IInv
<1> QED
  BY <1>9, <1>10, <1>11, <1>12 DEF IInv

-----------------------------------------------------------------------------
(* Hearings and the requests that update them *)

LEMMA HearingsPreserve ==
    ASSUME IInv, NEW h \in Hearings,
           Rerun(h) \/ \E to \in {"past", "postponed"} : EndHearing(h, to)
    PROVE  IInv'
<1>1. /\ queue \in [Hearings -> 0..MaxQueued] /\ reruns \in 0..MaxReruns
      /\ status \in [Hearings -> {"upcoming", "postponed", "past"}]
  BY TypeParts DEF IInv
<1>2. /\ UNCHANGED <<rows, sent, inbox, rooms, form, creator, deleter, edits, faults>>
      /\ queue' \in [Hearings -> 0..MaxQueued] /\ reruns' \in 0..MaxReruns
      /\ status' \in [Hearings -> {"upcoming", "postponed", "past"}]
      /\ \A g \in Hearings : status'[g] = "upcoming" => status[g] = "upcoming"
  BY <1>1, BoundsAssumption DEF Rerun, EndHearing
<1>3. TypeOK'
  BY <1>2, TypeParts, TypePartsNext DEF IInv, Latest
<1>4. RowsOk' /\ ConfsDistinct' /\ RecordingOk' /\ DoomedOk'
  BY <1>2, QuietStep DEF IInv
<1>5. /\ \A f \in Forms : FormOk(f)'
      /\ \A w \in Creators : CreatorOk(w)'
      /\ \A d \in Deleters : CurrentOk(d)'
  BY <1>2, ActorsKept DEF IInv
<1> QED
  BY <1>3, <1>4, <1>5 DEF IInv

\* A request goes on, or is over, and changes no row.
LEMMA FormMoves ==
    ASSUME IInv, NEW f \in Forms, NEW record \in FormRecords,
           form' = [form EXCEPT ![f] = record],
           record.pc # "idle" =>
               /\ record.hearing \in Hearings
               /\ record.found # None => record.found \in DOMAIN rows[record.hearing],
           UNCHANGED <<status, rows, inbox, rooms, creator, deleter, reruns, faults>>,
           sent' \in [Hearings -> [Addressed -> BOOLEAN]],
           queue' \in [Hearings -> 0..MaxQueued],
           edits' \in 0..MaxEdits
    PROVE  IInv'
<1>1. /\ form' \in [Forms -> FormRecords] /\ form'[f] = record
      /\ \A g \in Forms : g # f => form'[g] = form[g]
  BY TypeParts DEF IInv
<1>2. TypeOK'
  BY <1>1, TypeParts, TypePartsNext DEF IInv, Latest
<1>3. RowsOk' /\ ConfsDistinct' /\ RecordingOk' /\ DoomedOk'
  BY QuietStep DEF IInv
<1>4. \A g \in Forms : FormOk(g)'
  <2>1. FormOk(f)'
    BY <1>1 DEF FormOk
  <2> QED
    BY <1>1, <2>1, ActorsKept DEF IInv
<1>5. /\ \A w \in Creators : CreatorOk(w)'
      /\ \A d \in Deleters : CurrentOk(d)'
  BY ActorsKept DEF IInv
<1> QED
  BY <1>2, <1>3, <1>4, <1>5 DEF IInv

\* The row found is one of the hearing's.
LEMMA FoundIsRow ==
    ASSUME TypeOK, NEW h \in Hearings, Found(h) # None
    PROVE  Found(h) \in DOMAIN rows[h] /\ Found(h) \in 1..MaxRows
<1>1. rows[h] \in Seq(RowsOver(DOMAIN rooms)) /\ Latest(h) <= MaxRows
  BY TypeParts
<1>2. Found(h) \in Open(h)
  BY DEF Found
<1>3. Found(h) \in 1..Len(rows[h])
  BY <1>1, <1>2, LenProperties DEF Open
<1> QED
  BY <1>1, <1>3, BoundsAssumption, LenProperties DEF Latest

LEMMA FlagsTyped ==
    ASSUME TypeOK, NEW h \in Hearings, NEW kind,
           sent' = [sent EXCEPT ![h] = FlagsOf(kind, h)]
    PROVE  sent' \in [Hearings -> [Addressed -> BOOLEAN]]
<1>1. FlagsOf(kind, h) \in [Addressed -> BOOLEAN]
  BY DEF FlagsOf, SentFlag
<1>2. sent \in [Hearings -> [Addressed -> BOOLEAN]]
  BY TypeParts
<1> HIDE DEF FlagsOf
<1> QED
  BY <1>1, <1>2

LEMMA BeginEditPreserves ==
    ASSUME IInv, NEW f \in Forms, NEW h \in Hearings, NEW kind \in Kinds, BeginEdit(f, h, kind)
    PROVE  IInv'
<1> DEFINE latest == rows[h][Latest(h)]
           running == Latest(h) # 0 /\ (Pending(latest) \/ ~ JobCompleted(h, latest))
           change == /\ ~ running
                     /\ kind \in {"convert", "cancel"} \/ (kind = "time" /\ Virtual(h))
           record == [pc |-> "commit", hearing |-> h, kind |-> kind, change |-> change,
                      found |-> Found(h)]
<1>1. /\ sent \in [Hearings -> [Addressed -> BOOLEAN]]
      /\ queue \in [Hearings -> 0..MaxQueued] /\ edits \in 0..MaxEdits
  BY TypeParts DEF IInv
<1>2. form' = [form EXCEPT ![f] = record]
  BY DEF BeginEdit
<1>3. change \in BOOLEAN
  OBVIOUS
<1> HIDE DEF change
<1>4. record \in FormRecords
  BY <1>3, FoundIsRow DEF FormRecords, IInv
<1>5. Found(h) # None => Found(h) \in DOMAIN rows[h]
  BY FoundIsRow DEF IInv
<1>6. /\ UNCHANGED <<status, rows, inbox, rooms, creator, deleter, reruns, faults, sent, queue>>
      /\ edits' \in 0..MaxEdits
  BY <1>1, BoundsAssumption DEF BeginEdit
<1>7. record.hearing = h /\ record.found = Found(h)
  OBVIOUS
<1> HIDE DEF record
<1> QED
  BY <1>1, <1>2, <1>4, <1>5, <1>6, <1>7, FormMoves

LEMMA SetFlagsPreserves ==
    ASSUME IInv, NEW f \in Forms, SetFlags(f)
    PROVE  IInv'
<1> DEFINE record == [form[f] EXCEPT !.pc = "start"]
<1>1. /\ form \in [Forms -> FormRecords]
      /\ queue \in [Hearings -> 0..MaxQueued] /\ edits \in 0..MaxEdits
  BY TypeParts DEF IInv
<1>2. /\ form[f].pc = "flags" /\ form' = [form EXCEPT ![f] = record]
      /\ sent' = [sent EXCEPT ![form[f].hearing] = FlagsOf(form[f].kind, form[f].hearing)]
      /\ UNCHANGED <<status, rows, inbox, rooms, queue, creator, deleter, edits, reruns, faults>>
  BY DEF SetFlags
<1>3. /\ form[f].hearing \in Hearings
      /\ form[f].found # None => form[f].found \in DOMAIN rows[form[f].hearing]
  BY <1>2 DEF FormOk, IInv
<1>4. record \in FormRecords /\ record.hearing = form[f].hearing /\ record.found = form[f].found
  BY <1>1 DEF FormRecords
<1>5. sent' \in [Hearings -> [Addressed -> BOOLEAN]]
  BY <1>2, <1>3, FlagsTyped DEF IInv
<1> HIDE DEF record
<1> QED
  BY <1>1, <1>2, <1>3, <1>4, <1>5, FormMoves

\* A request changes a row and goes on.
LEMMA FormChangesRow ==
    ASSUME IInv, NEW f \in Forms, NEW record \in FormRecords,
           form' = [form EXCEPT ![f] = record],
           record.pc # "idle" =>
               /\ record.hearing \in Hearings
               /\ record.found # None => record.found \in DOMAIN rows[record.hearing],
           NEW h \in Hearings, NEW n \in DOMAIN rows[h], NEW e \in RowsOver(DOMAIN rooms),
           rows' = [rows EXCEPT ![h] = [rows[h] EXCEPT ![n] = e]],
           e.conf = rows[h][n].conf,
           rows[h][n].cancelled => e.cancelled,
           e.processed => e.conf # None,
           UNCHANGED <<status, inbox, rooms, creator, deleter, edits, reruns, faults>>,
           sent' \in [Hearings -> [Addressed -> BOOLEAN]],
           queue' \in [Hearings -> 0..MaxQueued]
    PROVE  IInv'
<1>1. /\ form' \in [Forms -> FormRecords] /\ form'[f] = record
      /\ \A g \in Forms : g # f => form'[g] = form[g]
  BY TypeParts DEF IInv
<1>2. /\ RowsOk' /\ ConfsDistinct' /\ RecordingOk' /\ DoomedOk'
      /\ rows' \in [Hearings -> Seq(RowsOver(DOMAIN rooms))]
      /\ \A g \in Hearings : Latest(g)' = Latest(g) /\ DOMAIN rows'[g] = DOMAIN rows[g]
      /\ \A g \in Hearings : \A m \in DOMAIN rows[g] : rows'[g][m].conf = rows[g][m].conf
  BY RowChanged DEF IInv
<1>3. TypeOK'
  BY <1>1, <1>2, TypeParts, TypePartsNext DEF IInv
<1>4. \A g \in Forms : FormOk(g)'
  <2>1. FormOk(f)'
    BY <1>1, <1>2 DEF FormOk
  <2> QED
    BY <1>1, <1>2, <2>1, ActorsKept DEF IInv
<1>5. /\ \A w \in Creators : CreatorOk(w)'
      /\ \A d \in Deleters : CurrentOk(d)'
  BY <1>2, ActorsKept DEF IInv
<1> QED
  BY <1>2, <1>3, <1>4, <1>5 DEF IInv

LEMMA CommitEditPreserves ==
    ASSUME IInv, NEW f \in Forms, CommitEdit(f)
    PROVE  IInv'
<1> DEFINE h == form[f].hearing
           kind == form[f].kind
           n == form[f].found
           record == [form[f] EXCEPT !.pc = "flags"]
<1>1. /\ rows \in [Hearings -> Seq(RowsOver(DOMAIN rooms))]
      /\ form \in [Forms -> FormRecords]
      /\ sent \in [Hearings -> [Addressed -> BOOLEAN]]
      /\ queue \in [Hearings -> 0..MaxQueued] /\ edits \in 0..MaxEdits
  BY TypeParts DEF IInv
<1>2. /\ form[f].pc = "commit" /\ form' = [form EXCEPT ![f] = record]
      /\ UNCHANGED <<status, inbox, rooms, queue, creator, deleter, edits, reruns, faults>>
  BY DEF CommitEdit
<1>3. h \in Hearings /\ (n # None => n \in DOMAIN rows[h])
  BY <1>2 DEF FormOk, IInv
<1>4. record \in FormRecords /\ record.hearing = h /\ record.found = n
  BY <1>1 DEF FormRecords
<1> HIDE DEF record
<1>5. CASE ~ form[f].change
  <2>1. UNCHANGED <<rows, sent>>
    BY <1>5, Zenon DEF CommitEdit
  <2> QED
    BY <1>1, <1>2, <1>3, <1>4, <2>1, FormMoves
<1>6. ASSUME form[f].change, n # None
      PROVE  IInv'
  <2> DEFINE e == IF kind = "cancel" THEN [rows[h][n] EXCEPT !.cancelled = TRUE]
                  ELSE [rows[h][n] EXCEPT !.processed = FALSE]
  <2>1. rows' = [rows EXCEPT ![h] = [rows[h] EXCEPT ![n] = e]] /\ sent' = [sent EXCEPT ![h] = FlagsOf(kind, h)]
    BY <1>6 DEF CommitEdit
  <2>2. n \in DOMAIN rows[h] /\ rows[h][n] \in RowsOver(DOMAIN rooms)
    BY <1>1, <1>3, <1>6, ElementOfSeq, LenProperties
  <2>3. /\ e \in RowsOver(DOMAIN rooms) /\ e.conf = rows[h][n].conf
        /\ rows[h][n].cancelled => e.cancelled
        /\ e.processed => rows[h][n].processed
    BY <2>2 DEF RowsOver
  <2>4. e.processed => e.conf # None
    BY <1>3, <2>2, <2>3 DEF RowsOk, Row, IInv
  <2>5. sent' \in [Hearings -> [Addressed -> BOOLEAN]]
    BY <1>3, <2>1, FlagsTyped DEF IInv
  <2> HIDE DEF e, n, h
  <2> QED
    BY <1>1, <1>2, <1>3, <1>4, <2>1, <2>2, <2>3, <2>4, <2>5, FormChangesRow
<1>7. ASSUME form[f].change, n = None
      PROVE  IInv'
  <2> DEFINE e == [NewRow EXCEPT !.cancelled = kind = "cancel"]
  <2>1. /\ rows' = [rows EXCEPT ![h] = Append(rows[h], e)] /\ sent' = [sent EXCEPT ![h] = FlagsOf(kind, h)]
        /\ Latest(h) < MaxRows
    BY <1>7 DEF CommitEdit
  <2>2. e \in RowsOver(DOMAIN rooms) /\ e.conf = None /\ e.processed = FALSE
    BY DEF RowsOver, NewRow
  <2>3. sent' \in [Hearings -> [Addressed -> BOOLEAN]]
    BY <1>3, <2>1, FlagsTyped DEF IInv
  <2> HIDE DEF e, h, n
  <2>4. /\ rows' \in [Hearings -> Seq(RowsOver(DOMAIN rooms))]
        /\ \A g \in Hearings : Len(rows'[g]) = IF g = h THEN Len(rows[g]) + 1 ELSE Len(rows[g])
        /\ \A g \in Hearings : DOMAIN rows[g] \subseteq DOMAIN rows'[g]
        /\ \A g \in Hearings : \A m \in DOMAIN rows[g] : rows'[g][m] = rows[g][m]
        /\ \A g \in Hearings : \A m \in DOMAIN rows'[g] :
              m \in DOMAIN rows[g] \/ (g = h /\ rows'[g][m] = e)
    BY <1>1, <1>3, <2>1, <2>2, RowAdded
  <2>5. /\ form' \in [Forms -> FormRecords] /\ form'[f] = record
        /\ \A g \in Forms : g # f => form'[g] = form[g]
    BY <1>1, <1>2, <1>4
  <2>6. TypeOK'
    <3>1. \A g \in Hearings : Latest(g)' <= MaxRows
      <4>1. \A g \in Hearings : Latest(g) <= MaxRows /\ Len(rows[g]) \in Nat
        BY <1>1, TypeParts, LenProperties DEF IInv
      <4> QED
        BY <2>1, <2>4, <4>1, BoundsAssumption DEF Latest
    <3> QED
      BY <1>2, <2>3, <2>4, <2>5, <3>1, TypeParts, TypePartsNext DEF IInv
  <2>7. \A g \in Hearings : \A m \in DOMAIN rows'[g] :
            rows'[g][m].conf # None =>
                /\ m \in DOMAIN rows[g] /\ rows'[g][m] = rows[g][m]
                /\ ToCome(g, m)' => ToCome(g, m)
    BY <1>2, <2>2, <2>4 DEF ToCome, Row
  <2>8. RowsOk'
    BY <1>2, <2>2, <2>4, <2>7 DEF RowsOk, Row, IInv
  <2>9. ConfsDistinct'
    BY <2>7 DEF ConfsDistinct, Row, IInv
  <2>10. \A w \in Creators : \A c : Recording(w, c)' <=> Recording(w, c)
    BY <1>2 DEF Recording
  <2>11. RecordingOk'
    <3>1. \A w \in Creators : creator[w].pc = "record" => creator[w].conf # None
      <4>1. \A w \in Creators : creator[w].pc = "record" => creator[w].conf \in DOMAIN rooms
        BY DEF RecordingOk, IInv
      <4>2. rooms \in Seq(BOOLEAN)
        BY TypeParts DEF IInv
      <4>3. None \notin DOMAIN rooms
        BY <4>2, NoneAssumption, LenProperties
      <4> QED
        BY <4>1, <4>3
    <3> QED
      BY <1>2, <2>7, <2>10, <3>1 DEF RecordingOk, Row, IInv
  <2>12. DoomedOk'
    <3> SUFFICES ASSUME NEW d \in Deleters, NEW x \in deleter[d].rooms
                 PROVE  /\ x[2] \in DOMAIN rows'[x[1]]
                        /\ \A g \in Hearings : \A m \in DOMAIN rows'[g] :
                              rows'[g][m].conf = x[3] => ~ ToCome(g, m)'
                        /\ \A w \in Creators : ~ Recording(w, x[3])'
      BY <1>2 DEF DoomedOk, Row
    <3>1. x \in Hearings \X (1..MaxRows) \X DOMAIN rooms
      BY TypeParts DEF DeleterRecords, IInv
    <3>2. x[1] \in Hearings /\ x[3] # None
      <4>1. rooms \in Seq(BOOLEAN)
        BY TypeParts DEF IInv
      <4> QED
        BY <3>1, <4>1, NoneAssumption, LenProperties
    <3> QED
      BY <2>4, <2>7, <2>10, <3>2 DEF DoomedOk, Row, IInv
  <2>13. \A g \in Hearings : \A m \in DOMAIN rows[g] : rows[g][m].conf # None => rows'[g][m].conf # None
    BY <2>4
  <2>14. \A g \in Forms : FormOk(g)'
    <3>1. FormOk(f)'
      BY <1>3, <1>4, <2>4, <2>5 DEF FormOk
    <3> QED
      BY <2>4, <2>5, <2>13, <3>1, ActorsKept DEF IInv
  <2>15. /\ \A w \in Creators : CreatorOk(w)'
         /\ \A d \in Deleters : CurrentOk(d)'
    BY <1>2, <2>4, <2>13, ActorsKept DEF IInv
  <2> QED
    BY <2>6, <2>8, <2>9, <2>11, <2>12, <2>14, <2>15 DEF IInv
<1> QED
  BY <1>5, <1>6, <1>7

LEMMA StartJobPreserves ==
    ASSUME IInv, NEW f \in Forms, StartJob(f)
    PROVE  IInv'
<1> DEFINE h == form[f].hearing
           n == Latest(h)
           e == [rows[h][n] EXCEPT !.processed = FALSE]
           starts == n # 0 /\ ~ AllEmailsSent(h) /\ form[f].kind # "cancel"
<1>1. /\ rows \in [Hearings -> Seq(RowsOver(DOMAIN rooms))]
      /\ sent \in [Hearings -> [Addressed -> BOOLEAN]]
      /\ queue \in [Hearings -> 0..MaxQueued] /\ edits \in 0..MaxEdits
  BY TypeParts DEF IInv
<1>2. /\ form[f].pc = "start" /\ form' = [form EXCEPT ![f] = NoForm]
      /\ UNCHANGED <<status, sent, inbox, rooms, creator, deleter, edits, reruns, faults>>
  BY DEF StartJob
<1>3. h \in Hearings
  BY <1>2 DEF FormOk, IInv
<1>4. NoForm \in FormRecords /\ NoForm.pc = "idle"
  BY DEF NoForm, FormRecords
<1>5. CASE ~ starts
  <2>1. UNCHANGED <<rows, queue>>
    BY <1>5 DEF StartJob
  <2> QED
    BY <1>1, <1>2, <1>4, <2>1, FormMoves
<1>6. CASE starts
  <2>1. /\ rows' = [rows EXCEPT ![h] = [rows[h] EXCEPT ![n] = e]]
        /\ queue[h] < MaxQueued /\ queue' = [queue EXCEPT ![h] = @ + 1]
    BY <1>6 DEF StartJob
  <2>2. queue' \in [Hearings -> 0..MaxQueued]
    BY <1>1, <1>3, <2>1, BoundsAssumption
  <2>3. n \in DOMAIN rows[h] /\ rows[h][n] \in RowsOver(DOMAIN rooms)
    <3>1. rows[h] \in Seq(RowsOver(DOMAIN rooms))
      BY <1>1, <1>3
    <3>2. n \in 1..Len(rows[h])
      BY <1>6, <3>1, LenProperties DEF Latest
    <3> QED
      BY <3>1, <3>2, ElementOfSeq, LenProperties
  <2>4. /\ e \in RowsOver(DOMAIN rooms) /\ e.conf = rows[h][n].conf
        /\ e.cancelled = rows[h][n].cancelled /\ e.processed = FALSE
    BY <2>3 DEF RowsOver
  <2> HIDE DEF e, n, h
  <2> QED
    BY <1>1, <1>2, <1>3, <1>4, <2>1, <2>2, <2>3, <2>4, FormChangesRow
<1> QED
  BY <1>5, <1>6

-----------------------------------------------------------------------------
(* Which rooms are known *)

\* No two executions of CreateConferenceJob are for the same hearing. Nothing
\* locks the row while one is with Pexip: two would create a room each, and
\* record one.
Apart ==
    \A v, w \in Creators :
        creator[v].pc # "idle" /\ creator[w].pc # "idle" /\ creator[v].hearing = creator[w].hearing
            => v = w

\* The conference of an execution is that of its row, once it is recorded.
CreatorConf(w) ==
    /\ creator[w].pc \in {"idle", "create"} => creator[w].conf = None
    /\ creator[w].pc \in {"create", "record"} => Row(creator[w].hearing, creator[w].row).conf = None
    /\ creator[w].pc \in {"mail", "sent", "establish"} =>
          Row(creator[w].hearing, creator[w].row).conf = creator[w].conf

\* The room of a row that is marked deleted is gone.
DeletedGone ==
    \A h \in Hearings : \A n \in DOMAIN rows[h] :
        Row(h, n).deleted => Row(h, n).conf # None /\ ~ rooms[Row(h, n).conf]

\* Rows are listed with their conference, and marked once the room is gone.
ListedOk(d) ==
    /\ \A x \in deleter[d].rooms : Row(x[1], x[2]).conf = x[3]
    /\ deleter[d].pc = "deleted" =>
          LET row == Row(deleter[d].current[1], deleter[d].current[2])
          IN  row.conf # None /\ ~ rooms[row.conf]

\* A row or an execution knows the room.
Known(c) ==
    \/ \E h \in Hearings : \E n \in DOMAIN rows[h] : Row(h, n).conf = c
    \/ \E w \in Creators : creator[w].conf = c

Unknown == {c \in DOMAIN rooms : rooms[c] /\ ~ Known(c)}

Account ==
    /\ \A w \in Creators : CreatorConf(w)
    /\ DeletedGone
    /\ \A d \in Deleters : ListedOk(d)
    /\ Cardinality(Unknown) <= faults

\* The listed rows are the rows.
LEMMA RowListed ==
    ASSUME TypeOK, NEW h \in Hearings, NEW n
    PROVE  n \in DOMAIN rows[h] <=> <<h, n>> \in Listed
<1>1. /\ rows[h] \in Seq(RowsOver(DOMAIN rooms))
      /\ Latest(h) <= MaxRows
  BY TypeParts
<1>2. DOMAIN rows[h] = 1..Len(rows[h]) /\ Len(rows[h]) \in Nat
  BY <1>1, LenProperties
<1> QED
  BY <1>1, <1>2, BoundsAssumption DEF Listed, Latest

LEMMA AccountsForRooms ==
    ASSUME IInv, Account
    PROVE  RoomsAccounted
<1>1. TypeOK
  BY DEF IInv
<1>2. ASSUME NEW x \in Listed, rows[x[1]][x[2]].deleted
      PROVE  ~ rooms[rows[x[1]][x[2]].conf]
  <2>1. x[1] \in Hearings /\ x = <<x[1], x[2]>>
    BY DEF Listed
  <2>2. x[2] \in DOMAIN rows[x[1]]
    BY <1>1, <2>1, RowListed
  <2> QED
    BY <1>2, <2>1, <2>2 DEF Account, DeletedGone, Row
<1>3. ASSUME NEW c \in DOMAIN rooms
      PROVE  Known(c) <=> c \in {rows[x[1]][x[2]].conf : x \in Listed}
                                    \union {creator[w].conf : w \in Creators}
  <2>1. ASSUME NEW h \in Hearings, NEW n \in DOMAIN rows[h], Row(h, n).conf = c
        PROVE  c \in {rows[x[1]][x[2]].conf : x \in Listed}
    <3>1. <<h, n>> \in Listed
      BY <1>1, RowListed
    <3> QED
      BY <2>1, <3>1 DEF Row
  <2>2. ASSUME NEW x \in Listed, rows[x[1]][x[2]].conf = c
        PROVE  \E h \in Hearings : \E n \in DOMAIN rows[h] : Row(h, n).conf = c
    <3>1. x[1] \in Hearings /\ x = <<x[1], x[2]>>
      BY DEF Listed
    <3>2. x[2] \in DOMAIN rows[x[1]]
      BY <1>1, <3>1, RowListed
    <3> QED
      BY <2>2, <3>1, <3>2 DEF Row
  <2> QED
    BY <2>1, <2>2 DEF Known
<1>4. Unknown = {c \in DOMAIN rooms : rooms[c]} \ ({rows[x[1]][x[2]].conf : x \in Listed}
                                                     \union {creator[w].conf : w \in Creators})
  BY <1>3 DEF Unknown
<1> QED
  BY <1>2, <1>4 DEF RoomsAccounted, Account

LEMMA UnknownFinite ==
    ASSUME TypeOK
    PROVE  IsFiniteSet(Unknown) /\ Cardinality(Unknown) \in Nat
<1>1. rooms \in Seq(BOOLEAN)
  BY TypeParts
<1>2. DOMAIN rooms = 1..Len(rooms) /\ Len(rooms) \in Nat
  BY <1>1, LenProperties
<1>3. IsFiniteSet(DOMAIN rooms)
  BY <1>2, FS_Interval
<1>4. Unknown \subseteq DOMAIN rooms
  BY DEF Unknown
<1> QED
  BY <1>3, <1>4, FS_Subset, FS_CardinalityType

\* No conference is taken from its row, and no room comes back.
ConfsStay ==
    \A h \in Hearings :
        /\ DOMAIN rows[h] \subseteq DOMAIN rows'[h]
        /\ \A n \in DOMAIN rows[h] : rows[h][n].conf # None => rows'[h][n].conf = rows[h][n].conf
RoomsStay == DOMAIN rooms \subseteq DOMAIN rooms' /\ \A c \in DOMAIN rooms : rooms'[c] => rooms[c]

\* What is marked deleted was, or its room is gone.
MarkedOk ==
    \A h \in Hearings : \A n \in DOMAIN rows'[h] :
        rows'[h][n].deleted =>
            /\ n \in DOMAIN rows[h]
            /\ \/ rows[h][n].deleted
               \/ rows[h][n].conf # None /\ ~ rooms[rows[h][n].conf]

\* A row's conference is a room.
LEMMA ConfOfRow ==
    ASSUME TypeOK, NEW h \in Hearings, NEW n \in DOMAIN rows[h]
    PROVE  rows[h][n] \in RowsOver(DOMAIN rooms) /\ rows[h][n].conf \in {None} \union DOMAIN rooms
<1>1. rows[h] \in Seq(RowsOver(DOMAIN rooms))
  BY TypeParts
<1>2. rows[h][n] \in RowsOver(DOMAIN rooms)
  BY <1>1, ElementOfSeq, LenProperties
<1> QED
  BY <1>2 DEF RowsOver

LEMMA DeletedStays ==
    ASSUME IInv, Account, ConfsStay, RoomsStay, MarkedOk
    PROVE  DeletedGone'
<1> SUFFICES ASSUME NEW h \in Hearings, NEW n \in DOMAIN rows'[h], rows'[h][n].deleted
    PROVE  rows'[h][n].conf # None /\ ~ rooms'[rows'[h][n].conf]
  BY DEF DeletedGone, Row
<1>1. n \in DOMAIN rows[h] /\ rows[h][n].conf # None /\ ~ rooms[rows[h][n].conf]
  BY DEF MarkedOk, Account, DeletedGone, Row
<1>2. rows[h][n].conf \in DOMAIN rooms
  BY <1>1, ConfOfRow DEF IInv
<1> QED
  BY <1>1, <1>2 DEF ConfsStay, RoomsStay

\* An execution that lists nothing more and deletes nothing.
LEMMA ListedStays ==
    ASSUME IInv, Account, ConfsStay, RoomsStay, NEW d \in Deleters,
           deleter'[d].rooms \subseteq deleter[d].rooms,
           deleter'[d].pc = "deleted" => deleter'[d] = deleter[d]
    PROVE  ListedOk(d)'
<1>1. ListedOk(d) /\ TypeOK /\ CurrentOk(d) /\ deleter[d] \in DeleterRecords(DOMAIN rooms)
  BY TypeParts DEF IInv, Account
<1>2. ASSUME NEW x \in deleter'[d].rooms
      PROVE  rows'[x[1]][x[2]].conf = x[3]
  <2>1. x \in deleter[d].rooms /\ x \in Hearings \X (1..MaxRows) \X DOMAIN rooms
    BY <1>1 DEF DeleterRecords
  <2>2. x[1] \in Hearings /\ x[3] \in DOMAIN rooms /\ x[2] \in DOMAIN rows[x[1]]
    BY <2>1 DEF DoomedOk, IInv
  <2>3. x[3] # None
    <3>1. rooms \in Seq(BOOLEAN)
      BY TypeParts DEF IInv
    <3> QED
      BY <2>2, <3>1, NoneAssumption, LenProperties
  <2> QED
    BY <1>1, <2>1, <2>2, <2>3 DEF ListedOk, ConfsStay, Row
<1>3. ASSUME deleter'[d].pc = "deleted"
      PROVE  LET row == rows'[deleter'[d].current[1]][deleter'[d].current[2]]
             IN  row.conf # None /\ ~ rooms'[row.conf]
  <2> DEFINE h == deleter[d].current[1]
             n == deleter[d].current[2]
  <2>1. deleter'[d] = deleter[d] /\ deleter[d].pc = "deleted"
    BY <1>3
  <2>2. deleter[d].current \in Hearings \X (1..MaxRows)
    BY <1>1, <2>1 DEF CurrentOk, DeleterRecords
  <2>3. h \in Hearings /\ n \in DOMAIN rows[h]
    BY <1>1, <2>1, <2>2 DEF CurrentOk
  <2>4. rows[h][n].conf # None /\ ~ rooms[rows[h][n].conf]
    BY <1>1, <2>1 DEF ListedOk, Row
  <2>5. rows[h][n].conf \in DOMAIN rooms
    BY <1>1, <2>3, <2>4, ConfOfRow
  <2>6. rows'[h][n].conf = rows[h][n].conf
    BY <2>3, <2>4 DEF ConfsStay
  <2>7. ~ rooms'[rows[h][n].conf]
    BY <2>4, <2>5 DEF RoomsStay
  <2> QED
    BY <2>1, <2>4, <2>6, <2>7
<1> QED
  BY <1>2, <1>3 DEF ListedOk, Row

\* An execution that does not move, while the conference of its row stays.
LEMMA ConfStays ==
    ASSUME IInv, Account, NEW w \in Creators, creator'[w] = creator[w],
           creator[w].pc # "idle" =>
               rows'[creator[w].hearing][creator[w].row].conf
                   = rows[creator[w].hearing][creator[w].row].conf
    PROVE  CreatorConf(w)'
BY DEF Account, CreatorConf, Row

\* Rooms stay known and no other is created: not one more is unknown.
LEMMA UnknownStays ==
    ASSUME IInv, Account, ConfsStay, faults \in Nat, faults' \in Nat, faults <= faults',
           \A c \in DOMAIN rooms' : rooms'[c] => Known(c)' \/ (c \in DOMAIN rooms /\ rooms[c]),
           \A c : c # None /\ (\E w \in Creators : creator[w].conf = c) => Known(c)'
    PROVE  Cardinality(Unknown') <= faults'
<1>1. rooms \in Seq(BOOLEAN)
  BY TypeParts DEF IInv
<1>2. None \notin DOMAIN rooms
  BY <1>1, NoneAssumption, LenProperties
<1>3. ASSUME NEW c \in DOMAIN rooms, Known(c)
      PROVE  Known(c)'
  <2>1. ASSUME NEW h \in Hearings, NEW n \in DOMAIN rows[h], Row(h, n).conf = c
        PROVE  Known(c)'
    <3>1. n \in DOMAIN rows'[h] /\ rows'[h][n].conf = c
      BY <1>2, <2>1 DEF ConfsStay, Row
    <3> QED
      BY <3>1 DEF Known, Row
  <2> QED
    BY <1>2, <1>3, <2>1 DEF Known
<1>4. Unknown' \subseteq Unknown
  BY <1>3 DEF Unknown
<1>5. IsFiniteSet(Unknown) /\ Cardinality(Unknown) \in Nat
  BY UnknownFinite DEF IInv
<1>6. /\ Cardinality(Unknown') <= Cardinality(Unknown)
      /\ Cardinality(Unknown') \in Nat
  BY <1>4, <1>5, FS_Subset, FS_CardinalityType
<1> QED
  BY <1>5, <1>6 DEF Account

\* Requests, emails and hearings: conferences stay in their rows.
LEMMA RoomsUntouched ==
    ASSUME IInv, IInv', Account, UNCHANGED <<rooms, creator>>, faults <= faults', MarkedOk,
           \A h \in Hearings :
               /\ DOMAIN rows[h] \subseteq DOMAIN rows'[h]
               /\ \A n \in DOMAIN rows[h] : rows'[h][n].conf = rows[h][n].conf,
           \A d \in Deleters :
               \/ ListedOk(d)'
               \/ /\ deleter'[d].rooms \subseteq deleter[d].rooms
                  /\ deleter'[d].pc = "deleted" => deleter'[d] = deleter[d]
    PROVE  Account'
<1>1. ConfsStay /\ RoomsStay
  BY DEF ConfsStay, RoomsStay
<1>2. \A w \in Creators : CreatorConf(w)'
  <2> TAKE w \in Creators
  <2>1. creator[w].pc # "idle" =>
            /\ creator[w].hearing \in Hearings
            /\ creator[w].row \in DOMAIN rows[creator[w].hearing]
    BY DEF IInv, CreatorOk
  <2> QED
    BY <2>1, ConfStays
<1>3. faults \in Nat /\ faults' \in Nat
  BY BoundsAssumption DEF IInv, TypeOK
<1>4. Cardinality(Unknown') <= faults'
  <2>1. \A c \in DOMAIN rooms' : rooms'[c] => c \in DOMAIN rooms /\ rooms[c]
    OBVIOUS
  <2>2. \A c : (\E w \in Creators : creator[w].conf = c) => Known(c)'
    BY DEF Known
  <2> QED
    BY <1>1, <1>3, <2>1, <2>2, UnknownStays
<1> QED
  BY <1>1, <1>2, <1>4, DeletedStays, ListedStays DEF Account

-----------------------------------------------------------------------------
(* Rooms and the steps *)

\* The conferences of the rows stay.
RowsKept ==
    \A h \in Hearings :
        /\ DOMAIN rows[h] \subseteq DOMAIN rows'[h]
        /\ \A n \in DOMAIN rows[h] : rows'[h][n].conf = rows[h][n].conf

LEMMA SameRows == ASSUME rows' = rows PROVE RowsKept /\ MarkedOk
BY DEF RowsKept, MarkedOk

LEMMA OneRowChanged ==
    ASSUME TypeOK, NEW h \in Hearings, NEW n \in DOMAIN rows[h], NEW e \in RowsOver(DOMAIN rooms),
           rows' = [rows EXCEPT ![h] = [rows[h] EXCEPT ![n] = e]],
           e.conf = rows[h][n].conf,
           e.deleted => \/ rows[h][n].deleted
                        \/ rows[h][n].conf # None /\ ~ rooms[rows[h][n].conf]
    PROVE  RowsKept /\ MarkedOk
<1>1. rows \in [Hearings -> Seq(RowsOver(DOMAIN rooms))]
  BY TypeParts
<1>2. /\ \A g \in Hearings : DOMAIN rows'[g] = DOMAIN rows[g]
      /\ \A g \in Hearings : \A m \in DOMAIN rows[g] :
            rows'[g][m] = IF g = h /\ m = n THEN e ELSE rows[g][m]
  BY <1>1, RowReplaced
<1> QED
  BY <1>2 DEF RowsKept, MarkedOk

\* Requests give rows no conference and take none.
LEMMA FormsKeepRows ==
    ASSUME IInv, NEW f \in Forms,
           Submit(f) \/ \E h \in Hearings, kind \in Kinds : BeginEdit(f, h, kind)
    PROVE  /\ RowsKept /\ MarkedOk
           /\ UNCHANGED <<rooms, creator, deleter, faults>>
<1> DEFINE h == form[f].hearing
<1>0. /\ rows \in [Hearings -> Seq(RowsOver(DOMAIN rooms))] /\ TypeOK
      /\ \A g \in Hearings : Latest(g) \in Nat
      /\ \A g \in Hearings : DOMAIN rows[g] = 1..Latest(g)
  BY TypeParts, LenProperties DEF IInv, Latest
<1>1. CASE \E g \in Hearings, kind \in Kinds : BeginEdit(f, g, kind)
  BY <1>1, SameRows DEF BeginEdit
<1>2. CASE SetFlags(f)
  BY <1>2, SameRows DEF SetFlags
<1>3. CASE CommitEdit(f)
  <2> DEFINE n == form[f].found
             kind == form[f].kind
             e == IF kind = "cancel" THEN [rows[h][n] EXCEPT !.cancelled = TRUE]
                  ELSE [rows[h][n] EXCEPT !.processed = FALSE]
             new == [NewRow EXCEPT !.cancelled = kind = "cancel"]
  <2>1. h \in Hearings /\ (n # None => n \in DOMAIN rows[h])
    BY <1>3 DEF CommitEdit, FormOk, IInv
  <2>2. UNCHANGED <<rooms, creator, deleter, faults>>
    BY <1>3 DEF CommitEdit
  <2>3. \/ rows' = rows
        \/ n = None /\ rows' = [rows EXCEPT ![h] = Append(rows[h], new)]
        \/ n # None /\ rows' = [rows EXCEPT ![h] = [rows[h] EXCEPT ![n] = e]]
    BY <1>3 DEF CommitEdit
  <2>4. n # None => /\ e \in RowsOver(DOMAIN rooms) /\ e.conf = rows[h][n].conf
                    /\ e.deleted = rows[h][n].deleted
    <3>1. n # None => rows[h][n] \in RowsOver(DOMAIN rooms)
      BY <1>0, <2>1, ConfOfRow
    <3> QED
      BY <3>1 DEF RowsOver
  <2>5. new \in RowsOver(DOMAIN rooms) /\ ~ new.deleted
    BY DEF RowsOver, NewRow
  <2> HIDE DEF h, n, e, new
  <2>6. CASE rows' = rows
    BY <2>2, <2>6, SameRows
  <2>7. CASE n # None /\ rows' = [rows EXCEPT ![h] = [rows[h] EXCEPT ![n] = e]]
    BY <1>0, <2>1, <2>2, <2>4, <2>7, OneRowChanged
  <2>8. CASE rows' = [rows EXCEPT ![h] = Append(rows[h], new)]
    <3>1. /\ \A g \in Hearings : DOMAIN rows[g] \subseteq DOMAIN rows'[g]
          /\ \A g \in Hearings : \A m \in DOMAIN rows[g] : rows'[g][m] = rows[g][m]
          /\ \A g \in Hearings : \A m \in DOMAIN rows'[g] :
                m \in DOMAIN rows[g] \/ (g = h /\ rows'[g][m] = new)
      BY <1>0, <2>1, <2>5, <2>8, RowAdded
    <3> QED
      BY <2>2, <2>5, <3>1 DEF RowsKept, MarkedOk
  <2> QED
    BY <2>3, <2>6, <2>7, <2>8
<1>4. CASE StartJob(f)
  <2> DEFINE n == Latest(h)
             e == [rows[h][n] EXCEPT !.processed = FALSE]
  <2>1. h \in Hearings
    BY <1>4 DEF StartJob, FormOk, IInv
  <2>2. UNCHANGED <<rooms, creator, deleter, faults>>
    BY <1>4 DEF StartJob
  <2>3. \/ rows' = rows
        \/ n # 0 /\ rows' = [rows EXCEPT ![h] = [rows[h] EXCEPT ![n] = e]]
    BY <1>4 DEF StartJob
  <2>4. n # 0 => /\ n \in DOMAIN rows[h] /\ e \in RowsOver(DOMAIN rooms)
                 /\ e.conf = rows[h][n].conf /\ e.deleted = rows[h][n].deleted
    <3>1. n # 0 => n \in DOMAIN rows[h]
      BY <1>0, <2>1
    <3>2. n # 0 => rows[h][n] \in RowsOver(DOMAIN rooms)
      BY <1>0, <2>1, <3>1, ConfOfRow
    <3> QED
      BY <3>1, <3>2 DEF RowsOver
  <2> HIDE DEF h, n, e
  <2> QED
    BY <1>0, <2>1, <2>2, <2>3, <2>4, SameRows, OneRowChanged
<1> QED
  BY <1>1, <1>2, <1>3, <1>4 DEF Submit

LEMMA RequestsAccount ==
    ASSUME IInv, IInv', Account,
           \/ \E h \in Hearings : Rerun(h) \/ \E to \in {"past", "postponed"} : EndHearing(h, to)
           \/ \E f \in Forms : Submit(f) \/ \E h \in Hearings, kind \in Kinds : BeginEdit(f, h, kind)
           \/ UNCHANGED vars
    PROVE  Account'
<1>1. faults \in Nat
  BY BoundsAssumption DEF IInv, TypeOK
<1>2. RowsKept /\ MarkedOk /\ UNCHANGED <<rooms, creator, deleter, faults>>
  BY FormsKeepRows, SameRows DEF Rerun, EndHearing, vars
<1> QED
  BY <1>1, <1>2, RoomsUntouched DEF RowsKept

\* An execution that deletes nothing now.
LEMMA DeleterQuiet ==
    ASSUME IInv, IInv', Account, NEW d \in Deleters, NEW e, deleter' = [deleter EXCEPT ![d] = e],
           e.rooms \subseteq deleter[d].rooms, e.pc # "deleted",
           UNCHANGED <<rows, rooms, creator>>, faults <= faults'
    PROVE  Account'
<1>1. \A k \in Deleters : /\ deleter'[k].rooms \subseteq deleter[k].rooms
                          /\ deleter'[k].pc = "deleted" => deleter'[k] = deleter[k]
  <2>1. deleter'[d] = e /\ \A k \in Deleters \ {d} : deleter'[k] = deleter[k]
    BY TypeParts DEF IInv
  <2> QED
    BY <2>1
<1> QED
  BY <1>1, SameRows, RoomsUntouched DEF RowsKept

LEMMA MailsAccount ==
    ASSUME IInv, IInv', Account, NEW d \in Deleters,
           \/ BeginDelete(d) \/ SendCancellation(d) \/ MarkCancellation(d) \/ EndMail(d)
           \/ \E x \in deleter[d].mails : TakeMail(d, x)
           \/ EndDelete(d) \/ FailDelete(d)
           \/ \E x \in deleter[d].rooms : FailRoom(d, x)
    PROVE  Account'
<1>1. faults \in Nat /\ deleter[d] \in DeleterRecords(DOMAIN rooms)
  BY TypeParts, BoundsAssumption DEF IInv
<1>2. UNCHANGED <<rows, rooms, creator>> /\ faults' \in {faults, faults + 1}
  BY Zenon DEF BeginDelete, SendCancellation, MarkCancellation, EndMail, TakeMail, EndDelete, FailDelete, FailRoom
<1>3. \E e : /\ deleter' = [deleter EXCEPT ![d] = e]
             /\ e.rooms \subseteq deleter[d].rooms /\ e.pc # "deleted"
  <2> DEFINE q == deleter[d]
             r == First(q.todo)
  <2>1. CASE BeginDelete(d)
    <3> DEFINE e == [[NoDeleter EXCEPT !.mails = CancelledWithPendingEmails] EXCEPT !.pc = "mails"]
    <3>1. e.rooms = {} /\ e.pc = "mails"
      BY DEF NoDeleter
    <3>2. deleter' = [deleter EXCEPT ![d] = e]
      BY <2>1 DEF BeginDelete, Proceed
    <3> HIDE DEF e
    <3> QED BY <3>1, <3>2
  <2>2. CASE SendCancellation(d)
    <3> DEFINE e == IF sent[q.current[1]][r] THEN [[q EXCEPT !.todo = @ \ {r}] EXCEPT !.pc = "mail"]
                    ELSE [q EXCEPT !.pc = "sent"]
    <3>1. e.rooms = q.rooms /\ e.pc \in {"mail", "sent"}
      BY <1>1 DEF DeleterRecords
    <3>2. deleter' = [deleter EXCEPT ![d] = e]
      BY <2>2 DEF SendCancellation, Proceed
    <3> HIDE DEF e
    <3> QED BY <3>1, <3>2
  <2>3. CASE MarkCancellation(d)
    <3> DEFINE e == [[q EXCEPT !.todo = @ \ {r}] EXCEPT !.pc = "mail"]
    <3>1. e.rooms = q.rooms /\ e.pc = "mail"
      BY <1>1 DEF DeleterRecords
    <3>2. deleter' = [deleter EXCEPT ![d] = e]
      BY <2>3 DEF MarkCancellation, Proceed
    <3> HIDE DEF e
    <3> QED BY <3>1, <3>2
  <2>4. CASE EndMail(d)
    <3> DEFINE e == [[q EXCEPT !.current = None] EXCEPT !.pc = "mails"]
    <3>1. e.rooms = q.rooms /\ e.pc = "mails"
      BY <1>1 DEF DeleterRecords
    <3>2. deleter' = [deleter EXCEPT ![d] = e]
      BY <2>4 DEF EndMail, Proceed
    <3> HIDE DEF e
    <3> QED BY <3>1, <3>2
  <2>5. ASSUME NEW x \in q.mails, TakeMail(d, x)
        PROVE  \E e : /\ deleter' = [deleter EXCEPT ![d] = e]
                      /\ e.rooms \subseteq deleter[d].rooms /\ e.pc # "deleted"
    <3> DEFINE e == IF status[x[1]] = "postponed"
                    THEN [[q EXCEPT !.mails = @ \ {x}] EXCEPT !.pc = "mails"]
                    ELSE [[q EXCEPT !.mails = @ \ {x}, !.current = x,
                                    !.todo = Addressed \ {"judge"}] EXCEPT !.pc = "mail"]
    <3>1. e.rooms = q.rooms /\ e.pc \in {"mail", "mails"}
      BY <1>1 DEF DeleterRecords
    <3>2. deleter' = [deleter EXCEPT ![d] = e]
      BY <2>5, Zenon DEF TakeMail, Proceed
    <3> HIDE DEF e
    <3> QED BY <3>1, <3>2
  <2>6. CASE EndDelete(d) \/ FailDelete(d)
    <3>1. deleter' = [deleter EXCEPT ![d] = NoDeleter]
      BY <2>6 DEF EndDelete, FailDelete
    <3>2. NoDeleter.rooms = {} /\ NoDeleter.pc = "idle"
      BY DEF NoDeleter
    <3> QED BY <3>1, <3>2
  <2>7. ASSUME NEW x \in q.rooms, FailRoom(d, x)
        PROVE  \E e : /\ deleter' = [deleter EXCEPT ![d] = e]
                      /\ e.rooms \subseteq deleter[d].rooms /\ e.pc # "deleted"
    <3> DEFINE e == [[q EXCEPT !.rooms = @ \ {x}] EXCEPT !.pc = "rooms"]
    <3>1. e.rooms \subseteq q.rooms /\ e.pc = "rooms"
      BY <1>1 DEF DeleterRecords
    <3>2. deleter' = [deleter EXCEPT ![d] = e]
      BY <2>7, Zenon DEF FailRoom, Proceed
    <3> HIDE DEF e
    <3> QED BY <3>1, <3>2
  <2> QED
    BY <2>1, <2>2, <2>3, <2>4, <2>5, <2>6, <2>7
<1>4. faults <= faults'
  BY <1>1, <1>2
<1>5. PICK e : /\ deleter' = [deleter EXCEPT ![d] = e]
               /\ e.rooms \subseteq deleter[d].rooms /\ e.pc # "deleted"
  BY <1>3, Zenon
<1> QED
  BY <1>2, <1>4, <1>5, DeleterQuiet, Zenon

LEMMA ListRoomsAccounts ==
    ASSUME IInv, IInv', Account, NEW d \in Deleters, ListRooms(d)
    PROVE  Account'
<1> DEFINE listed == {<<x[1], x[2], rows[x[1]][x[2]].conf>> : x \in ReadyForDeletion}
           e == [[deleter[d] EXCEPT !.rooms = listed] EXCEPT !.pc = "rooms"]
<1>1. faults \in Nat /\ deleter \in [Deleters -> DeleterRecords(DOMAIN rooms)]
  BY TypeParts, BoundsAssumption DEF IInv
<1>2. \A y \in listed : Row(y[1], y[2]).conf = y[3]
  BY DEF Row
<1> HIDE DEF listed
<1>3. e.rooms = listed /\ e.pc = "rooms"
  BY <1>1 DEF DeleterRecords
<1>4. deleter' = [deleter EXCEPT ![d] = e] /\ UNCHANGED <<rows, rooms, creator, faults>>
  BY DEF ListRooms, Proceed, listed
<1> HIDE DEF e
<1>5. deleter'[d] = e /\ \A k \in Deleters \ {d} : deleter'[k] = deleter[k]
  BY <1>1, <1>4
<1>6. ListedOk(d)'
  BY <1>2, <1>3, <1>4, <1>5 DEF ListedOk, Row
<1>7. \A k \in Deleters :
          \/ ListedOk(k)'
          \/ /\ deleter'[k].rooms \subseteq deleter[k].rooms
             /\ deleter'[k].pc = "deleted" => deleter'[k] = deleter[k]
  BY <1>5, <1>6
<1> QED
  BY <1>1, <1>4, <1>7, SameRows, RoomsUntouched DEF RowsKept

\* A row is marked once its room is gone.
LEMMA MarkDeletedAccounts ==
    ASSUME IInv, IInv', Account, NEW d \in Deleters, MarkDeleted(d)
    PROVE  Account'
<1> DEFINE h == deleter[d].current[1]
           n == deleter[d].current[2]
           e == [rows[h][n] EXCEPT !.deleted = TRUE]
           q == [[deleter[d] EXCEPT !.current = None] EXCEPT !.pc = "rooms"]
<1>1. faults \in Nat /\ deleter \in [Deleters -> DeleterRecords(DOMAIN rooms)] /\ TypeOK
  BY TypeParts, BoundsAssumption DEF IInv
<1>2. /\ deleter[d].pc = "deleted" /\ UNCHANGED <<rooms, creator, faults>>
      /\ rows' = [rows EXCEPT ![h] = [rows[h] EXCEPT ![n] = e]]
      /\ deleter' = [deleter EXCEPT ![d] = q]
  BY DEF MarkDeleted, Proceed
<1>3. h \in Hearings /\ n \in DOMAIN rows[h]
  <2>1. deleter[d].current \in Hearings \X (1..MaxRows) /\ n \in DOMAIN rows[h]
    BY <1>1, <1>2 DEF CurrentOk, DeleterRecords, IInv
  <2> QED
    BY <2>1
<1>4. rows[h][n].conf # None /\ ~ rooms[rows[h][n].conf]
  BY <1>2 DEF Account, ListedOk, Row
<1>5. e \in RowsOver(DOMAIN rooms) /\ e.conf = rows[h][n].conf
  <2>1. rows[h][n] \in RowsOver(DOMAIN rooms)
    BY <1>1, <1>3, ConfOfRow
  <2> QED
    BY <2>1 DEF RowsOver
<1>6. q.rooms = deleter[d].rooms /\ q.pc = "rooms"
  BY <1>1 DEF DeleterRecords
<1> HIDE DEF h, n, e, q
<1>7. RowsKept /\ MarkedOk
  BY <1>1, <1>2, <1>3, <1>4, <1>5, OneRowChanged
<1>8. \A k \in Deleters : /\ deleter'[k].rooms \subseteq deleter[k].rooms
                          /\ deleter'[k].pc = "deleted" => deleter'[k] = deleter[k]
  <2>1. deleter'[d] = q /\ \A k \in Deleters \ {d} : deleter'[k] = deleter[k]
    BY <1>1, <1>2
  <2> QED
    BY <1>6, <2>1
<1> QED
  BY <1>1, <1>2, <1>7, <1>8, RoomsUntouched DEF RowsKept

LEMMA DeleteRoomAccounts ==
    ASSUME IInv, IInv', Account, NEW d \in Deleters, NEW x \in deleter[d].rooms, DeleteRoom(d, x)
    PROVE  Account'
<1> DEFINE e == [[deleter[d] EXCEPT !.rooms = @ \ {x}, !.current = <<x[1], x[2]>>]
                     EXCEPT !.pc = "deleted"]
<1>1. /\ faults \in Nat /\ deleter \in [Deleters -> DeleterRecords(DOMAIN rooms)]
      /\ rooms \in Seq(BOOLEAN) /\ TypeOK
  BY TypeParts, BoundsAssumption DEF IInv
<1>2. /\ deleter' = [deleter EXCEPT ![d] = e] /\ rooms' = [rooms EXCEPT ![x[3]] = FALSE]
      /\ UNCHANGED <<rows, creator, faults>>
  BY DEF DeleteRoom, Proceed
<1>3. x[1] \in Hearings /\ x[3] \in DOMAIN rooms
  <2>1. x \in Hearings \X (1..MaxRows) \X DOMAIN rooms
    BY <1>1 DEF DeleterRecords
  <2> QED
    BY <2>1
<1>4. e.rooms \subseteq deleter[d].rooms /\ e.pc = "deleted" /\ e.current = <<x[1], x[2]>>
  BY <1>1 DEF DeleterRecords
<1> HIDE DEF e
<1>5. deleter'[d] = e /\ \A k \in Deleters \ {d} : deleter'[k] = deleter[k]
  BY <1>1, <1>2
<1>6. rooms'[x[3]] = FALSE /\ RoomsStay /\ DOMAIN rooms' = DOMAIN rooms
  BY <1>1, <1>2, <1>3 DEF RoomsStay
<1>7. ConfsStay /\ MarkedOk
  BY <1>2, SameRows DEF ConfsStay
<1>8. x[2] \in DOMAIN rows[x[1]] /\ rows[x[1]][x[2]].conf = x[3] /\ x[3] # None
  <2>1. x[2] \in DOMAIN rows[x[1]] /\ rows[x[1]][x[2]].conf = x[3]
    BY DEF IInv, DoomedOk, Account, ListedOk, Row
  <2>2. None \notin DOMAIN rooms
    BY <1>1, NoneAssumption, LenProperties
  <2> QED
    BY <1>3, <2>1, <2>2
<1>9. ListedOk(d)'
  <2>1. \A y \in e.rooms : rows[y[1]][y[2]].conf = y[3]
    BY <1>4 DEF Account, ListedOk, Row
  <2>2. e.current[1] = x[1] /\ e.current[2] = x[2]
    BY <1>4
  <2> QED
    BY <1>2, <1>5, <1>6, <1>8, <2>1, <2>2 DEF ListedOk, Row
<1>10. \A k \in Deleters : ListedOk(k)'
  BY <1>5, <1>6, <1>7, <1>9, ListedStays
<1>11. \A w \in Creators : CreatorConf(w)'
  BY <1>2, ConfStays
<1>12. Cardinality(Unknown') <= faults'
  <2>1. \A c \in DOMAIN rooms' : rooms'[c] => c \in DOMAIN rooms /\ rooms[c]
    BY <1>6 DEF RoomsStay
  <2>2. \A c : (\E w \in Creators : creator[w].conf = c) => Known(c)'
    BY <1>2 DEF Known
  <2> QED
    BY <1>1, <1>2, <1>7, <2>1, <2>2, UnknownStays
<1> QED
  BY <1>6, <1>7, <1>10, <1>11, <1>12, DeletedStays DEF Account

\* An execution goes on or is over, and its conference, if it has one, is in
\* its row.
LEMMA CreatorAccounts ==
    ASSUME IInv, IInv', Account, NEW w \in Creators, creator[w].pc # "record",
           NEW e, creator' = [creator EXCEPT ![w] = e], CreatorConf(w)',
           UNCHANGED <<rooms, deleter>>, RowsKept, MarkedOk, faults <= faults'
    PROVE  Account'
<1>1. /\ faults \in Nat /\ faults' \in Nat
      /\ creator'[w] = e /\ \A v \in Creators \ {w} : creator'[v] = creator[v]
  BY TypeParts, BoundsAssumption DEF IInv, TypeOK
<1>2. ConfsStay /\ RoomsStay
  BY DEF ConfsStay, RoomsStay, RowsKept
<1>3. \A v \in Creators : creator[v].pc # "idle" =>
          /\ creator[v].hearing \in Hearings
          /\ creator[v].row \in DOMAIN rows[creator[v].hearing]
  BY DEF IInv, CreatorOk
<1>4. \A v \in Creators : CreatorConf(v)'
  <2>1. \A v \in Creators \ {w} : CreatorConf(v)'
    BY <1>1, <1>3, ConfStays DEF RowsKept
  <2> QED
    BY <2>1
<1>5. Cardinality(Unknown') <= faults'
  <2>1. \A c \in DOMAIN rooms' : rooms'[c] => c \in DOMAIN rooms /\ rooms[c]
    OBVIOUS
  <2>2. ASSUME NEW c, c # None, NEW v \in Creators, creator[v].conf = c
        PROVE  Known(c)'
    <3>1. CASE v # w
      BY <1>1, <2>2, <3>1 DEF Known
    <3>2. CASE v = w
      <4>1. creator[w] \in CreatorRecords(DOMAIN rooms) /\ CreatorConf(w)
        BY TypeParts DEF IInv, Account
      <4>2. creator[w].pc \in {"mail", "sent", "establish"}
        BY <2>2, <3>2, <4>1 DEF CreatorConf, CreatorRecords
      <4>3. rows[creator[w].hearing][creator[w].row].conf = c
        BY <2>2, <3>2, <4>1, <4>2 DEF CreatorConf, Row
      <4> QED
        BY <1>3, <4>2, <4>3 DEF RowsKept, Known, Row
    <3> QED
      BY <3>1, <3>2
  <2> QED
    BY <1>1, <1>2, <2>1, <2>2, UnknownStays
<1>6. \A d \in Deleters : ListedOk(d)'
  BY <1>2, ListedStays
<1> QED
  BY <1>2, <1>4, <1>5, <1>6, DeletedStays DEF Account

\* What an execution that has its conference becomes.
LEMMA ConfGoesOn ==
    ASSUME IInv, Account, NEW w \in Creators, creator[w].pc \in {"mail", "sent", "establish"},
           RowsKept, NEW e,
           creator'[w] = e,
           \/ e = NoCreator
           \/ /\ e.pc \in {"mail", "sent", "establish"}
              /\ e.conf = creator[w].conf /\ e.hearing = creator[w].hearing /\ e.row = creator[w].row
    PROVE  CreatorConf(w)'
<1>1. CASE e = NoCreator
  BY <1>1 DEF CreatorConf, NoCreator
<1>2. CASE /\ e.pc \in {"mail", "sent", "establish"}
           /\ e.conf = creator[w].conf /\ e.hearing = creator[w].hearing /\ e.row = creator[w].row
  <2>1. CreatorConf(w)
    BY DEF Account
  <2>2. /\ creator[w].hearing \in Hearings
        /\ creator[w].row \in DOMAIN rows[creator[w].hearing]
    BY DEF IInv, CreatorOk
  <2> QED
    BY <1>2, <2>1, <2>2 DEF CreatorConf, RowsKept, Row
<1> QED
  BY <1>1, <1>2

LEMMA EstablishKeepsRows ==
    ASSUME IInv, NEW w \in Creators, Establish(w)
    PROVE  RowsKept /\ MarkedOk
<1> DEFINE h == creator[w].hearing
           n == creator[w].row
           e == [rows[h][n] EXCEPT !.processed = TRUE]
<1>1. h \in Hearings /\ n \in DOMAIN rows[h] /\ TypeOK
  BY DEF IInv, CreatorOk, Establish
<1>2. rows' = rows \/ rows' = [rows EXCEPT ![h] = [rows[h] EXCEPT ![n] = e]]
  BY DEF Establish
<1>3. rows[h][n] \in RowsOver(DOMAIN rooms)
  BY <1>1, ConfOfRow
<1>4. /\ e \in RowsOver(DOMAIN rooms) /\ e.conf = rows[h][n].conf
      /\ e.deleted = rows[h][n].deleted
  BY <1>3 DEF RowsOver
<1> HIDE DEF h, n, e
<1> QED
  BY <1>1, <1>2, <1>4, SameRows, OneRowChanged

\* Emails are sent, and the conference is established.
LEMMA EmailsAccount ==
    ASSUME IInv, IInv', Account, NEW w \in Creators,
           Send(w) \/ MarkSent(w) \/ FailSend(w) \/ CheckEstablished(w) \/ Establish(w)
    PROVE  Account'
<1> DEFINE q == creator[w]
           less == [q EXCEPT !.todo = @ \ {First(q.todo)}]
<1>1. faults \in Nat /\ q \in CreatorRecords(DOMAIN rooms)
  BY TypeParts, BoundsAssumption DEF IInv
<1>2. /\ UNCHANGED <<rooms, deleter>> /\ faults' \in {faults, faults + 1}
      /\ q.pc \in {"mail", "sent", "establish"}
  BY DEF Send, MarkSent, FailSend, CheckEstablished, Establish
<1>3. RowsKept /\ MarkedOk
  <2>1. CASE Establish(w)
    BY <2>1, EstablishKeepsRows
  <2>2. CASE Send(w) \/ MarkSent(w) \/ FailSend(w) \/ CheckEstablished(w)
    BY <2>2, SameRows DEF Send, MarkSent, FailSend, CheckEstablished
  <2> QED
    BY <2>1, <2>2
<1>4. PICK e : creator' = [creator EXCEPT ![w] = e] /\
          e \in {NoCreator, [less EXCEPT !.pc = "mail"], [q EXCEPT !.pc = "sent"],
                 [q EXCEPT !.pc = "establish"]}
  <2>1. CASE Send(w)
    BY <2>1, Zenon DEF Send, GoOn
  <2>2. CASE MarkSent(w) \/ FailSend(w)
    BY <2>2, Zenon DEF MarkSent, FailSend, GoOn
  <2>3. CASE CheckEstablished(w) \/ Establish(w)
    BY <2>3, Zenon DEF CheckEstablished, Establish, GoOn, Stop
  <2> QED
    BY <2>1, <2>2, <2>3
<1>5. \/ e = NoCreator
      \/ /\ e.pc \in {"mail", "sent", "establish"}
         /\ e.conf = q.conf /\ e.hearing = q.hearing /\ e.row = q.row
  BY <1>1, <1>4 DEF CreatorRecords
<1>6. creator'[w] = e
  BY <1>4, TypeParts DEF IInv
<1>7. CreatorConf(w)'
  BY <1>2, <1>3, <1>5, <1>6, ConfGoesOn
<1>8. faults <= faults' /\ q.pc # "record"
  BY <1>1, <1>2
<1> HIDE DEF q, less
<1> QED
  BY <1>2, <1>3, <1>4, <1>7, <1>8, CreatorAccounts DEF q

LEMMA BeginCreateAccounts ==
    ASSUME IInv, IInv', Account, NEW w \in Creators, NEW h \in Hearings, BeginCreate(w, h)
    PROVE  Account'
<1> DEFINE row == rows[h][Latest(h)]
           new == [NoCreator EXCEPT !.hearing = h, !.row = Latest(h), !.conf = row.conf,
                                    !.processed = row.processed, !.todo = Addressed]
           e == IF ~ Virtual(h) THEN NoCreator
                ELSE [new EXCEPT !.pc = IF Active(row) THEN "mail" ELSE "create"]
<1>1. faults \in Nat /\ creator \in [Creators -> CreatorRecords(DOMAIN rooms)]
  BY TypeParts, BoundsAssumption DEF IInv
<1>2. /\ creator[w].pc = "idle" /\ creator' = [creator EXCEPT ![w] = e]
      /\ UNCHANGED <<rows, rooms, deleter, faults>>
  BY DEF BeginCreate, GoOn, Stop
<1>3. \/ e = NoCreator
      \/ /\ e.hearing = h /\ e.row = Latest(h) /\ e.conf = row.conf
         /\ IF Active(row) THEN e.pc = "mail" ELSE e.pc = "create"
  BY DEF NoCreator
<1> HIDE DEF e, new
<1>4. creator'[w] = e
  BY <1>1, <1>2
<1>5. CreatorConf(w)'
  BY <1>2, <1>3, <1>4 DEF CreatorConf, Active, Row, NoCreator
<1>6. faults <= faults' /\ creator[w].pc # "record"
  BY <1>1, <1>2
<1> QED
  BY <1>2, <1>5, <1>6, SameRows, CreatorAccounts

\* A reply that is lost leaves one more room that nobody knows.
LEMMA FailCreateAccounts ==
    ASSUME IInv, IInv', Account, NEW w \in Creators, FailCreate(w)
    PROVE  Account'
<1>1. faults \in Nat /\ creator \in [Creators -> CreatorRecords(DOMAIN rooms)]
  BY TypeParts, BoundsAssumption DEF IInv
<1>2. /\ creator' = [creator EXCEPT ![w] = NoCreator] /\ faults' = faults + 1
      /\ UNCHANGED <<rows, rooms, deleter>>
  BY Zenon DEF FailCreate, Stop
<1>3. creator'[w] = NoCreator /\ \A v \in Creators \ {w} : creator'[v] = creator[v]
  BY <1>1, <1>2
<1>4. CreatorConf(w)'
  BY <1>3 DEF CreatorConf, NoCreator
<1>5. RowsKept /\ MarkedOk /\ ConfsStay /\ RoomsStay
  <2>1. RowsKept /\ MarkedOk /\ RoomsStay
    BY <1>2, SameRows DEF RoomsStay
  <2> QED
    BY <2>1 DEF RowsKept, ConfsStay
<1>6. CASE creator[w].pc # "record"
  <2>1. faults <= faults'
    BY <1>1, <1>2
  <2> QED
    BY <1>2, <1>4, <1>5, <1>6, <2>1, CreatorAccounts, Zenon
<1>7. CASE creator[w].pc = "record"
  <2> DEFINE c == creator[w].conf
  <2>1. Unknown' \subseteq Unknown \union {c}
    <3> SUFFICES ASSUME NEW k \in DOMAIN rooms, k # c, Known(k) PROVE Known(k)'
      BY <1>2 DEF Unknown
    <3> QED
      BY <1>2, <1>3 DEF Known, Row
  <2>2. IsFiniteSet(Unknown) /\ Cardinality(Unknown) \in Nat
    BY UnknownFinite DEF IInv
  <2>3. /\ IsFiniteSet(Unknown \union {c})
        /\ Cardinality(Unknown \union {c}) \in {Cardinality(Unknown), Cardinality(Unknown) + 1}
    BY <2>2, FS_AddElement
  <2>4. /\ Cardinality(Unknown') <= Cardinality(Unknown \union {c})
        /\ Cardinality(Unknown') \in Nat
    BY <2>1, <2>3, FS_Subset, FS_CardinalityType
  <2>5. Cardinality(Unknown) <= faults
    BY DEF Account
  <2>6. Cardinality(Unknown') <= faults'
    BY <1>1, <1>2, <2>2, <2>3, <2>4, <2>5
  <2>7. \A v \in Creators : CreatorConf(v)'
    <3>1. \A v \in Creators \ {w} : CreatorConf(v)'
      BY <1>2, <1>3, ConfStays
    <3> QED
      BY <1>4, <3>1
  <2>8. \A d \in Deleters : ListedOk(d)'
    BY <1>2, <1>5, ListedStays
  <2> QED
    BY <1>5, <2>6, <2>7, <2>8, DeletedStays DEF Account
<1> QED
  BY <1>6, <1>7

\* The new room is held by the execution that waits to record it.
LEMMA CreateAccounts ==
    ASSUME IInv, IInv', Account, NEW w \in Creators, Create(w)
    PROVE  Account'
<1> DEFINE c == Len(rooms) + 1
           e == [[creator[w] EXCEPT !.conf = c] EXCEPT !.pc = "record"]
<1>1. /\ faults \in Nat /\ creator \in [Creators -> CreatorRecords(DOMAIN rooms)]
      /\ rooms \in Seq(BOOLEAN)
  BY TypeParts, BoundsAssumption DEF IInv
<1>2. /\ creator[w].pc = "create" /\ creator' = [creator EXCEPT ![w] = e]
      /\ rooms' = Append(rooms, TRUE) /\ UNCHANGED <<rows, deleter, faults>>
  BY DEF Create, GoOn
<1>3. /\ DOMAIN rooms' = DOMAIN rooms \union {c} /\ \A k \in DOMAIN rooms : rooms'[k] = rooms[k]
  <2>1. Len(rooms) \in Nat /\ DOMAIN rooms = 1..Len(rooms)
    BY <1>1, LenProperties
  <2>2. DOMAIN rooms' = 1..(Len(rooms) + 1) /\ \A k \in 1..Len(rooms) : rooms'[k] = rooms[k]
    BY <1>1, <1>2
  <2> QED
    BY <2>1, <2>2
<1>4. e.pc = "record" /\ e.conf = c /\ e.hearing = creator[w].hearing /\ e.row = creator[w].row
  BY <1>1 DEF CreatorRecords
<1> HIDE DEF e, c
<1>5. creator'[w] = e /\ \A v \in Creators \ {w} : creator'[v] = creator[v]
  BY <1>1, <1>2
<1>6. creator[w].conf = None /\ Row(creator[w].hearing, creator[w].row).conf = None
  BY <1>2 DEF Account, CreatorConf
<1>7. ConfsStay /\ MarkedOk /\ RoomsStay
  <2>1. MarkedOk /\ RoomsStay
    BY <1>2, <1>3, SameRows DEF RoomsStay
  <2> QED
    BY <1>2, <2>1 DEF ConfsStay
<1>8. \A v \in Creators : CreatorConf(v)'
  <2>1. CreatorConf(w)'
    BY <1>2, <1>4, <1>5, <1>6 DEF CreatorConf, Row
  <2>2. \A v \in Creators \ {w} : CreatorConf(v)'
    BY <1>2, <1>5, ConfStays
  <2> QED
    BY <2>1, <2>2
<1>9. Cardinality(Unknown') <= faults'
  <2>1. \A k \in DOMAIN rooms' : rooms'[k] => k = c \/ (k \in DOMAIN rooms /\ rooms[k])
    BY <1>3
  <2>2. \A k : k # None /\ (\E v \in Creators : creator[v].conf = k) => Known(k)'
    BY <1>5, <1>6 DEF Known
  <2>3. \A k \in DOMAIN rooms' : rooms'[k] => Known(k)' \/ (k \in DOMAIN rooms /\ rooms[k])
    <3> SUFFICES ASSUME NEW k, k = c PROVE Known(k)'
      BY <2>1
    <3> QED
      BY <1>4, <1>5 DEF Known
  <2>4. faults' \in Nat /\ faults <= faults'
    BY <1>1, <1>2
  <2> QED
    BY <1>1, <1>7, <2>2, <2>3, <2>4, UnknownStays
<1>10. \A d \in Deleters : ListedOk(d)'
  BY <1>2, <1>7, ListedStays
<1> QED
  BY <1>7, <1>8, <1>9, <1>10, DeletedStays DEF Account

\* The room is recorded in a row that has none, and no other execution is for
\* that row.
LEMMA RecordAccounts ==
    ASSUME IInv, IInv', Account, Apart, NEW w \in Creators, Record(w)
    PROVE  Account'
<1> DEFINE h == creator[w].hearing
           n == creator[w].row
           c == creator[w].conf
           e == [rows[h][n] EXCEPT !.conf = c]
           q == [creator[w] EXCEPT !.pc = "mail"]
<1>1. /\ faults \in Nat /\ creator \in [Creators -> CreatorRecords(DOMAIN rooms)]
      /\ rows \in [Hearings -> Seq(RowsOver(DOMAIN rooms))] /\ TypeOK
  BY TypeParts, BoundsAssumption DEF IInv
<1>2. /\ creator[w].pc = "record" /\ creator' = [creator EXCEPT ![w] = q]
      /\ rows' = [rows EXCEPT ![h] = [rows[h] EXCEPT ![n] = e]]
      /\ UNCHANGED <<rooms, deleter, faults>>
  BY DEF Record, GoOn
<1>3. h \in Hearings /\ n \in DOMAIN rows[h] /\ rows[h][n].conf = None
  BY <1>2 DEF IInv, CreatorOk, Account, CreatorConf, Row
<1>4. /\ e \in RowsOver(DOMAIN rooms) /\ e.conf = c /\ e.deleted = rows[h][n].deleted
  <2>1. rows[h][n] \in RowsOver(DOMAIN rooms)
    BY <1>1, <1>3, ConfOfRow
  <2>2. c \in {None} \union DOMAIN rooms
    BY <1>1 DEF CreatorRecords
  <2> QED
    BY <2>1, <2>2 DEF RowsOver
<1>5. q.pc = "mail" /\ q.conf = c /\ q.hearing = h /\ q.row = n
  BY <1>1 DEF CreatorRecords
<1>6. \A v \in Creators \ {w} : creator[v].pc # "idle" => creator[v].hearing # h
  BY <1>2 DEF Apart
<1>7. creator[w].conf = c
  OBVIOUS
<1> HIDE DEF h, n, c, e, q
<1>8. creator'[w] = q /\ \A v \in Creators \ {w} : creator'[v] = creator[v]
  BY <1>1, <1>2
<1>9. /\ \A g \in Hearings : DOMAIN rows'[g] = DOMAIN rows[g]
      /\ \A g \in Hearings : \A m \in DOMAIN rows[g] :
            rows'[g][m] = IF g = h /\ m = n THEN e ELSE rows[g][m]
  BY <1>1, <1>2, <1>3, <1>4, RowReplaced
<1>10. ConfsStay /\ MarkedOk /\ RoomsStay
  <2>1. RoomsStay
    BY <1>2 DEF RoomsStay
  <2>2. ConfsStay
    BY <1>3, <1>9 DEF ConfsStay
  <2>3. MarkedOk
    BY <1>4, <1>9 DEF MarkedOk
  <2> QED
    BY <2>1, <2>2, <2>3
<1>11. \A v \in Creators : CreatorConf(v)'
  <2>1. CreatorConf(w)'
    BY <1>3, <1>4, <1>5, <1>8, <1>9 DEF CreatorConf, Row
  <2>2. ASSUME NEW v \in Creators \ {w} PROVE CreatorConf(v)'
    <3>1. creator[v].pc # "idle" =>
              rows'[creator[v].hearing][creator[v].row].conf
                  = rows[creator[v].hearing][creator[v].row].conf
      BY <1>6, <1>9 DEF IInv, CreatorOk
    <3> QED
      BY <1>8, <3>1, ConfStays
  <2> QED
    BY <2>1, <2>2
<1>12. Cardinality(Unknown') <= faults'
  <2>1. \A k \in DOMAIN rooms' : rooms'[k] => k \in DOMAIN rooms /\ rooms[k]
    BY <1>2
  <2>2. \A k : (\E v \in Creators : creator[v].conf = k) => Known(k)'
    BY <1>5, <1>7, <1>8 DEF Known
  <2>3. faults' \in Nat /\ faults <= faults'
    BY <1>1, <1>2
  <2> QED
    BY <1>1, <1>10, <2>1, <2>2, <2>3, UnknownStays
<1>13. \A d \in Deleters : ListedOk(d)'
  BY <1>2, <1>10, ListedStays
<1> QED
  BY <1>10, <1>11, <1>12, <1>13, DeletedStays DEF Account

LEMMA InitAccounts == Init => Account
<1> SUFFICES ASSUME Init PROVE Account
  OBVIOUS
<1>1. /\ \A h \in Hearings : DOMAIN rows[h] = {}
      /\ \A w \in Creators : creator[w].pc = "idle" /\ creator[w].conf = None
      /\ \A d \in Deleters : deleter[d].pc = "idle" /\ deleter[d].rooms = {}
      /\ rooms = <<>> /\ faults = 0
  BY DEF Init, NoCreator, NoDeleter
<1>2. Unknown = {}
  BY <1>1 DEF Unknown
<1>3. Cardinality(Unknown) = 0
  BY <1>2, FS_EmptySet
<1> QED
  BY <1>1, <1>3 DEF Account, CreatorConf, DeletedGone, ListedOk

-----------------------------------------------------------------------------
(* The theorems *)

\* With no rows, requests or executions, the invariant holds.
LEMMA InitInvariant == Init => IInv
<1> SUFFICES ASSUME Init PROVE IInv
  OBVIOUS
<1> USE DEF Init
<1>1. TypeOK
  <2>1. rows \in [Hearings -> Seq(RowsOver(DOMAIN rooms))] /\ \A h \in Hearings : Latest(h) = 0
    BY DEF Latest
  <2>2. /\ form \in [Forms -> FormRecords]
        /\ creator \in [Creators -> CreatorRecords(DOMAIN rooms)]
        /\ deleter \in [Deleters -> DeleterRecords(DOMAIN rooms)]
    BY DEF NoForm, NoCreator, NoDeleter, FormRecords, CreatorRecords, DeleterRecords
  <2> QED
    BY <2>1, <2>2, TypeParts, BoundsAssumption
<1>2. \A h \in Hearings : DOMAIN rows[h] = {}
  OBVIOUS
<1>3. /\ \A f \in Forms : form[f].pc = "idle"
      /\ \A w \in Creators : creator[w].pc = "idle"
      /\ \A d \in Deleters : deleter[d].pc = "idle" /\ deleter[d].rooms = {}
  BY DEF NoForm, NoCreator, NoDeleter
<1> QED
  BY <1>1, <1>2, <1>3 DEF IInv, FormOk, RowsOk, ConfsDistinct, CreatorOk, RecordingOk, DoomedOk, CurrentOk

LEMMA StutterPreserves == ASSUME IInv, UNCHANGED vars PROVE IInv'
<1> USE DEF vars
<1>1. TypeOK'
  BY TypeParts, TypePartsNext DEF IInv, Latest
<1>2. RowsOk' /\ ConfsDistinct' /\ RecordingOk' /\ DoomedOk'
  BY QuietStep DEF IInv
<1>3. /\ \A f \in Forms : FormOk(f)'
      /\ \A w \in Creators : CreatorOk(w)'
      /\ \A d \in Deleters : CurrentOk(d)'
  BY ActorsKept DEF IInv
<1> QED
  BY <1>1, <1>2, <1>3 DEF IInv

\* Every request, execution and failure preserves the invariant.
LEMMA NextPreserves == IInv /\ [Next]_vars => IInv'
<1> SUFFICES ASSUME IInv, [Next]_vars PROVE IInv'
  OBVIOUS
<1>1. ASSUME NEW h \in Hearings, Rerun(h) \/ \E to \in {"past", "postponed"} : EndHearing(h, to)
      PROVE  IInv'
  BY <1>1, HearingsPreserve
<1>2. ASSUME NEW f \in Forms, Submit(f) \/ \E h \in Hearings, kind \in Kinds : BeginEdit(f, h, kind)
      PROVE  IInv'
  BY <1>2, CommitEditPreserves, SetFlagsPreserves, StartJobPreserves, BeginEditPreserves DEF Submit
<1>3. ASSUME NEW w \in Creators, Run(w) \/ FailCreate(w) \/ FailSend(w)
                                 \/ \E h \in Hearings : BeginCreate(w, h)
      PROVE  IInv'
  BY <1>3, CreatePreserves, RecordPreserves, SendPreserves, CheckEstablishedPreserves,
     EstablishPreserves, FailCreatePreserves, BeginCreatePreserves DEF Run
<1>4. ASSUME NEW d \in Deleters, Clean(d) \/ FailDelete(d) \/ \E x \in deleter[d].rooms : FailRoom(d, x)
      PROVE  IInv'
  BY <1>4, MailsPreserve, ListRoomsPreserves, DeleteRoomPreserves, MarkDeletedPreserves,
     EndsPreserve DEF Clean
<1>5. CASE UNCHANGED vars
  BY <1>5, StutterPreserves
<1> QED
  BY <1>1, <1>2, <1>3, <1>4, <1>5 DEF Next

\* Every step accounts for the rooms.
LEMMA NextAccounts ==
    ASSUME IInv, Account, Apart, [Next]_vars
    PROVE  Account'
<1>1. IInv'
  BY NextPreserves
<1>2. ASSUME NEW h \in Hearings, Rerun(h) \/ \E to \in {"past", "postponed"} : EndHearing(h, to)
      PROVE  Account'
  BY <1>1, <1>2, RequestsAccount
<1>3. ASSUME NEW f \in Forms, Submit(f) \/ \E h \in Hearings, kind \in Kinds : BeginEdit(f, h, kind)
      PROVE  Account'
  BY <1>1, <1>3, RequestsAccount
<1>4. ASSUME NEW w \in Creators, Run(w) \/ FailCreate(w) \/ FailSend(w)
                                 \/ \E h \in Hearings : BeginCreate(w, h)
      PROVE  Account'
  BY <1>1, <1>4, CreateAccounts, RecordAccounts, EmailsAccount, FailCreateAccounts,
     BeginCreateAccounts DEF Run
<1>5. ASSUME NEW d \in Deleters, Clean(d) \/ FailDelete(d) \/ \E x \in deleter[d].rooms : FailRoom(d, x)
      PROVE  Account'
  BY <1>1, <1>5, MailsAccount, ListRoomsAccounts, DeleteRoomAccounts, MarkDeletedAccounts DEF Clean
<1>6. CASE UNCHANGED vars
  BY <1>1, <1>6, RequestsAccount
<1> QED
  BY <1>2, <1>3, <1>4, <1>5, <1>6 DEF Next

\* The invariant of requests and jobs: conferences are in one row, in one
\* reply that is about to be recorded, or nobody's, and none that is listed for
\* deletion is of a hearing to come (ready_for_deletion, create_conference).
THEOREM InductiveInvariant == Spec => []IInv
<1> QED
  BY InitInvariant, NextPreserves, PTL DEF Spec

\* Types are correct.
THEOREM TypeCorrect == Spec => []TypeOK
<1>1. IInv => TypeOK
  BY DEF IInv
<1> QED
  BY <1>1, InductiveInvariant, PTL

\* However many requests, creations and deletions run at once, and whatever
\* fails, an established virtual hearing to come has its room.
THEOREM UpcomingKeepsRoom == Spec => []UpcomingHasRoom
<1>1. IInv => UpcomingHasRoom
  BY LenProperties DEF IInv, UpcomingHasRoom, RowsOk, ToCome, Row, Open
<1> QED
  BY <1>1, InductiveInvariant, PTL

\* As long as no two executions of CreateConferenceJob are for one hearing, a
\* row marked deleted has no room, and only a call that failed leaves a room
\* nobody knows of, however many requests, deletions and other creations run
\* (create_conference unless active?, process_virtual_hearing).
THEOREM RoomsKnown == Spec /\ []Apart => []RoomsAccounted
<1>1. IInv /\ Account => RoomsAccounted
  BY AccountsForRooms
<1>2. Account /\ IInv /\ Apart /\ [Next]_vars => Account'
  BY NextAccounts
<1>3. Spec /\ []Apart => []Account
  BY <1>2, InitAccounts, InductiveInvariant, PTL DEF Spec
<1> QED
  BY <1>1, <1>3, InductiveInvariant, PTL
=============================================================================
