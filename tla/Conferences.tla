---------------------------- MODULE Conferences ----------------------------
(***************************************************************************)
(* Virtual hearings: the rows hearing coordinators create, cancel and      *)
(* change, the conference rooms of Pexip, and the emails to those who take *)
(* part (app/models/hearings/virtual_hearing.rb, forms/                    *)
(* base_hearing_update_form.rb, app/jobs/virtual_hearings/                 *)
(* create_conference_job.rb, delete_conferences_job.rb, app/jobs/hearings/ *)
(* send_email.rb, app/repositories/virtual_hearing_repository.rb).         *)
(*                                                                         *)
(* One action is one call to Pexip or GovDelivery, or one statement or     *)
(* committed transaction of the database; whatever was read before it      *)
(* stays in the record of the form or job.                                 *)
(***************************************************************************)
EXTENDS Naturals, Sequences, FiniteSets

CONSTANTS
    Hearings,
    Addressed,   \* the titles of the recipients that have an email address
    Kinds,       \* the edits users submit, of "convert", "cancel", "time", "notes"
    Forms,       \* requests that update a hearing at the same time
    Creators,    \* executions of CreateConferenceJob at the same time
    Deleters,    \* executions of DeleteConferencesJob at the same time
    MaxRows,     \* bound on the virtual hearings of a hearing
    MaxEdits,    \* bound on the requests
    MaxQueued,   \* bound on the CreateConferenceJobs queued for a hearing
    MaxRooms,    \* bound on the rooms created
    MaxReruns,   \* bound on the jobs StuckVirtualHearingsChecker starts
    MaxFaults,   \* bound on the calls that fail and the workers killed
    None

ASSUME KindsAssumption == Kinds \subseteq {"convert", "cancel", "time", "notes"}
ASSUME BoundsAssumption ==
    {MaxRows, MaxEdits, MaxQueued, MaxRooms, MaxReruns, MaxFaults} \subseteq Nat
ASSUME NoneAssumption == None \notin Hearings /\ None \notin Nat /\ None \notin Hearings \X Nat

ASSUME AddressedAssumption ==
    "appellant" \in Addressed /\ Addressed \subseteq {"appellant", "judge", "representative"}

\* The order in which SendEmail goes through the recipients.
First(todo) == IF "appellant" \in todo THEN "appellant"
               ELSE IF "judge" \in todo THEN "judge" ELSE "representative"

VARIABLES
    status,  \* of each hearing
    rows,    \* virtual_hearings of each hearing, with their establishment
    sent,    \* hearing_email_recipients.email_sent
    inbox,   \* the last email each recipient got
    rooms,   \* the rooms ever created in Pexip, TRUE while they exist
    queue,   \* how many CreateConferenceJobs are queued for each hearing
    form, creator, deleter,
    edits, reruns, faults

vars == <<status, rows, sent, inbox, rooms, queue, form, creator, deleter, edits, reruns, faults>>

NewRow == [conf |-> None, cancelled |-> FALSE, deleted |-> FALSE, processed |-> FALSE]
NoForm == [pc |-> "idle", hearing |-> None, kind |-> "notes", change |-> FALSE, found |-> None]
NoCreator == [pc |-> "idle", hearing |-> None, row |-> None, conf |-> None,
              processed |-> FALSE, todo |-> {}]
NoDeleter == [pc |-> "idle", mails |-> {}, rooms |-> {}, current |-> None, todo |-> {}]

-----------------------------------------------------------------------------
(* Virtual hearings *)

\* has_one :virtual_hearing, the latest row; 0 for none.
Latest(h) == Len(rows[h])
Open(h) == {n \in DOMAIN rows[h] : ~ rows[h][n].cancelled}

\* Fault: the latest row is found, cancelled or not.
FoundLatest(h) == Latest(h)

\* VirtualHearing.not_cancelled.find_by
Found(h) == IF Open(h) = {} THEN None ELSE CHOOSE n \in Open(h) : TRUE

\* HasVirtualHearing#virtual?
Virtual(h) == Latest(h) # 0 /\ ~ rows[h][Latest(h)].cancelled

\* VirtualHearing#active? and pending?
Active(row) == row.conf # None
Pending(row) == ~ row.cancelled /\ ~ Active(row)

Unsent(h) == {r \in Addressed : ~ sent[h][r]}
AllEmailsSent(h) == Unsent(h) = {}
CancellationPending(h) == Unsent(h) \ {"judge"} # {}

\* VirtualHearing#job_completed?
JobCompleted(h, row) == (Active(row) \/ row.cancelled) /\ AllEmailsSent(h)

\* appellant_, representative_ and judge_email_sent_flag: whether an edit
\* leaves the recipient with nothing to be told.
SentFlag(kind, h, r) ==
    \/ status[h] = "postponed"
    \/ kind = "notes"
    \/ (kind = "cancel" /\ r = "judge")
FlagsOf(kind, h) == [r \in Addressed |-> SentFlag(kind, h, r)]

\* Fault: only established conferences are deleted.
EligibleProcessed(row) == Active(row) /\ ~ row.deleted /\ row.processed

\* VirtualHearing.eligible_for_deletion
Eligible(row) == Active(row) /\ ~ row.deleted /\ (row.cancelled \/ row.processed)

Listed == {x \in Hearings \X (1..MaxRows) : x[2] <= Latest(x[1])}

\* Fault: the hearing's day is not looked at.
ReadyAnyDay == {x \in Listed : Eligible(rows[x[1]][x[2]])}

\* VirtualHearingRepository.ready_for_deletion
ReadyForDeletion ==
    {x \in Listed :
        /\ Eligible(rows[x[1]][x[2]])
        /\ \/ status[x[1]] # "upcoming"
           \/ rows[x[1]][x[2]].cancelled}

\* VirtualHearingRepository.cancelled_with_pending_emails
CancelledWithPendingEmails ==
    {x \in Listed :
        /\ rows[x[1]][x[2]].cancelled
        /\ CancellationPending(x[1])}

-----------------------------------------------------------------------------
Init ==
    /\ status = [h \in Hearings |-> "upcoming"]
    /\ rows = [h \in Hearings |-> <<>>]
    /\ sent = [h \in Hearings |-> [r \in Addressed |-> TRUE]]
    /\ inbox = [h \in Hearings |-> [r \in Addressed |-> "none"]]
    /\ rooms = <<>>
    /\ queue = [h \in Hearings |-> 0]
    /\ form = [f \in Forms |-> NoForm]
    /\ creator = [w \in Creators |-> NoCreator]
    /\ deleter = [d \in Deleters |-> NoDeleter]
    /\ edits = 0 /\ reruns = 0 /\ faults = 0

\* The hearing's day passes, or the hearing is postponed, cancelled or found
\* scheduled in error (AssignHearingDispositionTask).
EndHearing(h, to) ==
    /\ status[h] = "upcoming"
    /\ to \in {"past", "postponed"}
    /\ status' = [status EXCEPT ![h] = to]
    /\ UNCHANGED <<rows, sent, inbox, rooms, queue, form, creator, deleter, edits, reruns, faults>>

-----------------------------------------------------------------------------
(* BaseHearingUpdateForm#update *)

\* should_create_or_update_virtual_hearing?, and the row it will find. The
\* pages, fresh or outdated, of a hearing that never was virtual offer no
\* cancellation.
BeginEdit(f, h, kind) ==
    /\ form[f].pc = "idle" /\ edits < MaxEdits
    /\ kind = "cancel" => Latest(h) # 0
    /\ edits' = edits + 1
    /\ LET latest == rows[h][Latest(h)]
           running == Latest(h) # 0 /\ (Pending(latest) \/ ~ JobCompleted(h, latest))
       IN form' = [form EXCEPT ![f] =
             [pc |-> "commit", hearing |-> h, kind |-> kind,
              change |-> /\ ~ running
                         /\ kind \in {"convert", "cancel"} \/ (kind = "time" /\ Virtual(h)),
              found |-> Found(h)]]
    /\ UNCHANGED <<status, rows, sent, inbox, rooms, queue, creator, deleter, reruns, faults>>

\* create_or_update_virtual_hearing; the transaction commits.
CommitEdit(f) ==
    LET h == form[f].hearing
        kind == form[f].kind
        n == form[f].found
    IN  /\ form[f].pc = "commit"
        /\ form' = [form EXCEPT ![f].pc = "flags"]
        /\ \/ /\ ~ form[f].change
              /\ UNCHANGED <<rows, sent>>
           \/ /\ form[f].change /\ n = None
              /\ Latest(h) < MaxRows
              /\ rows' = [rows EXCEPT ![h] = Append(@, [NewRow EXCEPT !.cancelled = kind = "cancel"])]
              /\ sent' = [sent EXCEPT ![h] = FlagsOf(kind, h)]
           \/ /\ form[f].change /\ n # None
              /\ rows' = IF kind = "cancel" THEN [rows EXCEPT ![h][n].cancelled = TRUE]
                         ELSE [rows EXCEPT ![h][n].processed = FALSE]
              /\ sent' = [sent EXCEPT ![h] = FlagsOf(kind, h)]
        /\ UNCHANGED <<status, inbox, rooms, queue, creator, deleter, edits, reruns, faults>>

\* email_sent_updates!, whether or not the virtual hearing was changed.
SetFlags(f) ==
    /\ form[f].pc = "flags"
    /\ sent' = [sent EXCEPT ![form[f].hearing] = FlagsOf(form[f].kind, form[f].hearing)]
    /\ form' = [form EXCEPT ![f].pc = "start"]
    /\ UNCHANGED <<status, rows, inbox, rooms, queue, creator, deleter, edits, reruns, faults>>

\* start_async_job. A cancellation starts DeleteConferencesJob instead, which
\* may run at any time here.
StartJob(f) ==
    LET h == form[f].hearing
    IN  /\ form[f].pc = "start"
        /\ form' = [form EXCEPT ![f] = NoForm]
        /\ IF Latest(h) # 0 /\ ~ AllEmailsSent(h) /\ form[f].kind # "cancel"
           THEN /\ queue[h] < MaxQueued
                /\ queue' = [queue EXCEPT ![h] = @ + 1]
                /\ rows' = [rows EXCEPT ![h][Latest(h)].processed = FALSE]
           ELSE UNCHANGED <<rows, queue>>
        /\ UNCHANGED <<status, sent, inbox, rooms, creator, deleter, edits, reruns, faults>>

-----------------------------------------------------------------------------
(* CreateConferenceJob#perform *)

GoOn(w, record, pc) == creator' = [creator EXCEPT ![w] = [record EXCEPT !.pc = pc]]
Stop(w) == creator' = [creator EXCEPT ![w] = NoCreator]

\* StuckVirtualHearingsChecker runs the job for what has no conference.
Rerun(h) ==
    /\ \E n \in DOMAIN rows[h] : ~ Active(rows[h][n])
    /\ queue[h] < MaxQueued /\ reruns < MaxReruns
    /\ queue' = [queue EXCEPT ![h] = @ + 1]
    /\ reruns' = reruns + 1
    /\ UNCHANGED <<status, rows, sent, inbox, rooms, form, creator, deleter, edits, faults>>

\* Fault: the job creates a conference whenever it runs.
BeginCreateAnew(w, h) ==
    /\ creator[w].pc = "idle" /\ queue[h] > 0
    /\ queue' = [queue EXCEPT ![h] = @ - 1]
    /\ IF ~ Virtual(h) THEN Stop(w)
       ELSE GoOn(w, [NoCreator EXCEPT !.hearing = h, !.row = Latest(h), !.todo = Addressed], "create")
    /\ UNCHANGED <<status, rows, sent, inbox, rooms, form, deleter, edits, reruns, faults>>

\* set_virtual_hearing: a cancelled one is discarded, an active one has its
\* conference already.
BeginCreate(w, h) ==
    /\ creator[w].pc = "idle" /\ queue[h] > 0
    /\ queue' = [queue EXCEPT ![h] = @ - 1]
    /\ IF ~ Virtual(h) THEN Stop(w)
       ELSE LET row == rows[h][Latest(h)]
            IN GoOn(w, [NoCreator EXCEPT !.hearing = h, !.row = Latest(h), !.conf = row.conf,
                                         !.processed = row.processed, !.todo = Addressed],
                    IF Active(row) THEN "mail" ELSE "create")
    /\ UNCHANGED <<status, rows, sent, inbox, rooms, form, deleter, edits, reruns, faults>>

\* create_conference ...
Create(w) ==
    /\ creator[w].pc = "create"
    /\ Len(rooms) < MaxRooms
    /\ rooms' = Append(rooms, TRUE)
    /\ GoOn(w, [creator[w] EXCEPT !.conf = Len(rooms) + 1], "record")
    /\ UNCHANGED <<status, rows, sent, inbox, queue, form, deleter, edits, reruns, faults>>

\* ... and its reply is recorded.
Record(w) ==
    /\ creator[w].pc = "record"
    /\ rows' = [rows EXCEPT ![creator[w].hearing][creator[w].row].conf = creator[w].conf]
    /\ GoOn(w, creator[w], "mail")
    /\ UNCHANGED <<status, sent, inbox, rooms, queue, form, deleter, edits, reruns, faults>>

\* The next recipient, unless told already, is sent an email ...
Send(w) ==
    LET h == creator[w].hearing
        r == First(creator[w].todo)
    IN  /\ creator[w].pc = "mail" /\ creator[w].todo # {}
        /\ IF sent[h][r]
           THEN /\ GoOn(w, [creator[w] EXCEPT !.todo = @ \ {r}], "mail")
                /\ UNCHANGED inbox
           ELSE /\ inbox' = [inbox EXCEPT ![h][r] = "confirmation"]
                /\ GoOn(w, creator[w], "sent")
        /\ UNCHANGED <<status, rows, sent, rooms, queue, form, deleter, edits, reruns, faults>>

\* ... and email_sent says so.
MarkSent(w) ==
    LET r == First(creator[w].todo)
    IN  /\ creator[w].pc = "sent"
        /\ sent' = [sent EXCEPT ![creator[w].hearing][r] = TRUE]
        /\ GoOn(w, [creator[w] EXCEPT !.todo = @ \ {r}], "mail")
        /\ UNCHANGED <<status, rows, inbox, rooms, queue, form, deleter, edits, reruns, faults>>

\* can_be_established?, or IncompleteError and the job runs again.
CheckEstablished(w) ==
    LET h == creator[w].hearing
    IN  /\ creator[w].pc = "mail" /\ creator[w].todo = {}
        /\ IF AllEmailsSent(h)
           THEN GoOn(w, creator[w], "establish") /\ UNCHANGED queue
           ELSE /\ Stop(w)
                /\ queue[h] < MaxQueued
                /\ queue' = [queue EXCEPT ![h] = @ + 1]
        /\ UNCHANGED <<status, rows, sent, inbox, rooms, form, deleter, edits, reruns, faults>>

\* established!; request_cancelled, read as false, is not written.
Establish(w) ==
    /\ creator[w].pc = "establish"
    /\ rows' = IF creator[w].processed THEN rows
               ELSE [rows EXCEPT ![creator[w].hearing][creator[w].row].processed = TRUE]
    /\ Stop(w)
    /\ UNCHANGED <<status, sent, inbox, rooms, queue, form, deleter, edits, reruns, faults>>

\* Pexip answers with an error, the reply is lost, or the worker is killed;
\* the job is retried, or it is not.
FailCreate(w) ==
    /\ creator[w].pc # "idle" /\ faults < MaxFaults
    /\ faults' = faults + 1
    /\ Stop(w)
    /\ queue' \in {queue, [queue EXCEPT ![creator[w].hearing] = IF @ < MaxQueued THEN @ + 1 ELSE @]}
    /\ UNCHANGED <<status, rows, sent, inbox, rooms, form, deleter, edits, reruns>>

\* GovDelivery refuses an email.
FailSend(w) ==
    LET h == creator[w].hearing
        r == First(creator[w].todo)
    IN  /\ creator[w].pc = "mail" /\ creator[w].todo # {} /\ ~ sent[h][r]
        /\ faults < MaxFaults
        /\ faults' = faults + 1
        /\ sent' = [sent EXCEPT ![h][r] = FALSE]
        /\ GoOn(w, [creator[w] EXCEPT !.todo = @ \ {r}], "mail")
        /\ UNCHANGED <<status, rows, inbox, rooms, queue, form, deleter, edits, reruns>>

-----------------------------------------------------------------------------
(* DeleteConferencesJob#perform, started every day and by cancellations *)

Proceed(d, record, pc) == deleter' = [deleter EXCEPT ![d] = [record EXCEPT !.pc = pc]]

\* A run that finds nothing at all is left out.
BeginDelete(d) ==
    /\ deleter[d].pc = "idle"
    /\ CancelledWithPendingEmails # {} \/ ReadyForDeletion # {}
    /\ Proceed(d, [NoDeleter EXCEPT !.mails = CancelledWithPendingEmails], "mails")
    /\ UNCHANGED <<status, rows, sent, inbox, rooms, queue, form, creator, edits, reruns, faults>>

\* send_cancellation_emails, unless the hearing will not take place. The
\* judge gets none.
TakeMail(d, x) ==
    /\ deleter[d].pc = "mails" /\ x \in deleter[d].mails
    /\ IF status[x[1]] = "postponed"
       THEN Proceed(d, [deleter[d] EXCEPT !.mails = @ \ {x}], "mails")
       ELSE Proceed(d, [deleter[d] EXCEPT !.mails = @ \ {x}, !.current = x,
                                          !.todo = Addressed \ {"judge"}], "mail")
    /\ UNCHANGED <<status, rows, sent, inbox, rooms, queue, form, creator, edits, reruns, faults>>

SendCancellation(d) ==
    LET h == deleter[d].current[1]
        r == First(deleter[d].todo)
    IN  /\ deleter[d].pc = "mail" /\ deleter[d].todo # {}
        /\ IF sent[h][r]
           THEN /\ Proceed(d, [deleter[d] EXCEPT !.todo = @ \ {r}], "mail")
                /\ UNCHANGED inbox
           ELSE /\ inbox' = [inbox EXCEPT ![h][r] = "cancellation"]
                /\ Proceed(d, deleter[d], "sent")
        /\ UNCHANGED <<status, rows, sent, rooms, queue, form, creator, edits, reruns, faults>>

MarkCancellation(d) ==
    LET r == First(deleter[d].todo)
    IN  /\ deleter[d].pc = "sent"
        /\ sent' = [sent EXCEPT ![deleter[d].current[1]][r] = TRUE]
        /\ Proceed(d, [deleter[d] EXCEPT !.todo = @ \ {r}], "mail")
        /\ UNCHANGED <<status, rows, inbox, rooms, queue, form, creator, edits, reruns, faults>>

\* Everyone is told, and the next hearing is taken up.
EndMail(d) ==
    /\ deleter[d].pc = "mail" /\ deleter[d].todo = {}
    /\ Proceed(d, [deleter[d] EXCEPT !.current = None], "mails")
    /\ UNCHANGED <<status, rows, sent, inbox, rooms, queue, form, creator, edits, reruns, faults>>

\* All cancellations are out, and the conferences to delete are listed.
ListRooms(d) ==
    /\ deleter[d].pc = "mails" /\ deleter[d].mails = {}
    /\ Proceed(d, [deleter[d] EXCEPT !.rooms =
           {<<x[1], x[2], rows[x[1]][x[2]].conf>> : x \in ReadyForDeletion}], "rooms")
    /\ UNCHANGED <<status, rows, sent, inbox, rooms, queue, form, creator, edits, reruns, faults>>

\* delete_conference; a conference that is gone already counts as deleted.
DeleteRoom(d, x) ==
    /\ deleter[d].pc = "rooms" /\ x \in deleter[d].rooms
    /\ rooms' = [rooms EXCEPT ![x[3]] = FALSE]
    /\ Proceed(d, [deleter[d] EXCEPT !.rooms = @ \ {x}, !.current = <<x[1], x[2]>>], "deleted")
    /\ UNCHANGED <<status, rows, sent, inbox, queue, form, creator, edits, reruns, faults>>

MarkDeleted(d) ==
    /\ deleter[d].pc = "deleted"
    /\ rows' = [rows EXCEPT ![deleter[d].current[1]][deleter[d].current[2]].deleted = TRUE]
    /\ Proceed(d, [deleter[d] EXCEPT !.current = None], "rooms")
    /\ UNCHANGED <<status, sent, inbox, rooms, queue, form, creator, edits, reruns, faults>>

EndDelete(d) ==
    /\ deleter[d].pc = "rooms" /\ deleter[d].rooms = {}
    /\ deleter' = [deleter EXCEPT ![d] = NoDeleter]
    /\ UNCHANGED <<status, rows, sent, inbox, rooms, queue, form, creator, edits, reruns, faults>>

\* Pexip refuses to delete one conference: the others go on.
FailRoom(d, x) ==
    /\ deleter[d].pc = "rooms" /\ x \in deleter[d].rooms /\ faults < MaxFaults
    /\ faults' = faults + 1
    /\ Proceed(d, [deleter[d] EXCEPT !.rooms = @ \ {x}], "rooms")
    /\ UNCHANGED <<status, rows, sent, inbox, rooms, queue, form, creator, edits, reruns>>

\* The worker is killed; the job runs again another day.
FailDelete(d) ==
    /\ deleter[d].pc # "idle" /\ faults < MaxFaults
    /\ faults' = faults + 1
    /\ deleter' = [deleter EXCEPT ![d] = NoDeleter]
    /\ UNCHANGED <<status, rows, sent, inbox, rooms, queue, form, creator, edits, reruns>>

-----------------------------------------------------------------------------
Submit(f) == CommitEdit(f) \/ SetFlags(f) \/ StartJob(f)

Run(w) ==
    \/ Create(w) \/ Record(w) \/ Send(w) \/ MarkSent(w)
    \/ CheckEstablished(w) \/ Establish(w)

Clean(d) ==
    \/ BeginDelete(d) \/ SendCancellation(d) \/ MarkCancellation(d) \/ EndMail(d)
    \/ ListRooms(d) \/ MarkDeleted(d) \/ EndDelete(d)
    \/ \E x \in deleter[d].mails : TakeMail(d, x)
    \/ \E x \in deleter[d].rooms : DeleteRoom(d, x)

Next ==
    \/ \E h \in Hearings : Rerun(h) \/ \E to \in {"past", "postponed"} : EndHearing(h, to)
    \/ \E f \in Forms : Submit(f) \/ \E h \in Hearings, kind \in Kinds : BeginEdit(f, h, kind)
    \/ \E w \in Creators : Run(w) \/ FailCreate(w) \/ FailSend(w)
                           \/ \E h \in Hearings : BeginCreate(w, h)
    \/ \E d \in Deleters : Clean(d) \/ FailDelete(d)
                           \/ \E x \in deleter[d].rooms : FailRoom(d, x)

Spec == Init /\ [][Next]_vars

\* Requests and jobs that run go on, and DeleteConferencesJob runs every day.
FairSpec ==
    /\ Spec
    /\ \A f \in Forms : WF_vars(Submit(f))
    /\ \A w \in Creators : WF_vars(Run(w) \/ \E h \in Hearings : BeginCreate(w, h))
    /\ \A d \in Deleters : WF_vars(Clean(d))

-----------------------------------------------------------------------------
\* Every row, flag and everything a form or job has read has its type; a
\* conference id is of a room that was created.
TypeOK ==
    /\ status \in [Hearings -> {"upcoming", "postponed", "past"}]
    /\ rows \in [Hearings -> Seq([conf : {None} \union DOMAIN rooms, cancelled : BOOLEAN,
                                  deleted : BOOLEAN, processed : BOOLEAN])]
    /\ \A h \in Hearings : Latest(h) <= MaxRows
    /\ sent \in [Hearings -> [Addressed -> BOOLEAN]]
    /\ inbox \in [Hearings -> [Addressed -> {"none", "confirmation", "cancellation"}]]
    /\ rooms \in Seq(BOOLEAN)
    /\ queue \in [Hearings -> 0..MaxQueued]
    /\ form \in [Forms -> [pc : {"idle", "commit", "flags", "start"}, hearing : Hearings \union {None},
                           kind : Kinds \union {"notes"}, change : BOOLEAN,
                           found : (1..MaxRows) \union {None}]]
    /\ creator \in [Creators ->
          [pc : {"idle", "create", "record", "mail", "sent", "establish"},
           hearing : Hearings \union {None}, row : (1..MaxRows) \union {None},
           conf : {None} \union DOMAIN rooms, processed : BOOLEAN, todo : SUBSET Addressed]]
    /\ deleter \in [Deleters ->
          [pc : {"idle", "mails", "mail", "sent", "rooms", "deleted"},
           mails : SUBSET (Hearings \X (1..MaxRows)),
           rooms : SUBSET (Hearings \X (1..MaxRows) \X DOMAIN rooms),
           current : (Hearings \X (1..MaxRows)) \union {None}, todo : SUBSET Addressed]]
    /\ edits \in 0..MaxEdits /\ reruns \in 0..MaxReruns /\ faults \in 0..MaxFaults

\* An established virtual hearing that is still to take place has its room in
\* Pexip, however creations, deletions, edits and failures interleave
\* (eligible_for_deletion, ready_for_deletion, established!).
UpcomingHasRoom ==
    \A h \in Hearings : \A n \in Open(h) :
        rows[h][n].processed /\ status[h] = "upcoming" =>
            rows[h][n].conf # None /\ rooms[rows[h][n].conf]

\* A row marked deleted has no room left in Pexip (process_virtual_hearing), and
\* no more rooms exist that no row and no job knows of than calls have failed:
\* edits, retries and reruns never create a second one (create_conference unless
\* active?).
RoomsAccounted ==
    LET recorded == {rows[x[1]][x[2]].conf : x \in Listed}
        held == {creator[w].conf : w \in Creators}
    IN  /\ \A x \in Listed :
               rows[x[1]][x[2]].deleted => ~ rooms[rows[x[1]][x[2]].conf]
        /\ Cardinality({c \in DOMAIN rooms : rooms[c]} \ (recorded \union held)) <= faults

\* The room of a cancelled virtual hearing is deleted in the end, established
\* or not (delete_conferences_job.rb).
CancelledRoomGoes ==
    \A h \in Hearings, n \in 1..MaxRows :
        (n <= Latest(h) /\ rows[h][n].cancelled /\ rows[h][n].conf # None)
            ~> (n <= Latest(h) /\ rows[h][n].deleted)

\* When a virtual hearing to come is established, the last thing everyone was
\* told is that it takes place (virtual_hearing.rb can_be_established?).
EstablishedMeansTold ==
    \A h \in Hearings : Virtual(h) /\ rows[h][Latest(h)].processed /\ status[h] = "upcoming" =>
        \A r \in Addressed : inbox[h][r] = "confirmation"
=============================================================================
