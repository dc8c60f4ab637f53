------------------------------- MODULE Impact -------------------------------
(***************************************************************************)
(* What the seller's dashboards say about one product: which job's apply   *)
(* starts the period that get_impact.py compares with the days before it,  *)
(* and whether get_overview.py counts the product as optimized.  Both read *)
(* the lifecycle rows that apply_outputs.py and rollback_job.py write      *)
(* after a call of the Product Service, while the seller also edits the    *)
(* product there.                                                          *)
(*                                                                         *)
(* A job has one source image (create_batch.py:81) and is here from its    *)
(* final outputs on; module Review has what comes before.                  *)
(***************************************************************************)
EXTENDS Integers, Sequences, FiniteSetsExt

CONSTANTS
    Jobs,      \* jobs of the product
    NoJob,     \* images the seller uploaded, not a job's
    Slots,     \* places in the gallery of the product
    Requests,  \* requests that can be open at the same time
    LastDay,     \* bound: days
    MaxEdits,    \* bound: the seller chooses another cover
    MaxRequests, \* bound: requests in total
    MaxLost      \* bound: requests that die, or lose an answer, halfway

ASSUME ImpactAssumption ==
    /\ NoJob \notin Jobs
    /\ Jobs # {} /\ Slots # {} /\ Requests # {}
    /\ {LastDay, MaxEdits, MaxRequests, MaxLost} \subseteq Nat

Makers == Jobs \cup {NoJob}
Asset == [slot : Slots, by : Makers]
Gallery == [Slots -> Makers]
Statuses == {"NONE", "REVIEW_REQUIRED", "APPLIED", "ROLLED_BACK"}
Columns == [status : Statuses, starts : BOOLEAN, at : Nat, day : 0..LastDay]

VARIABLES
    job,        \* what a job never changes: its source and the product version it saw
    row,        \* its status, starts_impact_session and completed_at (order and day)
    clock,      \* transitions so far: orders completed_at
    product,    \* gallery, cover and version, and the job whose images it shows
    snapshot,   \* gallery and shown job before the apply of a job
    restored,   \* jobs the Product Service has rolled back
    request,    \* open requests
    today,
    visited,    \* days with buyer events
    replaced,   \* jobs whose apply replaced the cover
    overlapped, \* the jobs of two requests that were open at the same time
    edits, requests, lost

external == <<product, snapshot, restored, replaced>>
analytics == <<today, clock, visited>>
counters == <<overlapped, edits, requests, lost>>
vars == <<job, row, external, request, analytics, counters>>

NoColumns == [status |-> "NONE", starts |-> FALSE, at |-> 0, day |-> 0]
NoRequest == [step |-> "idle", job |-> NoJob, aggregate |-> NoColumns, record |-> NoColumns,
              starts |-> FALSE]
Saving == {"applying", "restoring"}
Steps == {"idle", "apply", "call", "applied", "rollback", "restored"} \cup Saving

TypeOK ==
    /\ job \in [Jobs -> [source : Asset, expected : Nat]]
    /\ row \in [Jobs -> Columns]
    /\ product \in [image : Gallery, cover : Slots, version : Nat, shown : Makers]
    /\ snapshot \in [Jobs -> [image : Gallery, shown : Makers]]
    /\ restored \subseteq Jobs
    /\ request \in [Requests -> [step : Steps, job : Makers, aggregate : Columns,
                                 record : Columns, starts : BOOLEAN]]
    /\ \A q \in Requests : request[q].step \notin {"idle"} \cup Saving =>
           request[q].aggregate.status # "ROLLED_BACK"
    /\ clock \in Nat
    /\ today \in 0..LastDay
    /\ visited \subseteq 0..today
    /\ replaced \subseteq Jobs
    /\ overlapped \subseteq SUBSET Jobs
    /\ edits \in 0..MaxEdits /\ requests \in 0..MaxRequests /\ lost \in 0..MaxLost

Init ==
    /\ product \in {[image |-> [s \in Slots |-> NoJob], cover |-> c, version |-> 0,
                     shown |-> NoJob] : c \in Slots}
    /\ job = [j \in Jobs |-> [source |-> [slot |-> product.cover, by |-> NoJob], expected |-> 0]]
    /\ row = [j \in Jobs |-> NoColumns]
    /\ snapshot = [j \in Jobs |-> [image |-> product.image, shown |-> NoJob]]
    /\ restored = {}
    /\ request = [q \in Requests |-> NoRequest]
    /\ today = 0
    /\ clock = 0
    /\ visited = {}
    /\ replaced = {}
    /\ overlapped = {}
    /\ edits = 0
    /\ requests = 0
    /\ lost = 0

-----------------------------------------------------------------------------
(* The product, and time.                                                  *)

AssetAt(s) == [slot |-> s, by |-> product.image[s]]

\* The asset of the image in display, an AI output included.
CoverAsset == AssetAt(product.cover)

\* A job is created for one image of the gallery and ends up with final outputs to
\* review.  The version is read before the image, and the product may have moved
\* in between.
CreateJob(j) ==
    /\ row[j].status = "NONE"
    /\ \E s \in Slots, seen \in {product.version - 1, product.version} \cap Nat :
           job' = [job EXCEPT ![j] = [source |-> AssetAt(s), expected |-> seen]]
    /\ row' = [row EXCEPT ![j].status = "REVIEW_REQUIRED"]
    /\ UNCHANGED <<external, request, analytics, counters>>

\* The seller picks another cover in the Product Service.
ChooseCover ==
    /\ edits < MaxEdits
    /\ \E s \in Slots \ {product.cover} :
           product' = [product EXCEPT !.cover = s, !.version = @ + 1]
    /\ edits' = edits + 1
    /\ UNCHANGED <<job, row, snapshot, restored, replaced, request, analytics, overlapped, requests, lost>>

NextDay ==
    /\ today < LastDay
    /\ today' = today + 1
    /\ UNCHANGED <<job, row, external, request, clock, visited, counters>>

Visit ==
    /\ visited' = visited \cup {today}
    /\ UNCHANGED <<job, row, external, request, today, clock, counters>>

-----------------------------------------------------------------------------
(* Requests.  The row is read without a lock; the aggregate made of it is   *)
(* written back at the end by a save() that reads the row again.            *)

At(q, step) == request[q].step = step
Job(q) == job[request[q].job]
Close(q) == request' = [request EXCEPT ![q] = NoRequest]

Open(q, j, step) ==
    /\ At(q, "idle")
    /\ requests < MaxRequests
    /\ requests' = requests + 1
    /\ request' = [request EXCEPT ![q] =
           [NoRequest EXCEPT !.step = step, !.job = j, !.aggregate = row[j]]]
    /\ overlapped' = overlapped \cup {{request[r].job, j} : r \in {r \in Requests : ~At(r, "idle")}}
    /\ UNCHANGED <<job, row, external, analytics, edits, lost>>

ReadForApply(q, j) == row[j].status = "REVIEW_REQUIRED" /\ Open(q, j, "apply")

\* Seeded fault: a rolled back job is rolled back again.
ReadForRollbackAgain(q, j) == row[j].status # "NONE" /\ Open(q, j, "rollback")

\* A status other than ROLLED_BACK is looked at only after the call.
ReadForRollback(q, j) == row[j].status \notin {"NONE", "ROLLED_BACK"} /\ Open(q, j, "rollback")

\* Seeded fault: every apply is a session of its own.
ResolveBoundaryAlways(q) ==
    /\ At(q, "apply")
    /\ request' = [request EXCEPT ![q].step = "call", ![q].starts = TRUE]
    /\ UNCHANGED <<job, row, external, analytics, counters>>

\* _resolve_impact_session_boundary, before the apply: is the image to replace
\* the cover now?
ResolveBoundary(q) ==
    /\ At(q, "apply")
    /\ request' = [request EXCEPT ![q].step = "call", ![q].starts = (Job(q).source = CoverAsset)]
    /\ UNCHANGED <<job, row, external, analytics, counters>>

\* Product takes an apply again for the job it shows, and otherwise only at the
\* version the job was created for.
Accept(j) ==
    \/ product.shown = j /\ UNCHANGED external
    \/ /\ product.shown # j
       /\ product.version = job[j].expected
       /\ product' = [product EXCEPT !.image[job[j].source.slot] = j, !.shown = j, !.version = @ + 1]
       /\ snapshot' = [snapshot EXCEPT ![j] = [image |-> product.image, shown |-> product.shown]]
       /\ replaced' = replaced \cup {k \in {j} : job[j].source = CoverAsset}
       /\ UNCHANGED restored

\* Product restores the gallery it had before the job it shows, or did so before;
\* whether an earlier job then counts as shown again is its own affair.
Restore(j) ==
    \/ /\ product.shown = j
       /\ \E shown \in {NoJob, snapshot[j].shown} :
              product' = [product EXCEPT !.image = snapshot[j].image, !.shown = shown, !.version = @ + 1]
       /\ restored' = restored \cup {j}
       /\ UNCHANGED <<snapshot, replaced>>
    \/ product.shown # j /\ j \in restored /\ UNCHANGED external

CallApply(q) ==
    /\ At(q, "call")
    /\ Accept(request[q].job)
    /\ request' = [request EXCEPT ![q].step = "applied"]
    /\ UNCHANGED <<job, row, analytics, counters>>

\* transition() refuses a job that is not APPLIED, but Product has answered by then.
CallRollback(q) ==
    /\ At(q, "rollback")
    /\ Restore(request[q].job)
    /\ IF request[q].aggregate.status = "APPLIED"
       THEN request' = [request EXCEPT ![q].step = "restored"]
       ELSE Close(q)
    /\ UNCHANGED <<job, row, analytics, counters>>

\* transition(), and the read of the row with which save() begins.  completed_at is
\* the time of the transition: later than all before it.
Complete(q, step, status, starts) ==
    /\ clock' = clock + 1
    /\ request' = [request EXCEPT
           ![q].step = step,
           ![q].aggregate = [status |-> status, starts |-> starts, at |-> clock + 1, day |-> today],
           ![q].record = row[request[q].job]]
    /\ UNCHANGED <<job, row, external, today, visited, counters>>

CompleteApply(q) ==
    At(q, "applied") /\ Complete(q, "applying", "APPLIED", request[q].starts)
CompleteRollback(q) ==
    At(q, "restored") /\ Complete(q, "restoring", "ROLLED_BACK", request[q].aggregate.starts)

\* The UPDATE of save() carries the columns that differ from the record it has
\* read; a row that moved since keeps the others.
Column(stored, record, new) == IF new # record THEN new ELSE stored
WriteBack(stored, record, aggregate) ==
    [status |-> Column(stored.status, record.status, aggregate.status),
     starts |-> Column(stored.starts, record.starts, aggregate.starts),
     at     |-> Column(stored.at, record.at, aggregate.at),
     day    |-> Column(stored.day, record.day, aggregate.day)]

Save(q) ==
    /\ request[q].step \in Saving
    /\ row' = [row EXCEPT ![request[q].job] = WriteBack(@, request[q].record, request[q].aggregate)]
    /\ Close(q)
    /\ UNCHANGED <<job, external, analytics, counters>>

\* A service refuses or does not answer, and did nothing.
ServiceRefuses(q) ==
    /\ request[q].step \in {"apply", "call", "rollback"}
    /\ Close(q)
    /\ UNCHANGED <<job, row, external, analytics, counters>>

\* Product did its part but the answer, the request or its commit is lost.
AnswerLost(q) ==
    /\ lost < MaxLost
    /\ lost' = lost + 1
    /\ \/ At(q, "call") /\ Accept(request[q].job)
       \/ At(q, "rollback") /\ Restore(request[q].job)
       \/ request[q].step \in {"applied", "restored"} \cup Saving /\ UNCHANGED external
    /\ Close(q)
    /\ UNCHANGED <<job, row, analytics, overlapped, edits, requests>>

RequestStep(q) ==
    \/ \E j \in Jobs : ReadForApply(q, j) \/ ReadForRollback(q, j)
    \/ ResolveBoundary(q)
    \/ CallApply(q)
    \/ CallRollback(q)
    \/ CompleteApply(q)
    \/ CompleteRollback(q)
    \/ Save(q)
    \/ ServiceRefuses(q)
    \/ AnswerLost(q)

Next ==
    \/ \E q \in Requests : RequestStep(q)
    \/ \E j \in Jobs : CreateJob(j)
    \/ ChooseCover
    \/ NextDay
    \/ Visit

Spec == Init /\ [][Next]_vars

-----------------------------------------------------------------------------
(* The reports.                                                            *)

\* Seeded fault: the row completed first.
Earliest(jobs) ==
    IF jobs = {} THEN NoJob
    ELSE CHOOSE j \in jobs : \A k \in jobs : row[k].at >= row[j].at

\* The row completed last, or NoJob.
Latest(jobs) ==
    IF jobs = {} THEN NoJob
    ELSE CHOOSE j \in jobs : \A k \in jobs : row[k].at <= row[j].at

Lifecycle == {j \in Jobs : row[j].status \in {"APPLIED", "ROLLED_BACK"}}

\* Seeded fault: jobs of other images start sessions too.
SessionOfAny == Latest(Lifecycle)

\* find_latest_impact_jobs
Session == Latest({j \in Lifecycle : row[j].starts})

\* count_applied
CountedApplied == Lifecycle # {} /\ row[Latest(Lifecycle)].status = "APPLIED"

\* Recommendation Service: days with events before the day of the apply, and a
\* bucket for every day from then on.
BaselineDays(day) == {d \in visited : d < day}
Daily(day) == [i \in 1..(today - day + 1) |-> day + i - 1]

\* Seeded fault: the window of the comparison never closes.
ObservedAll(day) == Daily(day)

\* daily[:baseline_days]: as many days after the apply as the baseline has.
Observed(day) ==
    SubSeq(Daily(day), 1, Min({Len(Daily(day)), Cardinality(BaselineDays(day))}))

ObservedWithData(day) == {d \in visited : \E i \in DOMAIN Observed(day) : Observed(day)[i] = d}

\* One item of _build_products: its status, the days of the baseline, the days
\* compared with it, and the one whose numbers are shown.
Item(status, day, latest) ==
    [status |-> status, baseline |-> BaselineDays(day), daily |-> Observed(day), latest |-> latest]

\* What the seller reads when the Recommendation Service has answered, or not.
Report(answered) ==
    LET day == row[Session].day
        data == ObservedWithData(day)
    IN  IF Session = NoJob THEN Item("NONE", 0, {})
        ELSE IF row[Session].status = "ROLLED_BACK" THEN Item("ROLLED_BACK", 0, {})
        ELSE IF ~answered THEN Item("UNAVAILABLE", 0, {})
        ELSE IF BaselineDays(day) = {} THEN Item("NO_BASELINE", day, {})
        ELSE IF data = {} THEN Item("COLLECTING", day, {})
        ELSE Item("READY", day, {Max(data)})

-----------------------------------------------------------------------------
(* Properties.                                                             *)

Settled(j) == \A q \in Requests : request[q].job # j

\* Requests about the job never overlapped.
Alone(j) == {j} \notin overlapped

\* apply_outputs.py:80 decides on a session before it calls Product and stores
\* the decision after.  Only a job whose image replaced the cover ever starts a
\* session, however covers and requests moved in between.  It does start one, once
\* no request on it is under way, if no answer was lost and its own requests came
\* one after the other: save() puts back every column of an overlapping request.
CoverSessionsMarked ==
    \A j \in Lifecycle :
        /\ row[j].starts => j \in replaced
        /\ lost = 0 /\ Settled(j) /\ Alone(j) /\ j \in replaced => row[j].starts

\* sqlalchemy_repository.py:210: what happens to a job that did not replace the
\* cover leaves the session of the product alone.
SecondaryKeepsSession ==
    [][\A j \in Jobs \ replaced' : row'[j] # row[j] => Session' = Session]_vars

\* As long as requests do not overlap and no answer is lost, the reports agree
\* with the product: one that counts it as optimized has a job's image on it, and,
\* unless the seller moved the cover, the compared session is the cover's job.
ReportsMatchProduct ==
    overlapped = {} /\ lost = 0 /\ (\A q \in Requests : At(q, "idle")) =>
        /\ CountedApplied => \E s \in Slots : product.image[s] # NoJob
        /\ edits = 0 /\ Session # NoJob /\ row[Session].status = "APPLIED" =>
               product.image[product.cover] = Session

\* get_impact.py:87: only the first N days after the apply are compared, N being
\* the days of the baseline.  Once they are over, the numbers stay what they are
\* until the session changes.
WindowOver ==
    /\ Session # NoJob
    /\ row[Session].status = "APPLIED"
    /\ today >= row[Session].day + Cardinality(BaselineDays(row[Session].day))
ClosedWindowsStay ==
    [][WindowOver /\ Session' = Session /\ row'[Session] = row[Session]
         => \A answered \in BOOLEAN : Report(answered)' = Report(answered)]_vars
=============================================================================
