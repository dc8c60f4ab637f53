------------------------------- MODULE Review -------------------------------
(***************************************************************************)
(* The seller's requests on a job under review: apply_outputs.py,          *)
(* reject_job.py and rollback_job.py, each inside the one transaction that *)
(* app/bootstrap/dependencies.py opens for a request, against the Product  *)
(* and Media Services and the worker that makes the final outputs.         *)
(*                                                                         *)
(* A request reads the job without a lock, decides, calls other services   *)
(* and saves its aggregate at the end.  save() reads the row once more     *)
(* (save = "loaded"), flushes an UPDATE that takes the row lock (save =    *)
(* "flushed"), and the transaction commits after that.                     *)
(* The worker is reduced to what its transactions do to the row; module    *)
(* ImageWorker has its details.  All jobs here are of one product.         *)
(***************************************************************************)
EXTENDS OptimizationJob

CONSTANTS
    Jobs,         \* jobs of the product, each with a finished preview
    NoJob,        \* the product shows its original images
    Requests,     \* requests that can be open at the same time
    MaxRequests,  \* bound: requests in total
    MaxLost       \* bound: requests that die, or lose an answer, halfway

ASSUME ReviewAssumption ==
    /\ NoJob \notin Jobs
    /\ Requests # {}
    /\ {MaxRequests, MaxLost} \subseteq Nat

VARIABLES
    row,        \* committed job row
    events,     \* finalization events committed to the outbox, by job
    taken,      \* of these, the ones a worker has consumed
    request,    \* open requests
    worker,     \* what a worker does with each job
    product,    \* what the product shows, and whether its version moved
    accepted,   \* jobs whose outputs the Product Service has accepted
    restored,   \* jobs whose outputs the Product Service has taken back
    media,      \* output assets the Media Service stores
    overlapped, \* jobs two requests had open at the same time
    skipped,    \* jobs whose message met a row another transaction held
    requests, lost

services == <<product, accepted, restored, media>>
counters == <<overlapped, skipped, requests, lost>>
vars == <<row, events, taken, request, worker, services, counters>>

\* A job whose first claim succeeded.
Reviewed ==
    Completed(Claim(NewJob(Sources, Modes)),
              [source : Sources, mode : Modes, profile : {"PREVIEW"}, attempt : {1}])

NoRecord == NewJob({}, {})
NoRequest == [step |-> "idle", job |-> NoJob, ids |-> {}, loaded |-> NoRecord,
              record |-> NoRecord, save |-> "none"]
NoWork == [step |-> "idle", loaded |-> NoRecord, record |-> NoRecord]
Original == [job |-> NoJob, images |-> {}, asked |-> {}, touched |-> FALSE]

TypeOK ==
    /\ row \in [Jobs -> Job]
    /\ events \in [Jobs -> Nat]
    /\ taken \in [Jobs -> Nat] /\ \A j \in Jobs : taken[j] <= events[j]
    /\ request \in [Requests ->
           [step : {"idle", "finalize", "apply", "applied", "reject", "cleaned",
                    "recleanup", "rollback", "restored"},
            job : Jobs \cup {NoJob}, ids : SUBSET Asset, loaded : Job,
            record : Job, save : {"none", "loaded", "flushed"}]]
    /\ worker \in [Jobs -> [step : {"idle", "claimed", "generate", "giveup"},
                           loaded : Job, record : Job]]
    /\ product \in [job : Jobs \cup {NoJob}, images : SUBSET Asset,
                    asked : SUBSET Asset, touched : BOOLEAN]
    /\ accepted \subseteq Jobs
    /\ restored \subseteq Jobs
    /\ media \in [Jobs -> SUBSET Asset]
    /\ overlapped \subseteq Jobs
    /\ skipped \subseteq Jobs
    /\ requests \in Nat /\ lost \in Nat

Init ==
    /\ row = [j \in Jobs |-> Reviewed]
    /\ events = [j \in Jobs |-> 0]
    /\ taken = [j \in Jobs |-> 0]
    /\ request = [q \in Requests |-> NoRequest]
    /\ worker = [j \in Jobs |-> NoWork]
    /\ product = Original
    /\ accepted = {}
    /\ restored = {}
    /\ media = [j \in Jobs |-> Reviewed.outputs]
    /\ overlapped = {}
    /\ skipped = {}
    /\ requests = 0
    /\ lost = 0

\* Who holds the row of a job FOR UPDATE or by an uncommitted UPDATE.
Unlocked(j) ==
    /\ worker[j].step # "generate"
    /\ \A q \in Requests : ~(request[q].job = j /\ request[q].save = "flushed")

-----------------------------------------------------------------------------
(* A request arrives and reads its job.  Requests that end there, because  *)
(* the job is not ready or the answer is already known, change nothing and *)
(* are left out.                                                           *)

Open(q, j, ids, step) ==
    /\ request[q].step = "idle"
    /\ requests < MaxRequests
    /\ requests' = requests + 1
    /\ overlapped' = overlapped \cup {k \in {j} : \E r \in Requests : request[r].job = k}
    /\ request' = [request EXCEPT ![q] =
                      [NoRequest EXCEPT !.step = step, !.job = j, !.ids = ids,
                                        !.loaded = row[j]]]
    /\ UNCHANGED <<row, events, taken, worker, services, skipped, lost>>

\* Seeded fault: the request believes Product without having called it.
ReadForApplyUncalled(q, j) ==
    \E ids \in SUBSET (row[j].outputs \cup row[j].selected) :
        /\ CanFinalize(row[j], ids)
        /\ Open(q, j, ids, IF row[j].profile = "PREVIEW" THEN "finalize" ELSE "applied")

\* apply on a preview starts the final run, on final outputs it calls Product.
ReadForApply(q, j) ==
    \E ids \in SUBSET (row[j].outputs \cup row[j].selected) :
        /\ CanFinalize(row[j], ids)
        /\ Open(q, j, ids, IF row[j].profile = "PREVIEW" THEN "finalize" ELSE "apply")

\* Seeded fault: any job can be rejected.
ReadForRejectAny(q, j) == Open(q, j, {}, "reject")

ReadForReject(q, j) ==
    \/ CanMove(row[j], "REJECTED") /\ Open(q, j, {}, "reject")
    \/ row[j].status = "REJECTED" /\ Open(q, j, {}, "recleanup")

\* rollback looks at the status only once Product has answered.
ReadForRollback(q, j) ==
    /\ row[j].status # "ROLLED_BACK"
    /\ Open(q, j, {}, "rollback")

-----------------------------------------------------------------------------
(* What an open request does next.                                         *)

At(q, step) == request[q].step = step
Goto(q, step) == request' = [request EXCEPT ![q].step = step]
Close(q) == request' = [request EXCEPT ![q] = NoRequest]

\* save() reads the row once more ...
LoadRecord(q) ==
    /\ request[q].step \in {"finalize", "applied", "reject", "restored"}
    /\ request[q].save = "none"
    /\ request' = [request EXCEPT ![q].record = row[request[q].job], ![q].save = "loaded"]
    /\ UNCHANGED <<row, events, taken, worker, services, counters>>

\* ... and sends the UPDATE, which holds the row until the commit.
Flush(q) ==
    /\ request[q].save = "loaded"
    /\ Unlocked(request[q].job)
    /\ request' = [request EXCEPT ![q].save = "flushed"]
    /\ UNCHANGED <<row, events, taken, worker, services, counters>>

\* The lock has kept the row as the UPDATE met it.
Write(q, job) ==
    /\ request[q].save = "flushed"
    /\ row' = [row EXCEPT ![request[q].job] = WriteBack(@, request[q].record, job)]
Verdict(q, status) == ReleaseLease(Transition(request[q].loaded, status))

\* The job and its outbox event are committed together.
SaveFinalizing(q) ==
    LET j == request[q].job IN
    /\ At(q, "finalize")
    /\ Write(q, RequestFinalization(request[q].loaded, request[q].ids))
    /\ events' = [events EXCEPT ![j] = @ + 1]
    /\ Close(q)
    /\ UNCHANGED <<taken, worker, services, counters>>

\* Product takes an apply again for the job it already shows, and otherwise
\* only if nothing changed the product since the job was created.
Accept(q) ==
    LET j == request[q].job IN
    \/ product.job = j /\ UNCHANGED <<product, accepted>>
    \/ /\ product.job # j
       /\ ~product.touched
       /\ product' = [job |-> j, images |-> SelectOutputs(request[q].loaded, request[q].ids),
                      asked |-> request[q].ids, touched |-> TRUE]
       /\ accepted' = accepted \cup {j}

CallApply(q) ==
    /\ At(q, "apply")
    /\ Accept(q)
    /\ Goto(q, "applied")
    /\ UNCHANGED <<row, events, taken, worker, restored, media, counters>>

SaveApplied(q) ==
    /\ At(q, "applied")
    /\ Write(q, Verdict(q, "APPLIED"))
    /\ Close(q)
    /\ UNCHANGED <<events, taken, worker, services, counters>>

Wipe(j) == media' = [media EXCEPT ![j] = {}]

\* The images go while REJECTED is flushed but not committed.
CleanUp(q) ==
    /\ At(q, "reject")
    /\ request[q].save = "flushed"
    /\ Wipe(request[q].job)
    /\ Goto(q, "cleaned")
    /\ UNCHANGED <<row, events, taken, worker, product, accepted, restored, counters>>

SaveRejected(q) ==
    /\ At(q, "cleaned")
    /\ Write(q, Verdict(q, "REJECTED"))
    /\ Close(q)
    /\ UNCHANGED <<events, taken, worker, services, counters>>

Recleanup(q) ==
    /\ At(q, "recleanup")
    /\ Wipe(request[q].job)
    /\ Close(q)
    /\ UNCHANGED <<row, events, taken, worker, product, accepted, restored, counters>>

\* Product restores its snapshot for the job it shows, or did so before.
Restore(j) ==
    \/ /\ product.job = j
       /\ product' = [Original EXCEPT !.touched = TRUE]
       /\ restored' = restored \cup {j}
    \/ /\ product.job # j
       /\ j \in restored
       /\ UNCHANGED <<product, restored>>

\* Only after the call does transition() refuse a job that is not APPLIED.
CallRollback(q) ==
    /\ At(q, "rollback")
    /\ Restore(request[q].job)
    /\ IF CanMove(request[q].loaded, "ROLLED_BACK") THEN Goto(q, "restored") ELSE Close(q)
    /\ UNCHANGED <<row, events, taken, worker, accepted, media, counters>>

SaveRolledBack(q) ==
    /\ At(q, "restored")
    /\ Write(q, Verdict(q, "ROLLED_BACK"))
    /\ Close(q)
    /\ UNCHANGED <<events, taken, worker, services, counters>>

\* A service refuses or does not answer, and did nothing: the exception rolls
\* the transaction back, REJECTED included.
ServiceRefuses(q) ==
    /\ \/ request[q].step \in {"apply", "rollback", "recleanup"}
       \/ At(q, "reject") /\ request[q].save = "flushed"
    /\ Close(q)
    /\ UNCHANGED <<row, events, taken, worker, services, counters>>

\* The service did its part but the answer, the request or its commit is lost.
AnswerLost(q) ==
    LET j == request[q].job IN
    /\ lost < MaxLost
    /\ lost' = lost + 1
    /\ \/ At(q, "apply") /\ Accept(q) /\ UNCHANGED <<restored, media>>
       \/ At(q, "rollback") /\ Restore(j) /\ UNCHANGED <<accepted, media>>
       \/ At(q, "recleanup") /\ Wipe(j) /\ UNCHANGED <<product, accepted, restored>>
       \/ request[q].step \in {"finalize", "applied", "reject", "cleaned", "restored"} /\ UNCHANGED services
    /\ Close(q)
    /\ UNCHANGED <<row, events, taken, worker, overlapped, skipped, requests>>

RequestStep(q) ==
    \/ \E j \in Jobs : ReadForApply(q, j) \/ ReadForReject(q, j) \/ ReadForRollback(q, j)
    \/ LoadRecord(q)
    \/ Flush(q)
    \/ SaveFinalizing(q)
    \/ CallApply(q)
    \/ SaveApplied(q)
    \/ CleanUp(q)
    \/ SaveRejected(q)
    \/ Recleanup(q)
    \/ CallRollback(q)
    \/ SaveRolledBack(q)
    \/ ServiceRefuses(q)
    \/ AnswerLost(q)

-----------------------------------------------------------------------------
(* The worker's transactions on the row.                                   *)

\* Seeded fault: messages are consumed that were never sent.
WorkerTakesUnsent(j) ==
    /\ worker[j].step = "idle"
    /\ taken' = [taken EXCEPT ![j] = @ + 1]
    /\ taken[j] <= MaxRequests
    /\ UNCHANGED <<row, worker, events, request, services, counters>>

\* A message for a row that is locked or not claimable is acknowledged unused.
WorkerTakes(j) ==
    /\ worker[j].step = "idle"
    /\ taken[j] < events[j]
    /\ taken' = [taken EXCEPT ![j] = @ + 1]
    /\ IF Unlocked(j) /\ CanClaim(row[j])
       THEN /\ row' = [row EXCEPT ![j] = Claim(@)]
            /\ worker' = [worker EXCEPT ![j] = [NoWork EXCEPT !.step = "claimed",
                                                         !.loaded = Claim(row[j])]]
       ELSE UNCHANGED <<row, worker>>
    /\ skipped' = IF Unlocked(j) THEN skipped ELSE skipped \cup {j}
    /\ UNCHANGED <<events, request, services, overlapped, requests, lost>>

WorkerGenerates(j) ==
    /\ worker[j].step = "claimed"
    /\ worker[j].loaded.attempt <= MaxRetry
    /\ Unlocked(j)
    /\ worker' = [worker EXCEPT ![j].step = "generate"]
    /\ UNCHANGED <<row, events, taken, request, services, counters>>

\* The first of several saves took the lock, the last one writes every column.
WorkerCompletes(j) ==
    LET job == worker[j].loaded
        made == [source : job.sources, mode : job.modes,
                 profile : {job.profile}, attempt : {job.attempt}]
    IN
    /\ worker[j].step = "generate"
    /\ row' = [row EXCEPT ![j] = WriteBack(@, @, Completed(job, made))]
    /\ media' = [media EXCEPT ![j] = @ \cup made]
    /\ worker' = [worker EXCEPT ![j] = NoWork]
    /\ UNCHANGED <<events, taken, request, product, accepted, restored, counters>>

\* Without an attempt left, or a source image, the failure is the only save.
WorkerGivesUp(j) ==
    /\ worker[j].step = "claimed"
    /\ worker' = [worker EXCEPT ![j].step = "giveup", ![j].record = row[j]]
    /\ UNCHANGED <<row, events, taken, request, services, counters>>

WorkerFails(j) ==
    LET job == worker[j].loaded IN
    /\ \/ /\ worker[j].step = "giveup"
          /\ Unlocked(j)
          /\ row' = [row EXCEPT ![j] = WriteBack(@, worker[j].record, Failed(job, FailureOf(job)))]
          /\ UNCHANGED media
       \/ /\ worker[j].step = "generate"
          /\ row' = [row EXCEPT ![j] = WriteBack(@, @, Failed(Generating(job), "PIPELINE"))]
          /\ media' \in {media, [media EXCEPT ![j] = {}]}
    /\ worker' = [worker EXCEPT ![j] = NoWork]
    /\ UNCHANGED <<events, taken, request, product, accepted, restored, counters>>

Next ==
    \/ \E q \in Requests : RequestStep(q)
    \/ \E j \in Jobs : \/ WorkerTakes(j)
                       \/ WorkerGenerates(j)
                       \/ WorkerCompletes(j)
                       \/ WorkerGivesUp(j)
                       \/ WorkerFails(j)

Spec == Init /\ [][Next]_vars

-----------------------------------------------------------------------------
(* Properties.                                                             *)

\* apply_outputs.py and rollback_job.py: a verdict on the product is only
\* recorded once the Product Service carried it out, whatever other requests do
\* to the row meanwhile and whichever answers were lost.
VerdictsCarriedOut ==
    \A j \in Jobs :
        /\ row[j].status = "APPLIED" => j \in accepted
        /\ row[j].status = "ROLLED_BACK" => j \in restored

\* sqlalchemy_repository.py:129: a job that waits for its final run has an event
\* on the way that no worker has used up, however requests overlap: a message is
\* consumed by a claim, or the job does not need it.  The one way to lose it is
\* SKIP LOCKED, when the message meets a row that a flushed save holds.
FinalizingHasEvent ==
    \A j \in Jobs : row[j].status = "FINALIZING" /\ j \notin skipped => taken[j] < events[j]

\* As long as requests on a job do not overlap ...
Alone(j) == j \notin overlapped

\* ... committed statuses follow ALLOWED_TRANSITIONS, although each is computed
\* from a snapshot that external calls have aged.
StatusMovesAllowed ==
    [][\A j \in Jobs : Alone(j)' /\ row'[j].status # row[j].status
                         => CanMove(row[j], row'[j].status)]_vars

BeingRejected(j) == \E q \in Requests : request[q].job = j /\ At(q, "cleaned")

\* ... and, if no answer was lost either, no cleanup removed images that the
\* product shows or that the seller still reviews, but for the moment between
\* the cleanup of a reject and its commit.
NeededImagesStored ==
    lost = 0 =>
        /\ product.job # NoJob /\ Alone(product.job) => product.images \subseteq media[product.job]
        /\ \A j \in Jobs :
               Alone(j) /\ row[j].status = "REVIEW_REQUIRED" /\ ~BeingRejected(j)
                   => row[j].outputs \subseteq media[j]
=============================================================================
