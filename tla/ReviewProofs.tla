---------------------------- MODULE ReviewProofs ----------------------------
(***************************************************************************)
(* Theorems about Review, for every number of jobs, requests and faults.   *)
(***************************************************************************)
EXTENDS Review, TLAPS

-----------------------------------------------------------------------------
(* What the operations of the aggregate return.                            *)

Failures == {"NONE", "PIPELINE", "CLEANUP_PENDING", "MAX_ATTEMPTS_EXCEEDED"}

\* The setters of the aggregate yield jobs.
LEMMA SettersAre ==
  ASSUME NEW job \in Job
  PROVE  /\ \A status \in Statuses : /\ Transition(job, status) \in Job
                                     /\ Transition(job, status).status = status
         /\ \A stage \in Stages : /\ WithStage(job, stage) \in Job
                                  /\ WithStage(job, stage).status = job.status
         /\ \A code \in Failures : WithFailure(job, code) \in Job
         /\ \A assets \in SUBSET Asset : WithOutputs(job, assets) \in Job
         /\ ReleaseLease(job) \in Job /\ ReleaseLease(job).status = job.status
<1>1. PICK version \in Nat : version = job.version + 1
  BY DEF Job
<1>2. ASSUME NEW status \in Statuses
      PROVE  Transition(job, status) \in Job /\ Transition(job, status).status = status
  <2>1. Transition(job, status) = [job EXCEPT !.status = status, !.version = version]
    BY <1>1 DEF Transition
  <2> QED
    BY <2>1 DEF Job
<1>3. ASSUME NEW stage \in Stages
      PROVE  WithStage(job, stage) \in Job /\ WithStage(job, stage).status = job.status
  <2>1. WithStage(job, stage) = [job EXCEPT !.stage = stage, !.version = version]
    BY <1>1 DEF WithStage
  <2> QED
    BY <2>1 DEF Job
<1>4. ASSUME NEW code \in Failures PROVE WithFailure(job, code) \in Job
  <2>1. WithFailure(job, code) = [job EXCEPT !.failure = code, !.lease = 0, !.version = version]
    BY <1>1 DEF WithFailure
  <2>2. [job EXCEPT !.failure = code, !.lease = 0, !.version = version] \in Job
    BY DEF Job, Failures
  <2> QED
    BY <2>1, <2>2 DEF Job
<1>5. ASSUME NEW assets \in SUBSET Asset PROVE WithOutputs(job, assets) \in Job
  <2>1. WithOutputs(job, assets) = [job EXCEPT !.outputs = assets, !.version = version]
    BY <1>1 DEF WithOutputs
  <2> QED
    BY <2>1 DEF Job
<1>6. ReleaseLease(job) \in Job /\ ReleaseLease(job).status = job.status
  <2>1. ReleaseLease(job) = [job EXCEPT !.lease = 0, !.version = version]
    BY <1>1 DEF ReleaseLease
  <2>2. [job EXCEPT !.lease = 0, !.version = version] \in Job
    BY DEF Job
  <2> QED
    BY <2>1, <2>2 DEF Job
<1> QED
  BY <1>2, <1>3, <1>4, <1>5, <1>6

\* Claiming yields a job that is PROCESSING under a lease, one attempt on.
LEMMA ClaimType ==
  ASSUME NEW job \in Job
  PROVE  /\ Claim(job) \in Job
         /\ Claim(job).status = "PROCESSING"
         /\ Claim(job).attempt = job.attempt + 1
         /\ Claim(job).lease = LeaseTicks /\ LeaseTicks > 0
<1> DEFINE version == job.version + 1
           attempt == job.attempt + 1
<1>1. version \in Nat /\ attempt \in Nat /\ LeaseTicks \in Nat /\ LeaseTicks > 0
  BY JobAssumption DEF Job
<1>2. Claim(job) = [job EXCEPT !.status = "PROCESSING", !.stage = "FETCHING_SOURCE", !.attempt = attempt,
                               !.version = version, !.lease = LeaseTicks, !.failure = "NONE"]
  BY DEF Claim
<1> HIDE DEF version, attempt
<1>3. Claim(job) \in Job
  BY <1>1, <1>2 DEF Job, Statuses, Stages
<1>4. Claim(job).status = "PROCESSING" /\ Claim(job).attempt = attempt /\ Claim(job).lease = LeaseTicks
  BY <1>2 DEF Job
<1> QED
  BY <1>1, <1>3, <1>4 DEF attempt

\* What the pipeline makes of a job is a job.
LEMMA GeneratingType ==
  ASSUME NEW job \in Job
  PROVE  Generating(job) \in Job
  BY SettersAre DEF Generating, Stages

LEMMA FailedType ==
  ASSUME NEW job \in Job, NEW code \in Failures
  PROVE  /\ Failed(job, code) \in Job
         /\ Failed(job, code).status = "FAILED"
  BY SettersAre DEF Failed, Stages, Statuses

LEMMA CompletedType ==
  ASSUME NEW job \in Job, NEW assets \in SUBSET Asset
  PROVE  /\ Completed(job, assets) \in Job
         /\ Completed(job, assets).status = "REVIEW_REQUIRED"
<1> DEFINE uploaded == WithStage(Generating(job), "UPLOADING")
           given == WithOutputs(uploaded, assets)
<1>1. uploaded \in Job
  BY SettersAre, GeneratingType DEF Stages
<1>2. given \in Job
  BY <1>1, SettersAre
<1> HIDE DEF uploaded, given
<1>3. Completed(job, assets) = ReleaseLease(Transition(WithStage(given, "READY"), "REVIEW_REQUIRED"))
  BY DEF Completed, uploaded, given
<1> QED
  BY <1>2, <1>3, SettersAre DEF Stages, Statuses

\* Finalization selects among the outputs.
LEMMA FinalizationType ==
  ASSUME NEW job \in Job, NEW ids
  PROVE  /\ SelectOutputs(job, ids) \subseteq Asset
         /\ RequestFinalization(job, ids) \in Job
         /\ RequestFinalization(job, ids).status = "FINALIZING"
<1> DEFINE chosen == SelectOutputs(job, ids)
           from == {a.source : a \in chosen}
           version == job.version + 1
<1>1. chosen \subseteq Asset /\ from \subseteq Sources /\ version \in Nat
  BY DEF SelectOutputs, OfSelectedSources, Job, Asset
<1>2. RequestFinalization(job, ids) =
          [job EXCEPT !.status = "FINALIZING", !.stage = "QUEUED", !.profile = "FINAL",
                      !.sources = from, !.selected = chosen, !.version = version]
  BY DEF RequestFinalization
<1> HIDE DEF chosen, from, version
<1>3. RequestFinalization(job, ids) \in Job
  BY <1>1, <1>2 DEF Job, Statuses, Stages, Profiles
<1> QED
  BY <1>1, <1>2, <1>3 DEF Job, chosen

\* A verdict of the seller.
LEMMA VerdictType ==
  ASSUME NEW job \in Job, NEW status \in Statuses
  PROVE  /\ ReleaseLease(Transition(job, status)) \in Job
         /\ ReleaseLease(Transition(job, status)).status = status
  BY SettersAre

\* save() writes a well-formed row.
LEMMA WriteBackType ==
  ASSUME NEW old \in Job, NEW loaded \in Job, NEW job \in Job
  PROVE  WriteBack(old, loaded, job) \in Job
  BY DEF WriteBack, Column, Job

\* The run a job asks for: its profile, its sources and its modes.
SameRun(a, b) == a.profile = b.profile /\ a.sources = b.sources /\ a.modes = b.modes

\* A claim, which starts over, is for the run the job asked for.
LEMMA ClaimRun ==
  ASSUME NEW job \in Job
  PROVE  SameRun(Claim(job), job)
  BY DEF Job, SameRun, Claim

\* A failed job asks for the same run when it is taken up again.
LEMMA FailedRun ==
  ASSUME NEW job \in Job, NEW code \in Failures
  PROVE  SameRun(Failed(job, code), job)
  BY DEF Job, SameRun, Failed, ReleaseLease, Transition, WithStage, WithFailure

\* The stages of the pipeline change neither run nor status.
LEMMA GeneratingRun ==
  ASSUME NEW job \in Job
  PROVE  SameRun(Generating(job), job) /\ Generating(job).status = job.status
  BY DEF Job, SameRun, Generating, WithStage

\* A completed job has the outputs it was given.
LEMMA CompletedRun ==
  ASSUME NEW job \in Job, NEW assets \in SUBSET Asset
  PROVE  SameRun(Completed(job, assets), job) /\ Completed(job, assets).outputs = assets
  BY DEF Job, SameRun, Completed, Generating, WithStage, WithOutputs, ReleaseLease, Transition

\* A verdict of the seller is about the run the job asked for.
LEMMA VerdictRun ==
  ASSUME NEW job \in Job, NEW status \in Statuses
  PROVE  SameRun(ReleaseLease(Transition(job, status)), job)
  BY DEF Job, SameRun, ReleaseLease, Transition

\* The final run has the modes of the preview, and sources if something was chosen.
LEMMA FinalizationRun ==
  ASSUME NEW job \in Job, NEW ids, SelectOutputs(job, ids) # {}
  PROVE  /\ RequestFinalization(job, ids).profile = "FINAL"
         /\ RequestFinalization(job, ids).modes = job.modes
         /\ RequestFinalization(job, ids).sources # {}
<1> DEFINE from == {a.source : a \in SelectOutputs(job, ids)}
<1>1. from # {}
  OBVIOUS
<1>2. /\ RequestFinalization(job, ids).profile = "FINAL"
      /\ RequestFinalization(job, ids).modes = job.modes
      /\ RequestFinalization(job, ids).sources = from
  BY DEF Job, RequestFinalization
<1> QED
  BY <1>1, <1>2

-----------------------------------------------------------------------------
(* Types: an open request is about a job.                                  *)

RequestSteps == {"idle", "finalize", "apply", "applied", "reject", "cleaned",
                 "recleanup", "rollback", "restored"}
Request == [step : RequestSteps, job : Jobs \cup {NoJob}, ids : SUBSET Asset, loaded : Job,
            record : Job, save : {"none", "loaded", "flushed"}]
Work == [step : {"idle", "claimed", "generate", "giveup"}, loaded : Job, record : Job]

TypeInv ==
    /\ TypeOK
    /\ \A q \in Requests : ~At(q, "idle") => request[q].job \in Jobs

\* What the rows, the requests and the worker's tasks are.
LEMMA Rows ==
  ASSUME TypeInv
  PROVE  /\ row \in [Jobs -> Job] /\ request \in [Requests -> Request]
         /\ worker \in [Jobs -> Work]
  BY DEF TypeInv, TypeOK, Request, RequestSteps, Work

LEMMA NewJobType ==
  ASSUME NEW sources \in SUBSET Sources, NEW modes \in SUBSET Modes
  PROVE  NewJob(sources, modes) \in Job
  BY DEF NewJob, Job, Statuses, Stages, Profiles

LEMMA Blank == NoRequest \in Request /\ NoWork \in Work
<1>1. NewJob({}, {}) \in Job
  BY NewJobType
<1> QED
  BY <1>1 DEF NoRequest, NoWork, NoRecord, Request, RequestSteps, Work

\* Moving a request on, and closing it.
LEMMA GotoRequest ==
  ASSUME TypeInv, NEW q \in Requests, ~At(q, "idle"), NEW step \in RequestSteps, Goto(q, step)
  PROVE  /\ request' \in [Requests -> Request]
         /\ request'[q].step = step /\ request'[q].job = request[q].job
         /\ \A r \in Requests \ {q} : request'[r] = request[r]
         /\ \A r \in Requests : ~At(r, "idle")' => request'[r].job \in Jobs
<1>1. request \in [Requests -> Request] /\ request[q].job \in Jobs
  BY Rows DEF TypeInv
<1>2. request' = [request EXCEPT ![q] = [request[q] EXCEPT !.step = step]]
  BY <1>1 DEF Goto
<1>3. /\ [request[q] EXCEPT !.step = step] \in Request
      /\ [request[q] EXCEPT !.step = step].step = step
      /\ [request[q] EXCEPT !.step = step].job = request[q].job
  BY <1>1 DEF Request
<1>4. /\ request' \in [Requests -> Request]
      /\ request'[q].step = step /\ request'[q].job = request[q].job
      /\ \A r \in Requests \ {q} : request'[r] = request[r]
  BY <1>1, <1>2, <1>3
<1>5. ASSUME NEW r \in Requests, ~At(r, "idle")' PROVE request'[r].job \in Jobs
  <2>1. CASE r = q
    BY <1>1, <1>4, <2>1
  <2>2. CASE r # q
    BY <1>4, <1>5, <2>2 DEF TypeInv, At
  <2> QED
    BY <2>1, <2>2
<1> QED
  BY <1>4, <1>5

\* The steps that end in a save.
SaveSteps == {"finalize", "applied", "reject", "restored"}

\* The two stages of a save that leave the row alone: the record is read, or kept.
LEMMA SavingRequest ==
  ASSUME TypeInv, NEW q \in Requests, LoadRecord(q) \/ Flush(q)
  PROVE  /\ ~At(q, "idle") => request[q].job \in Jobs
         /\ request' \in [Requests -> Request]
         /\ request'[q].step = request[q].step /\ request'[q].job = request[q].job
         /\ request'[q].ids = request[q].ids /\ request'[q].loaded = request[q].loaded
         /\ \/ request[q].step \in SaveSteps /\ request'[q].record = row[request[q].job]
            \/ request[q].save # "none" /\ request'[q].record = request[q].record
         /\ \A r \in Requests \ {q} : request'[r] = request[r]
         /\ \A r \in Requests : ~At(r, "idle")' => request'[r].job \in Jobs
         /\ UNCHANGED <<row, events, taken, worker, services, counters>>
<1>1. request \in [Requests -> Request] /\ request[q] \in Request /\ row \in [Jobs -> Job]
  BY Rows
<1>2. CASE LoadRecord(q)
  <2> DEFINE record == row[request[q].job]
  <2>1. ~At(q, "idle") /\ request[q].step \in SaveSteps /\ request[q].job \in Jobs /\ record \in Job
    BY <1>1, <1>2 DEF LoadRecord, SaveSteps, At, TypeInv
  <2> HIDE DEF record
  <2>2. request' = [request EXCEPT ![q] = [request[q] EXCEPT !.record = record, !.save = "loaded"]]
    BY <1>1, <1>2 DEF LoadRecord, record
  <2>3. /\ request'[q] = [request[q] EXCEPT !.record = record, !.save = "loaded"]
        /\ \A r \in Requests \ {q} : request'[r] = request[r]
        /\ request' \in [Requests -> Request]
    BY <1>1, <2>1, <2>2 DEF Request
  <2>4. /\ request'[q].step = request[q].step /\ request'[q].job = request[q].job
        /\ request'[q].ids = request[q].ids /\ request'[q].loaded = request[q].loaded
        /\ request'[q].record = record
    BY <1>1, <2>3 DEF Request
  <2> QED
    BY <1>2, <2>1, <2>3, <2>4 DEF LoadRecord, record, TypeInv, At
<1>3. CASE Flush(q)
  <2>1. request' = [request EXCEPT ![q] = [request[q] EXCEPT !.save = "flushed"]]
        /\ request[q].save # "none"
    BY <1>1, <1>3 DEF Flush
  <2>2. /\ request'[q] = [request[q] EXCEPT !.save = "flushed"]
        /\ \A r \in Requests \ {q} : request'[r] = request[r]
        /\ request' \in [Requests -> Request]
    BY <1>1, <2>1 DEF Request
  <2>3. /\ request'[q].step = request[q].step /\ request'[q].job = request[q].job
        /\ request'[q].ids = request[q].ids /\ request'[q].loaded = request[q].loaded
        /\ request'[q].record = request[q].record
    BY <1>1, <2>2 DEF Request
  <2> QED
    BY <1>3, <2>1, <2>2, <2>3 DEF Flush, TypeInv, At
<1> QED
  BY <1>2, <1>3

LEMMA CloseRequest ==
  ASSUME TypeInv, NEW q \in Requests, Close(q)
  PROVE  /\ request' \in [Requests -> Request]
         /\ request'[q].step = "idle"
         /\ \A r \in Requests \ {q} : request'[r] = request[r]
         /\ \A r \in Requests : ~At(r, "idle")' => request'[r].job \in Jobs
<1>1. request \in [Requests -> Request]
  BY Rows
<1>2. /\ request' \in [Requests -> Request] /\ request'[q] = NoRequest
      /\ \A r \in Requests \ {q} : request'[r] = request[r]
  BY <1>1, Blank DEF Close
<1>3. NoRequest.step = "idle"
  BY DEF NoRequest
<1> QED
  BY <1>2, <1>3 DEF TypeInv, At

\* What save() does to the rows: the status of the row or the one written.
LEMMA Written ==
  ASSUME TypeInv, NEW j \in Jobs, NEW record \in Job, NEW job \in Job,
         row' = [row EXCEPT ![j] = WriteBack(@, record, job)]
  PROVE  /\ row' \in [Jobs -> Job]
         /\ row'[j].status \in {row[j].status, job.status}
         /\ \A k \in Jobs \ {j} : row'[k] = row[k]
<1>1. row \in [Jobs -> Job] /\ row[j] \in Job
  BY Rows
<1>2. WriteBack(row[j], record, job) \in Job
  BY <1>1, WriteBackType
<1>3. WriteBack(row[j], record, job).status \in {row[j].status, job.status}
  BY DEF WriteBack, Column
<1> QED
  BY <1>1, <1>2, <1>3

LEMMA WriteRequest ==
  ASSUME TypeInv, NEW q \in Requests, ~At(q, "idle"), NEW job \in Job, Write(q, job)
  PROVE  /\ row' \in [Jobs -> Job]
         /\ \A j \in Jobs : \/ row'[j] = row[j]
                            \/ j = request[q].job /\ row'[j].status \in {row[j].status, job.status}
<1>1. request[q].job \in Jobs /\ request[q].record \in Job
  BY Rows DEF TypeInv, Request
<1> QED
  BY <1>1, Written DEF Write

\* A verdict is a well-formed job of that status.
LEMMA VerdictOf ==
  ASSUME TypeInv, NEW q \in Requests, NEW status \in Statuses
  PROVE  Verdict(q, status) \in Job /\ Verdict(q, status).status = status
<1>1. request[q].loaded \in Job
  BY Rows DEF Request
<1> QED
  BY <1>1, VerdictType DEF Verdict

-----------------------------------------------------------------------------
(* The services.                                                           *)

Product == [job : Jobs \cup {NoJob}, images : SUBSET Asset, asked : SUBSET Asset,
            touched : BOOLEAN]

\* Product shows the job of the request, which it accepted now or before.
LEMMA AcceptEffect ==
  ASSUME TypeInv, NEW q \in Requests, ~At(q, "idle"), Accept(q)
  PROVE  /\ product' \in Product /\ accepted' \subseteq Jobs /\ accepted \subseteq accepted'
         /\ product'.job = request[q].job
         /\ request[q].job \in accepted' \/ (product.job = request[q].job /\ accepted' = accepted)
<1>1. /\ request[q].job \in Jobs /\ request[q].ids \in SUBSET Asset /\ request[q].loaded \in Job
      /\ product \in Product /\ accepted \subseteq Jobs
  BY Rows DEF TypeInv, TypeOK, Request, Product
<1>2. SelectOutputs(request[q].loaded, request[q].ids) \in SUBSET Asset
  BY <1>1, FinalizationType
<1>3. CASE product.job = request[q].job /\ UNCHANGED <<product, accepted>>
  BY <1>1, <1>3
<1>4. CASE product' = [job |-> request[q].job,
                       images |-> SelectOutputs(request[q].loaded, request[q].ids),
                       asked |-> request[q].ids, touched |-> TRUE]
           /\ accepted' = accepted \cup {request[q].job}
  <2> DEFINE images == SelectOutputs(request[q].loaded, request[q].ids)
             j == request[q].job
             asked == request[q].ids
  <2>1. /\ j \in Jobs /\ asked \in SUBSET Asset /\ images \in SUBSET Asset
        /\ product' = [job |-> j, images |-> images, asked |-> asked, touched |-> TRUE]
    BY <1>1, <1>2, <1>4
  <2> HIDE DEF images, j, asked
  <2>2. product' \in Product /\ product'.job = j
    BY <2>1 DEF Product
  <2>3. accepted' = accepted \cup {j} /\ j = request[q].job
    BY <1>4 DEF j
  <2>4. accepted' \subseteq Jobs /\ accepted \subseteq accepted' /\ j \in accepted'
    BY <1>1, <2>1, <2>3
  <2> QED
    BY <2>2, <2>3, <2>4
<1> QED
  BY <1>3, <1>4 DEF Accept

\* The job is among the restored, and Product shows it no more if it did.
LEMMA RestoreEffect ==
  ASSUME TypeInv, NEW j \in Jobs, Restore(j)
  PROVE  /\ product' \in Product /\ restored' \subseteq Jobs /\ restored \subseteq restored'
         /\ j \in restored'
         /\ product' = product \/ product'.job = NoJob
<1>1. product \in Product /\ restored \subseteq Jobs
  BY DEF TypeInv, TypeOK, Product
<1>2. CASE product' = [Original EXCEPT !.touched = TRUE] /\ restored' = restored \cup {j}
  <2>1. product' = [job |-> NoJob, images |-> {}, asked |-> {}, touched |-> TRUE]
    BY <1>2 DEF Original
  <2>2. product' \in Product /\ product'.job = NoJob
    BY <2>1 DEF Product
  <2> QED
    BY <1>1, <1>2, <2>2
<1>3. CASE j \in restored /\ UNCHANGED <<product, restored>>
  BY <1>1, <1>3
<1> QED
  BY <1>2, <1>3 DEF Restore

LEMMA WipeType ==
  ASSUME TypeInv, NEW j \in Jobs, Wipe(j)
  PROVE  media' \in [Jobs -> SUBSET Asset]
  BY DEF TypeInv, TypeOK, Wipe

\* What the services keep, for the steps that do not call them.
ServicesOK ==
    /\ product \in Product
    /\ accepted \subseteq Jobs /\ restored \subseteq Jobs
    /\ media \in [Jobs -> SUBSET Asset]
EventsOK ==
    /\ events \in [Jobs -> Nat] /\ taken \in [Jobs -> Nat]
    /\ \A j \in Jobs : taken[j] <= events[j]
CountersOK ==
    /\ overlapped \subseteq Jobs /\ skipped \subseteq Jobs
    /\ requests \in Nat /\ lost \in Nat
RequestsOK ==
    /\ request \in [Requests -> Request]
    /\ \A q \in Requests : ~At(q, "idle") => request[q].job \in Jobs

LEMMA Parts ==
    TypeInv <=> /\ row \in [Jobs -> Job] /\ worker \in [Jobs -> Work]
                /\ RequestsOK /\ ServicesOK /\ EventsOK /\ CountersOK
  BY DEF TypeInv, TypeOK, RequestsOK, ServicesOK, EventsOK, CountersOK,
         Request, RequestSteps, Work, Product

LEMMA PartsNext ==
    TypeInv' <=> /\ row' \in [Jobs -> Job] /\ worker' \in [Jobs -> Work]
                 /\ RequestsOK' /\ ServicesOK' /\ EventsOK' /\ CountersOK'
  BY DEF TypeInv, TypeOK, RequestsOK, ServicesOK, EventsOK, CountersOK,
         Request, RequestSteps, Work, Product

LEMMA Unchanging ==
  ASSUME TypeInv
  PROVE  /\ UNCHANGED <<events, taken>> => EventsOK'
         /\ UNCHANGED services => ServicesOK'
         /\ UNCHANGED counters => CountersOK'
         /\ UNCHANGED request => RequestsOK'
  BY Parts DEF EventsOK, ServicesOK, services, CountersOK, counters, RequestsOK, At

-----------------------------------------------------------------------------
(* Steps keep the types.                                                   *)

LEMMA OpenType ==
  ASSUME TypeInv, NEW q \in Requests, NEW j \in Jobs, NEW ids \in SUBSET Asset,
         NEW step \in RequestSteps, Open(q, j, ids, step)
  PROVE  /\ TypeInv'
         /\ request'[q].step = step /\ request'[q].job = j /\ request'[q].ids = ids
         /\ request'[q].loaded = row[j] /\ request'[q].save = "none"
         /\ \A r \in Requests \ {q} : request'[r] = request[r]
         /\ UNCHANGED <<row, events, taken, worker, services, skipped>>
<1> DEFINE opened == [NoRequest EXCEPT !.step = step, !.job = j, !.ids = ids, !.loaded = row[j]]
<1>1. row[j] \in Job /\ request \in [Requests -> Request] /\ NoRequest \in Request
  BY Rows, Blank
<1>2. NoRequest.save = "none"
  BY DEF NoRequest
<1>a. /\ opened \in Request
      /\ opened.step = step /\ opened.job = j /\ opened.ids = ids
      /\ opened.loaded = row[j] /\ opened.save = "none"
  BY <1>1, <1>2 DEF Request
<1>b. request' = [request EXCEPT ![q] = opened]
  BY DEF Open
<1> HIDE DEF opened
<1>3. /\ request' \in [Requests -> Request] /\ request'[q] = opened
      /\ \A r \in Requests \ {q} : request'[r] = request[r]
  BY <1>1, <1>a, <1>b
<1>4. RequestsOK'
  BY <1>3, <1>a, Parts DEF RequestsOK, At
<1>5. CountersOK'
  BY Parts DEF Open, CountersOK
<1>6. ServicesOK' /\ EventsOK' /\ row' \in [Jobs -> Job] /\ worker' \in [Jobs -> Work]
  BY Unchanging, Parts DEF Open
<1> QED
  BY <1>3, <1>a, <1>4, <1>5, <1>6, PartsNext DEF Open

-----------------------------------------------------------------------------
(* What a step may do, whichever it is: where a status may come from, and  *)
(* what becomes of the promise a request, Product or the outbox made.      *)

\* A verdict is written by a request that had the answer of Product.
StatusExplained(j) ==
    \/ row'[j].status = row[j].status
    \/ row'[j].status \in {"PROCESSING", "REVIEW_REQUIRED", "FAILED", "REJECTED"}
    \/ row'[j].status = "FINALIZING" /\ taken'[j] < events'[j]
    \/ row'[j].status = "APPLIED" /\ \E q \in Requests : At(q, "applied") /\ request[q].job = j
    \/ row'[j].status = "ROLLED_BACK" /\ \E q \in Requests : At(q, "restored") /\ request[q].job = j

\* The event of a job that keeps waiting for its final run is still there, unless
\* it met a locked row.
EventKept(j) ==
    row[j].status = "FINALIZING" /\ row'[j].status = "FINALIZING" =>
        \/ j \in skipped'
        \/ j \notin skipped /\ (taken[j] < events[j] => taken'[j] < events'[j])

Granted(q) == request'[q].step = request[q].step /\ request'[q].job = request[q].job
AnswerExplained(q) ==
    /\ request'[q].step = "applied" =>
           Granted(q) \/ request'[q].job \in accepted' \/ request'[q].job = product.job
    /\ request'[q].step = "restored" => Granted(q) \/ request'[q].job \in restored'

ProductExplained ==
    /\ accepted \subseteq accepted' /\ restored \subseteq restored'
    /\ product'.job \in {product.job, NoJob} \cup accepted'

Effect ==
    /\ TypeInv'
    /\ \A j \in Jobs : StatusExplained(j) /\ EventKept(j)
    /\ \A q \in Requests : AnswerExplained(q)
    /\ ProductExplained

\* The parts a step leaves alone.
LEMMA QuietParts ==
  ASSUME TypeInv
  PROVE  /\ UNCHANGED row => \A j \in Jobs : StatusExplained(j)
         /\ UNCHANGED <<events, taken, skipped>> => \A j \in Jobs : EventKept(j)
         /\ UNCHANGED request => \A q \in Requests : AnswerExplained(q)
         /\ UNCHANGED <<product, accepted, restored>> => ProductExplained
  BY DEF StatusExplained, EventKept, AnswerExplained, Granted, ProductExplained

LEMMA OneRequest ==
  ASSUME TypeInv, NEW q \in Requests, \A r \in Requests \ {q} : request'[r] = request[r],
         AnswerExplained(q)
  PROVE  \A r \in Requests : AnswerExplained(r)
  BY DEF AnswerExplained, Granted

\* An arriving request changes no more than that.
LEMMA OpenEffect ==
  ASSUME TypeInv, NEW q \in Requests, NEW j \in Jobs, NEW ids \in SUBSET Asset,
         NEW step \in RequestSteps \ {"applied", "restored"}, Open(q, j, ids, step)
  PROVE  Effect
<1>a. /\ TypeInv' /\ request'[q].step = step
      /\ \A r \in Requests \ {q} : request'[r] = request[r]
      /\ UNCHANGED <<row, events, taken, worker, services, skipped>>
  BY OpenType
<1>1. /\ TypeInv' /\ request'[q].step = step
      /\ \A r \in Requests \ {q} : request'[r] = request[r]
      /\ UNCHANGED <<row, events, taken, skipped>> /\ UNCHANGED <<product, accepted, restored>>
  BY <1>a DEF services
<1>2. AnswerExplained(q)
  BY <1>1 DEF AnswerExplained
<1> QED
  BY <1>1, <1>2, OneRequest, QuietParts DEF Effect

LEMMA ReadEffect ==
  ASSUME TypeInv, NEW q \in Requests, NEW j \in Jobs,
         ReadForApply(q, j) \/ ReadForReject(q, j) \/ ReadForRollback(q, j)
  PROVE  Effect
<1>1. /\ {} \in SUBSET Asset /\ row[j] \in Job
      /\ {"finalize", "apply", "reject", "recleanup", "rollback"} \subseteq RequestSteps \ {"applied", "restored"}
  BY Rows DEF RequestSteps
<1>2. CASE ReadForApply(q, j)
  <2>1. PICK ids \in SUBSET (row[j].outputs \cup row[j].selected) :
           Open(q, j, ids, IF row[j].profile = "PREVIEW" THEN "finalize" ELSE "apply")
    BY <1>2 DEF ReadForApply
  <2>2. ids \in SUBSET Asset
    BY <1>1 DEF Job
  <2>3. (IF row[j].profile = "PREVIEW" THEN "finalize" ELSE "apply") \in {"finalize", "apply"}
    OBVIOUS
  <2> QED
    BY <1>1, <2>1, <2>2, <2>3, OpenEffect
<1>3. CASE ReadForReject(q, j)
  <2>1. Open(q, j, {}, "reject") \/ Open(q, j, {}, "recleanup")
    BY <1>3 DEF ReadForReject
  <2> QED
    BY <1>1, <2>1, OpenEffect
<1>4. CASE ReadForRollback(q, j)
  <2>1. Open(q, j, {}, "rollback")
    BY <1>4 DEF ReadForRollback
  <2> QED
    BY <1>1, <2>1, OpenEffect
<1> QED
  BY <1>2, <1>3, <1>4

\* A request that closes without a write.
LEMMA CloseEffect ==
  ASSUME TypeInv, NEW q \in Requests, Close(q), UNCHANGED <<row, events, taken, worker, skipped>>,
         ServicesOK', CountersOK', ProductExplained
  PROVE  Effect
<1>1. RequestsOK' /\ request'[q].step = "idle" /\ \A r \in Requests \ {q} : request'[r] = request[r]
  BY CloseRequest DEF RequestsOK
<1>2. AnswerExplained(q)
  BY <1>1 DEF AnswerExplained
<1>3. TypeInv'
  BY <1>1, Unchanging, Parts, PartsNext
<1> QED
  BY <1>1, <1>2, <1>3, OneRequest, QuietParts DEF Effect

\* A request that moves on without a write.
LEMMA GotoEffect ==
  ASSUME TypeInv, NEW q \in Requests, ~At(q, "idle"), NEW step \in RequestSteps, Goto(q, step),
         UNCHANGED <<row, events, taken, worker, skipped>>,
         ServicesOK', CountersOK', ProductExplained,
         step = "applied" => request[q].job \in accepted' \/ request[q].job = product.job,
         step = "restored" => request[q].job \in restored'
  PROVE  Effect
<1>1. /\ RequestsOK' /\ request'[q].step = step /\ request'[q].job = request[q].job
      /\ \A r \in Requests \ {q} : request'[r] = request[r]
  BY GotoRequest DEF RequestsOK
<1>2. AnswerExplained(q)
  BY <1>1 DEF AnswerExplained
<1>3. TypeInv'
  BY <1>1, Unchanging, Parts, PartsNext
<1> QED
  BY <1>1, <1>2, <1>3, OneRequest, QuietParts DEF Effect

\* A request that gets on with its save, without a write yet.
LEMMA SavingEffect ==
  ASSUME TypeInv, NEW q \in Requests, LoadRecord(q) \/ Flush(q)
  PROVE  Effect
<1>1. /\ RequestsOK' /\ request'[q].step = request[q].step /\ request'[q].job = request[q].job
      /\ \A r \in Requests \ {q} : request'[r] = request[r]
      /\ UNCHANGED <<row, worker>> /\ UNCHANGED <<events, taken>> /\ UNCHANGED services
      /\ UNCHANGED counters
  BY SavingRequest DEF RequestsOK
<1>2. AnswerExplained(q)
  BY <1>1 DEF AnswerExplained, Granted
<1>3. TypeInv'
  BY <1>1, Unchanging, Parts, PartsNext
<1>4. UNCHANGED <<events, taken, skipped>> /\ UNCHANGED <<product, accepted, restored>>
  BY <1>1 DEF counters, services
<1> QED
  BY <1>1, <1>2, <1>3, <1>4, OneRequest, QuietParts DEF Effect

\* A request that writes a verdict and closes.
LEMMA VerdictEffect ==
  ASSUME TypeInv, NEW q \in Requests, ~At(q, "idle"), NEW status \in Statuses,
         Write(q, Verdict(q, status)), Close(q),
         status = "REJECTED" \/ (status = "APPLIED" /\ At(q, "applied"))
             \/ (status = "ROLLED_BACK" /\ At(q, "restored")),
         UNCHANGED <<events, taken, worker, product, accepted, restored, skipped>>,
         ServicesOK', CountersOK'
  PROVE  Effect
<1>1. RequestsOK' /\ request'[q].step = "idle" /\ \A r \in Requests \ {q} : request'[r] = request[r]
  BY CloseRequest DEF RequestsOK
<1>2. AnswerExplained(q)
  BY <1>1 DEF AnswerExplained
<1>3. /\ row' \in [Jobs -> Job]
      /\ \A j \in Jobs : \/ row'[j] = row[j]
                         \/ j = request[q].job /\ row'[j].status \in {row[j].status, status}
  BY VerdictOf, WriteRequest
<1>4. \A j \in Jobs : StatusExplained(j)
  BY <1>3 DEF StatusExplained
<1>5. TypeInv'
  BY <1>1, <1>3, Unchanging, Parts, PartsNext
<1> QED
  BY <1>1, <1>2, <1>4, <1>5, OneRequest, QuietParts DEF Effect

-----------------------------------------------------------------------------
(* Every step has that effect.                                             *)

LEMMA FinalizeEffect ==
  ASSUME TypeInv, NEW q \in Requests, SaveFinalizing(q)
  PROVE  Effect
<1> DEFINE j == request[q].job
           job == RequestFinalization(request[q].loaded, request[q].ids)
<1>1. ~At(q, "idle") /\ Close(q) /\ Write(q, job) /\ events' = [events EXCEPT ![j] = @ + 1]
      /\ UNCHANGED <<taken, worker, product, accepted, restored, skipped>>
      /\ UNCHANGED services /\ UNCHANGED counters
  BY DEF SaveFinalizing, At, services, counters
<1>2. j \in Jobs /\ request[q].loaded \in Job
  BY <1>1, Rows DEF TypeInv, Request
<1>3. job \in Job /\ job.status = "FINALIZING"
  BY <1>2, FinalizationType
<1> HIDE DEF job
<1>4. /\ row' \in [Jobs -> Job]
      /\ \A k \in Jobs : row'[k] = row[k] \/ (k = j /\ row'[k].status \in {row[k].status, job.status})
  BY <1>1, <1>3, WriteRequest
<1> HIDE DEF j
<1>5. /\ EventsOK' /\ taken[j] < events'[j]
      /\ \A k \in Jobs : events[k] <= events'[k] /\ events[k] \in Nat /\ taken[k] \in Nat
  BY <1>1, <1>2, Parts DEF EventsOK
<1>6. RequestsOK' /\ request'[q].step = "idle" /\ \A r \in Requests \ {q} : request'[r] = request[r]
  BY <1>1, CloseRequest DEF RequestsOK
<1>7. AnswerExplained(q)
  BY <1>6 DEF AnswerExplained
<1>8. \A k \in Jobs : StatusExplained(k)
  BY <1>1, <1>3, <1>4, <1>5 DEF StatusExplained
<1>9. ASSUME NEW k \in Jobs PROVE EventKept(k)
  <2>1. events'[k] \in Nat /\ events[k] <= events'[k] /\ taken'[k] = taken[k] /\ taken[k] \in Nat
        /\ events[k] \in Nat
    BY <1>1, <1>5 DEF EventsOK
  <2>2. taken[k] < events[k] => taken'[k] < events'[k]
    BY <2>1
  <2> QED
    BY <1>1, <2>2 DEF EventKept
<1>10. TypeInv'
  BY <1>1, <1>4, <1>5, <1>6, Unchanging, Parts, PartsNext
<1> QED
  BY <1>1, <1>6, <1>7, <1>8, <1>9, <1>10, OneRequest, QuietParts DEF Effect

LEMMA ApplyEffect ==
  ASSUME TypeInv, NEW q \in Requests, CallApply(q)
  PROVE  Effect
<1>1. ~At(q, "idle") /\ Accept(q) /\ Goto(q, "applied") /\ UNCHANGED <<restored, media>>
      /\ UNCHANGED counters /\ UNCHANGED <<row, events, taken, worker, skipped>>
  BY DEF CallApply, At, counters
<1>2. /\ product' \in Product /\ accepted' \subseteq Jobs /\ accepted \subseteq accepted'
      /\ product'.job = request[q].job
      /\ request[q].job \in accepted' \/ (product.job = request[q].job /\ accepted' = accepted)
  BY <1>1, AcceptEffect
<1>3. ServicesOK' /\ CountersOK'
  BY <1>1, <1>2, Unchanging, Parts DEF ServicesOK
<1>4. ProductExplained
  BY <1>1, <1>2 DEF ProductExplained
<1>5. request[q].job \in accepted' \/ request[q].job = product.job
  BY <1>2
<1>6. "applied" \in RequestSteps
  BY DEF RequestSteps
<1> QED
  BY <1>1, <1>3, <1>4, <1>5, <1>6, GotoEffect

LEMMA RollbackEffect ==
  ASSUME TypeInv, NEW q \in Requests, CallRollback(q)
  PROVE  Effect
<1>1. ~At(q, "idle") /\ Restore(request[q].job) /\ (Goto(q, "restored") \/ Close(q))
      /\ UNCHANGED <<accepted, media>>
      /\ UNCHANGED counters /\ UNCHANGED <<row, events, taken, worker, skipped>>
  BY DEF CallRollback, At, counters
<1>2. /\ product' \in Product /\ restored' \subseteq Jobs /\ restored \subseteq restored'
      /\ request[q].job \in restored' /\ (product' = product \/ product'.job = NoJob)
  BY <1>1, RestoreEffect DEF TypeInv
<1>3. ServicesOK' /\ CountersOK'
  BY <1>1, <1>2, Unchanging, Parts DEF ServicesOK
<1>4. ProductExplained
  BY <1>1, <1>2 DEF ProductExplained
<1>5. "restored" \in RequestSteps
  BY DEF RequestSteps
<1>6. CASE Close(q)
  BY <1>1, <1>3, <1>4, <1>6, CloseEffect
<1>7. CASE Goto(q, "restored")
  BY <1>1, <1>2, <1>3, <1>4, <1>5, <1>7, GotoEffect
<1> QED
  BY <1>1, <1>6, <1>7

\* Cleaning up touches the stored images only.
LEMMA WipeServices ==
  ASSUME TypeInv, NEW q \in Requests, ~At(q, "idle"), Wipe(request[q].job),
         UNCHANGED <<product, accepted, restored>>
  PROVE  ServicesOK' /\ ProductExplained
<1>1. media' \in [Jobs -> SUBSET Asset]
  BY WipeType DEF TypeInv
<1> QED
  BY <1>1, Parts, QuietParts DEF ServicesOK

LEMMA LostEffect ==
  ASSUME TypeInv, NEW q \in Requests, AnswerLost(q)
  PROVE  Effect
<1> DEFINE j == request[q].job
<1>1. /\ lost' = lost + 1 /\ Close(q) /\ UNCHANGED <<row, events, taken, worker, skipped>>
      /\ UNCHANGED <<overlapped, skipped, requests>>
  BY DEF AnswerLost
<1>2. CountersOK'
  BY <1>1, Parts DEF CountersOK
<1>3. CASE At(q, "apply") /\ Accept(q) /\ UNCHANGED <<restored, media>>
  <2>1. ~At(q, "idle")
    BY <1>3 DEF At
  <2>2. /\ product' \in Product /\ accepted' \subseteq Jobs /\ accepted \subseteq accepted'
        /\ product'.job = request[q].job
        /\ request[q].job \in accepted' \/ (product.job = request[q].job /\ accepted' = accepted)
    BY <1>3, <2>1, AcceptEffect
  <2>3. ServicesOK' /\ ProductExplained
    BY <1>3, <2>2, Parts DEF ServicesOK, ProductExplained
  <2> QED
    BY <1>1, <1>2, <2>3, CloseEffect
<1>4. CASE At(q, "rollback") /\ Restore(j) /\ UNCHANGED <<accepted, media>>
  <2>1. j \in Jobs
    BY <1>4 DEF At, TypeInv
  <2>2. /\ product' \in Product /\ restored' \subseteq Jobs /\ restored \subseteq restored'
        /\ (product' = product \/ product'.job = NoJob)
    BY <1>4, <2>1, RestoreEffect
  <2>3. ServicesOK' /\ ProductExplained
    BY <1>4, <2>2, Parts DEF ServicesOK, ProductExplained
  <2> QED
    BY <1>1, <1>2, <2>3, CloseEffect
<1>5. CASE At(q, "recleanup") /\ Wipe(j) /\ UNCHANGED <<product, accepted, restored>>
  <2>1. ServicesOK' /\ ProductExplained
    BY <1>5, WipeServices DEF At
  <2> QED
    BY <1>1, <1>2, <2>1, CloseEffect
<1>6. CASE UNCHANGED services
  <2>1. ServicesOK' /\ ProductExplained
    BY <1>6, Unchanging, QuietParts DEF services
  <2> QED
    BY <1>1, <1>2, <2>1, CloseEffect
<1> QED
  BY <1>3, <1>4, <1>5, <1>6 DEF AnswerLost

LEMMA RequestEffect ==
  ASSUME TypeInv, NEW q \in Requests, RequestStep(q)
  PROVE  Effect
<1>1. {"APPLIED", "REJECTED", "ROLLED_BACK"} \subseteq Statuses /\ "cleaned" \in RequestSteps
  BY DEF Statuses, RequestSteps
<1>2. ASSUME NEW j \in Jobs, ReadForApply(q, j) \/ ReadForReject(q, j) \/ ReadForRollback(q, j)
      PROVE  Effect
  BY <1>2, ReadEffect
<1>3. CASE SaveApplied(q)
  <2>1. /\ At(q, "applied") /\ ~At(q, "idle") /\ Write(q, Verdict(q, "APPLIED")) /\ Close(q)
        /\ UNCHANGED <<events, taken, worker, product, accepted, restored, skipped>>
        /\ UNCHANGED services /\ UNCHANGED counters
    BY <1>3 DEF SaveApplied, At, services, counters
  <2> QED
    BY <1>1, <2>1, Unchanging, VerdictEffect
<1>4. CASE SaveRolledBack(q)
  <2>1. /\ At(q, "restored") /\ ~At(q, "idle") /\ Write(q, Verdict(q, "ROLLED_BACK")) /\ Close(q)
        /\ UNCHANGED <<events, taken, worker, product, accepted, restored, skipped>>
        /\ UNCHANGED services /\ UNCHANGED counters
    BY <1>4 DEF SaveRolledBack, At, services, counters
  <2> QED
    BY <1>1, <2>1, Unchanging, VerdictEffect
<1>5. CASE SaveRejected(q)
  <2>1. /\ ~At(q, "idle") /\ Write(q, Verdict(q, "REJECTED")) /\ Close(q)
        /\ UNCHANGED <<events, taken, worker, product, accepted, restored, skipped>>
        /\ UNCHANGED services /\ UNCHANGED counters
    BY <1>5 DEF SaveRejected, At, services, counters
  <2> QED
    BY <1>1, <2>1, Unchanging, VerdictEffect
<1>6. CASE CleanUp(q)
  <2>1. /\ ~At(q, "idle") /\ Goto(q, "cleaned") /\ UNCHANGED <<row, events, taken, worker, skipped>>
        /\ Wipe(request[q].job) /\ UNCHANGED counters /\ UNCHANGED <<product, accepted, restored>>
    BY <1>6 DEF CleanUp, At, counters
  <2>2. ServicesOK' /\ CountersOK' /\ ProductExplained
    BY <2>1, WipeServices, Unchanging
  <2> QED
    BY <1>1, <2>1, <2>2, GotoEffect
<1>7. CASE Recleanup(q)
  <2>1. /\ ~At(q, "idle") /\ Close(q) /\ Wipe(request[q].job)
        /\ UNCHANGED <<row, events, taken, worker, skipped>>
        /\ UNCHANGED <<product, accepted, restored>> /\ UNCHANGED counters
    BY <1>7 DEF Recleanup, At, counters
  <2>2. ServicesOK' /\ CountersOK' /\ ProductExplained
    BY <2>1, WipeServices, Unchanging
  <2> QED
    BY <2>1, <2>2, CloseEffect
<1>8. CASE ServiceRefuses(q)
  <2>1. /\ Close(q) /\ UNCHANGED <<row, events, taken, worker, skipped>>
        /\ UNCHANGED services /\ UNCHANGED counters /\ UNCHANGED <<product, accepted, restored>>
    BY <1>8 DEF ServiceRefuses, services, counters
  <2>2. ServicesOK' /\ CountersOK' /\ ProductExplained
    BY <2>1, Unchanging, QuietParts
  <2> QED
    BY <2>1, <2>2, CloseEffect
<1> QED
  BY <1>2, <1>3, <1>4, <1>5, <1>6, <1>7, <1>8, SavingEffect, FinalizeEffect, ApplyEffect,
     RollbackEffect, LostEffect DEF RequestStep

\* A transaction of the worker that ends with a save.
LEMMA WorkerSaves ==
  ASSUME TypeInv, NEW j \in Jobs, NEW record \in Job, NEW job \in Job,
         job.status \in {"REVIEW_REQUIRED", "FAILED"},
         row' = [row EXCEPT ![j] = WriteBack(@, record, job)],
         worker' = [worker EXCEPT ![j] = NoWork],
         media' \in [Jobs -> SUBSET Asset],
         UNCHANGED <<events, taken, request, product, accepted, restored, counters>>
  PROVE  Effect
<1>1. worker' \in [Jobs -> Work]
  BY Rows, Blank DEF Work
<1>2. /\ row' \in [Jobs -> Job] /\ row'[j].status \in {row[j].status, job.status}
      /\ \A k \in Jobs \ {j} : row'[k] = row[k]
  BY <1>1, Written
<1>3. \A k \in Jobs : StatusExplained(k)
  BY <1>2 DEF StatusExplained
<1>4. ServicesOK' /\ CountersOK' /\ EventsOK' /\ RequestsOK'
  <2>1. ServicesOK'
    BY Parts DEF ServicesOK
  <2> QED
    BY <2>1, Unchanging
<1>5. TypeInv'
  BY <1>1, <1>2, <1>4, PartsNext
<1> QED
  BY <1>3, <1>5, QuietParts DEF Effect, counters

LEMMA TakeEffect ==
  ASSUME TypeInv, NEW j \in Jobs, WorkerTakes(j)
  PROVE  Effect
<1>1. /\ taken[j] < events[j] /\ taken' = [taken EXCEPT ![j] = @ + 1]
      /\ UNCHANGED <<events, request, overlapped, requests, lost>>
      /\ UNCHANGED services /\ UNCHANGED <<product, accepted, restored>>
      /\ row[j] \in Job /\ row \in [Jobs -> Job] /\ worker \in [Jobs -> Work]
  BY Rows DEF WorkerTakes, services
<1>2. /\ EventsOK' /\ \A k \in Jobs \ {j} : taken'[k] = taken[k]
  BY <1>1, Parts DEF EventsOK
<1>3. CountersOK' /\ skipped \subseteq skipped'
  BY <1>1, Parts DEF WorkerTakes, CountersOK
<1>4. CASE Unlocked(j) /\ CanClaim(row[j])
  <2>1. /\ row' = [row EXCEPT ![j] = Claim(@)] /\ skipped' = skipped
        /\ worker' = [worker EXCEPT ![j] =
                          [NoWork EXCEPT !.step = "claimed", !.loaded = Claim(row[j])]]
    BY <1>4 DEF WorkerTakes
  <2>2. Claim(row[j]) \in Job /\ Claim(row[j]).status = "PROCESSING"
    BY <1>1, ClaimType
  <2>3. /\ row' \in [Jobs -> Job] /\ row'[j].status = "PROCESSING"
        /\ \A k \in Jobs \ {j} : row'[k] = row[k]
    BY <1>1, <2>1, <2>2
  <2>4. [NoWork EXCEPT !.step = "claimed", !.loaded = Claim(row[j])] \in Work
    BY <2>2, Blank DEF Work
  <2>5. worker' \in [Jobs -> Work]
    BY <1>1, <2>1, <2>4
  <2>6. \A k \in Jobs : StatusExplained(k)
    BY <2>3 DEF StatusExplained
  <2>7. ASSUME NEW k \in Jobs PROVE EventKept(k)
    <3>1. CASE k = j
      BY <2>3, <3>1 DEF EventKept
    <3>2. CASE k # j
      BY <1>1, <1>2, <2>1, <3>2 DEF EventKept
    <3> QED
      BY <3>1, <3>2
  <2>8. TypeInv'
    BY <1>1, <1>2, <1>3, <2>3, <2>5, Unchanging, PartsNext
  <2> QED
    BY <1>1, <2>6, <2>7, <2>8, QuietParts DEF Effect
<1>5. CASE ~(Unlocked(j) /\ CanClaim(row[j]))
  <2>1. UNCHANGED <<row, worker>> /\ (Unlocked(j) \/ j \in skipped') /\ skipped' \subseteq skipped \cup {j}
    BY <1>5 DEF WorkerTakes
  <2>2. ASSUME NEW k \in Jobs PROVE EventKept(k)
    <3>1. CASE k = j
      BY <1>5, <2>1, <3>1 DEF EventKept, CanClaim
    <3>2. CASE k # j
      BY <1>1, <1>2, <1>3, <2>1, <3>2 DEF EventKept
    <3> QED
      BY <3>1, <3>2
  <2>3. TypeInv'
    BY <1>1, <1>2, <1>3, <2>1, Unchanging, Parts, PartsNext
  <2> QED
    BY <1>1, <2>1, <2>2, <2>3, QuietParts DEF Effect
<1> QED
  BY <1>4, <1>5

LEMMA WorkEffect ==
  ASSUME TypeInv, NEW j \in Jobs,
         WorkerGenerates(j) \/ WorkerCompletes(j) \/ WorkerGivesUp(j) \/ WorkerFails(j)
  PROVE  Effect
<1> DEFINE job == worker[j].loaded
<1>1. job \in Job /\ worker \in [Jobs -> Work] /\ worker[j] \in Work /\ row[j] \in Job
  BY Rows DEF Work
<1>2. media \in [Jobs -> SUBSET Asset]
  BY Parts DEF ServicesOK
<1>3. CASE WorkerGenerates(j) \/ WorkerGivesUp(j)
  <2>1. /\ worker' \in {[worker EXCEPT ![j] = [worker[j] EXCEPT !.step = "generate"]],
                        [worker EXCEPT ![j] = [worker[j] EXCEPT !.step = "giveup", !.record = row[j]]]}
        /\ UNCHANGED <<row, request>> /\ UNCHANGED <<events, taken>> /\ UNCHANGED <<events, taken, skipped>>
        /\ UNCHANGED services /\ UNCHANGED counters /\ UNCHANGED <<product, accepted, restored>>
    BY <1>1, <1>3 DEF WorkerGenerates, WorkerGivesUp, services, counters
  <2>a. /\ [worker[j] EXCEPT !.step = "generate"] \in Work
        /\ [worker[j] EXCEPT !.step = "giveup", !.record = row[j]] \in Work
    BY <1>1 DEF Work
  <2>2. worker' \in [Jobs -> Work]
    BY <1>1, <2>1, <2>a
  <2>3. TypeInv'
    BY <2>1, <2>2, Unchanging, Parts, PartsNext
  <2> QED
    BY <2>1, <2>3, QuietParts DEF Effect
<1>4. CASE WorkerCompletes(j)
  <2> DEFINE made == [source : job.sources, mode : job.modes,
                      profile : {job.profile}, attempt : {job.attempt}]
  <2>1. made \in SUBSET Asset
    BY <1>1 DEF Job, Asset
  <2>2. /\ row' = [row EXCEPT ![j] = WriteBack(@, row[j], Completed(job, made))]
        /\ media' = [media EXCEPT ![j] = @ \cup made]
        /\ worker' = [worker EXCEPT ![j] = NoWork]
        /\ UNCHANGED <<events, taken, request, product, accepted, restored, counters>>
    BY <1>4 DEF WorkerCompletes
  <2> HIDE DEF made
  <2>3. Completed(job, made) \in Job /\ Completed(job, made).status = "REVIEW_REQUIRED"
    BY <1>1, <2>1, CompletedType
  <2>4. media' \in [Jobs -> SUBSET Asset]
    BY <1>2, <2>1, <2>2
  <2> QED
    BY <1>1, <2>2, <2>3, <2>4, WorkerSaves
<1>5. CASE WorkerFails(j)
  <2>1. /\ worker' = [worker EXCEPT ![j] = NoWork]
        /\ UNCHANGED <<events, taken, request, product, accepted, restored, counters>>
        /\ media' \in {media, [media EXCEPT ![j] = {}]}
    BY <1>5 DEF WorkerFails
  <2>2. media' \in [Jobs -> SUBSET Asset]
    BY <1>2, <2>1
  <2>3. PICK failed \in {Failed(job, FailureOf(job)), Failed(Generating(job), "PIPELINE")},
             record \in {row[j], worker[j].record} :
           row' = [row EXCEPT ![j] = WriteBack(@, record, failed)]
    BY <1>5 DEF WorkerFails
  <2>a. record \in Job
    BY <1>1 DEF Work
  <2>4. {FailureOf(job), "PIPELINE"} \subseteq Failures /\ Generating(job) \in Job
    BY <1>1, GeneratingType DEF FailureOf, Failures
  <2>5. failed \in Job /\ failed.status = "FAILED"
    BY <1>1, <2>3, <2>4, FailedType
  <2> QED
    BY <2>1, <2>2, <2>3, <2>a, <2>5, WorkerSaves
<1> QED
  BY <1>3, <1>4, <1>5

LEMMA StepEffect == TypeInv /\ [Next]_vars => Effect
<1> SUFFICES ASSUME TypeInv, [Next]_vars PROVE Effect
  OBVIOUS
<1>1. ASSUME NEW q \in Requests, RequestStep(q) PROVE Effect
  BY <1>1, RequestEffect
<1>2. ASSUME NEW j \in Jobs,
             \/ WorkerTakes(j) \/ WorkerGenerates(j) \/ WorkerCompletes(j)
             \/ WorkerGivesUp(j) \/ WorkerFails(j)
      PROVE  Effect
  BY <1>2, TakeEffect, WorkEffect
<1>3. CASE UNCHANGED vars
  <2>1. /\ UNCHANGED <<row, worker, request>> /\ UNCHANGED <<events, taken>>
        /\ UNCHANGED <<events, taken, skipped>> /\ UNCHANGED services /\ UNCHANGED counters
        /\ UNCHANGED <<product, accepted, restored>>
    BY <1>3 DEF vars, services, counters
  <2>2. TypeInv'
    BY <2>1, Unchanging, Parts, PartsNext
  <2> QED
    BY <2>1, <2>2, QuietParts DEF Effect
<1> QED
  BY <1>1, <1>2, <1>3 DEF Next

LEMMA TypeInit == Init => TypeInv
<1> SUFFICES ASSUME Init PROVE TypeInv
  OBVIOUS
<1> DEFINE made == [source : Sources, mode : Modes, profile : {"PREVIEW"}, attempt : {1}]
           claimed == Claim(NewJob(Sources, Modes))
<1>1. made \in SUBSET Asset
  BY DEF Asset, Profiles
<1>2. claimed \in Job
  BY NewJobType, ClaimType
<1>3. Reviewed = Completed(claimed, made)
  BY DEF Reviewed
<1> HIDE DEF made, claimed
<1>4. Reviewed \in Job /\ Reviewed.outputs \in SUBSET Asset
  <2>1. Reviewed \in Job
    BY <1>1, <1>2, <1>3, CompletedType
  <2> QED
    BY <2>1 DEF Job
<1>5. row \in [Jobs -> Job] /\ worker \in [Jobs -> Work]
  BY <1>4, Blank DEF Init
<1>6. RequestsOK
  BY Blank DEF Init, RequestsOK, At, NoRequest
<1>7. ServicesOK
  BY <1>4 DEF Init, ServicesOK, Product, Original
<1>8. EventsOK /\ CountersOK
  BY DEF Init, EventsOK, CountersOK
<1> QED
  BY <1>5, <1>6, <1>7, <1>8, Parts

\* The rows, the requests, the worker and the services keep their types, and what
\* save() makes of the row, its own record and the aggregate is a job.
THEOREM TypeCorrect == Spec => []TypeOK
<1>1. TypeInv => TypeOK
  BY DEF TypeInv
<1>2. TypeInv /\ [Next]_vars => TypeInv'
  BY StepEffect DEF Effect
<1> QED
  BY <1>1, <1>2, TypeInit, PTL DEF Spec

-----------------------------------------------------------------------------
(* The two promises of Review that survive every overlap of requests.       *)

\* Nobody writes a verdict without the answer of Product, and Product never
\* forgets that it gave one: what it shows, it has accepted.
VerdictInv ==
    /\ VerdictsCarriedOut
    /\ \A q \in Requests : /\ At(q, "applied") => request[q].job \in accepted
                           /\ At(q, "restored") => request[q].job \in restored
    /\ product.job \in {NoJob} \cup accepted

LEMMA VerdictStep == TypeInv /\ VerdictInv /\ [Next]_vars => VerdictInv'
<1> SUFFICES ASSUME TypeInv, VerdictInv, Effect PROVE VerdictInv'
  BY StepEffect
<1>1. accepted \subseteq accepted' /\ restored \subseteq restored'
      /\ product'.job \in {product.job, NoJob} \cup accepted'
  BY DEF Effect, ProductExplained
<1>2. product'.job \in {NoJob} \cup accepted'
  BY <1>1 DEF VerdictInv
<1>3. ASSUME NEW j \in Jobs
      PROVE  /\ row'[j].status = "APPLIED" => j \in accepted'
             /\ row'[j].status = "ROLLED_BACK" => j \in restored'
  BY <1>1 DEF Effect, StatusExplained, VerdictInv, VerdictsCarriedOut
<1>4. ASSUME NEW q \in Requests
      PROVE  /\ At(q, "applied")' => request'[q].job \in accepted'
             /\ At(q, "restored")' => request'[q].job \in restored'
  <2>1. AnswerExplained(q)
    BY DEF Effect
  <2>2. TypeInv'
    BY DEF Effect
  <2>3. request'[q].step = "applied" => request'[q].job \in Jobs
    BY <2>2 DEF TypeInv, At
  <2>4. NoJob \notin Jobs
    BY ReviewAssumption
  <2>5. At(q, "applied")' => request'[q].job \in accepted'
    BY <1>1, <2>1, <2>3, <2>4 DEF AnswerExplained, Granted, VerdictInv, At
  <2>6. At(q, "restored")' => request'[q].job \in restored'
    BY <1>1, <2>1 DEF AnswerExplained, Granted, VerdictInv, At
  <2> QED
    BY <2>5, <2>6
<1> QED
  BY <1>2, <1>3, <1>4 DEF VerdictInv, VerdictsCarriedOut

LEMMA ReviewedStatus == Reviewed.status = "REVIEW_REQUIRED"
<1> DEFINE made == [source : Sources, mode : Modes, profile : {"PREVIEW"}, attempt : {1}]
           claimed == Claim(NewJob(Sources, Modes))
<1>1. made \in SUBSET Asset
  BY DEF Asset, Profiles
<1>2. claimed \in Job
  BY NewJobType, ClaimType
<1>3. Reviewed = Completed(claimed, made)
  BY DEF Reviewed
<1> HIDE DEF made, claimed
<1> QED
  BY <1>1, <1>2, <1>3, CompletedType

\* apply_outputs.py and rollback_job.py: for all overlaps of requests with each
\* other and with the worker, and all lost answers, a recorded verdict was
\* carried out by the Product Service.
THEOREM VerdictsAreCarriedOut == Spec => []VerdictsCarriedOut
<1>1. Init => VerdictInv
  BY ReviewedStatus DEF Init, VerdictInv, VerdictsCarriedOut, At, NoRequest, Original
<1>2. VerdictInv => VerdictsCarriedOut
  BY DEF VerdictInv
<1>3. TypeInv /\ [Next]_vars => TypeInv'
  BY StepEffect DEF Effect
<1> QED
  BY <1>1, <1>2, <1>3, TypeInit, VerdictStep, PTL DEF Spec

\* sqlalchemy_repository.py:129: under the same faults, the event of a finalizing
\* job is used up by a claim or by a row that was locked, and by nothing else.
THEOREM FinalizingKeepsEvent == Spec => []FinalizingHasEvent
<1>1. Init => FinalizingHasEvent
  BY ReviewedStatus DEF Init, FinalizingHasEvent
<1>2. FinalizingHasEvent /\ TypeInv /\ [Next]_vars => FinalizingHasEvent'
  <2> SUFFICES ASSUME FinalizingHasEvent, Effect, NEW j \in Jobs,
                      row'[j].status = "FINALIZING", j \notin skipped'
               PROVE  taken'[j] < events'[j]
    BY StepEffect DEF FinalizingHasEvent
  <2>1. StatusExplained(j) /\ EventKept(j)
    BY DEF Effect
  <2> QED
    BY <2>1 DEF StatusExplained, EventKept, FinalizingHasEvent
<1>3. TypeInv /\ [Next]_vars => TypeInv'
  BY StepEffect DEF Effect
<1> QED
  BY <1>1, <1>2, <1>3, TypeInit, PTL DEF Spec

-----------------------------------------------------------------------------
(* Jobs whose requests never overlapped: what one step does to one job.    *)

\* A closed request is about no job.
ClosedInv == \A q \in Requests : At(q, "idle") => request[q].job = NoJob

\* Nothing, apart from a request that ends here and an image cleaned up twice.
Calm(j) ==
    /\ row'[j] = row[j] /\ worker'[j] = worker[j]
    /\ \A q \in Requests : request'[q].job = j => request'[q] = request[q]
    /\ \/ lost' # 0
       \/ /\ \/ media[j] \subseteq media'[j]
             \/ \E q \in Requests : request[q].job = j /\ At(q, "recleanup")
          /\ product' = product \/ product'.job # j
          /\ \A q \in Requests : request[q].job = j /\ request[q].step \in {"applied", "cleaned"}
                                 => request'[q] = request[q]

\* The first open request of the job arrives and reads it.
Opened(j, q) ==
    /\ row'[j] = row[j] /\ worker'[j] = worker[j] /\ UNCHANGED <<media, product>>
    /\ \A r \in Requests : request[r].job # j
    /\ \A r \in Requests : request'[r].job = j => r = q
    /\ request'[q].loaded = row[j] /\ request'[q].save = "none"
    /\ \/ request'[q].step \in {"finalize", "apply"} /\ CanFinalize(row[j], request'[q].ids)
       \/ request'[q].step = "reject" /\ CanMove(row[j], "REJECTED")
       \/ request'[q].step = "recleanup" /\ row[j].status = "REJECTED"
       \/ request'[q].step = "rollback"

\* A request of the job gets its answer.
Moved(j, q) ==
    /\ row'[j] = row[j] /\ worker'[j] = worker[j]
    /\ UNCHANGED media \/ At(q, "reject")
    /\ request[q].job = j
    /\ \A r \in Requests \ {q} : request'[r] = request[r]
    /\ \E step \in RequestSteps :
           /\ request'[q] = [request[q] EXCEPT !.step = step]
           /\ \/ At(q, "apply") /\ step = "applied" /\ Accept(q)
              \/ At(q, "reject") /\ step = "cleaned" /\ UNCHANGED product
              \/ /\ At(q, "rollback") /\ step = "restored" /\ Restore(j)
                 /\ CanMove(request[q].loaded, "ROLLED_BACK")

\* A request of the job reads the record to save, or gets its lock.
Advanced(j, q) ==
    /\ row'[j] = row[j] /\ worker'[j] = worker[j] /\ UNCHANGED <<media, product>>
    /\ request[q].job = j
    /\ \A r \in Requests \ {q} : request'[r] = request[r]
    /\ request'[q].step = request[q].step /\ request'[q].job = request[q].job
    /\ request'[q].ids = request[q].ids /\ request'[q].loaded = request[q].loaded
    /\ \/ request[q].step \in SaveSteps /\ request'[q].record = row[j]
       \/ request[q].save # "none" /\ request'[q].record = request[q].record

\* A request of the job writes its result and ends.
Result(q, job) ==
    \/ At(q, "finalize") /\ job = RequestFinalization(request[q].loaded, request[q].ids)
    \/ At(q, "applied") /\ job = Verdict(q, "APPLIED")
    \/ At(q, "cleaned") /\ job = Verdict(q, "REJECTED")
    \/ At(q, "restored") /\ job = Verdict(q, "ROLLED_BACK")
Saved(j, q) ==
    /\ worker'[j] = worker[j] /\ UNCHANGED <<media, product>>
    /\ request[q].job = j /\ request[q].save = "flushed"
    /\ \A r \in Requests \ {q} : request'[r] = request[r]
    /\ request'[q].job = NoJob
    /\ \E job \in Job : Result(q, job) /\ row'[j] = WriteBack(row[j], request[q].record, job)

\* The worker claims the job, starts to generate or gives up, or ends with a save.
Ended(j, job) ==
    /\ worker[j].step # "idle" /\ worker'[j] = NoWork
    /\ \/ row'[j] = WriteBack(row[j], row[j], job)
       \/ worker[j].step = "giveup" /\ row'[j] = WriteBack(row[j], worker[j].record, job)
    /\ SameRun(job, worker[j].loaded)
    /\ \/ job.status = "FAILED"
       \/ /\ job.status = "REVIEW_REQUIRED" /\ media[j] \subseteq media'[j]
          /\ job.outputs \subseteq media'[j]
          /\ worker[j].loaded.sources # {} /\ worker[j].loaded.modes # {} => job.outputs # {}
Worked(j) ==
    /\ UNCHANGED <<request, product>>
    /\ \/ /\ row'[j] = Claim(row[j]) /\ CanClaim(row[j]) /\ UNCHANGED media
          /\ worker'[j].loaded = Claim(row[j]) /\ worker'[j].step = "claimed"
       \/ /\ row'[j] = row[j] /\ UNCHANGED media
          /\ worker[j].step # "idle" /\ worker'[j].loaded = worker[j].loaded
          /\ worker'[j].step = "giveup" => worker'[j].record = row[j]
       \/ \E job \in Job : Ended(j, job)

Follows(j) ==
    \/ Calm(j)
    \/ Worked(j)
    \/ \E q \in Requests : Opened(j, q) \/ Moved(j, q) \/ Advanced(j, q) \/ Saved(j, q)

Followed ==
    /\ ClosedInv'
    /\ overlapped \subseteq overlapped' /\ (lost' = 0 => lost = 0)
    /\ \A j \in Jobs \ overlapped' : Follows(j)

\* Moving on and closing, field by field.
LEMMA Going ==
  ASSUME TypeInv, ClosedInv, NEW q \in Requests, ~At(q, "idle"), NEW step \in RequestSteps,
         step # "idle", Goto(q, step)
  PROVE  /\ request'[q] = [request[q] EXCEPT !.step = step]
         /\ request'[q].job = request[q].job
         /\ \A r \in Requests \ {q} : request'[r] = request[r]
         /\ ClosedInv'
<1>1. request \in [Requests -> Request]
  BY Rows
<1>2. request' = [request EXCEPT ![q] = [request[q] EXCEPT !.step = step]]
  BY <1>1 DEF Goto
<1>3. request'[q].step = step /\ \A r \in Requests \ {q} : request'[r] = request[r]
  BY GotoRequest
<1>4. ClosedInv'
  BY <1>3 DEF ClosedInv, At
<1> QED
  BY <1>1, <1>2, <1>3, <1>4, GotoRequest

\* A closed request is about no job, and the other requests are as they were.
LEMMA Closing ==
  ASSUME TypeInv, ClosedInv, NEW q \in Requests, Close(q)
  PROVE  /\ request'[q].job = NoJob
         /\ \A r \in Requests \ {q} : request'[r] = request[r]
         /\ ClosedInv'
<1>1. request \in [Requests -> Request]
  BY Rows
<1>2. request'[q] = NoRequest /\ \A r \in Requests \ {q} : request'[r] = request[r]
  BY <1>1 DEF Close
<1>3. request'[q].job = NoJob
  BY <1>2 DEF NoRequest
<1> QED
  BY <1>2, <1>3 DEF ClosedInv, At

\* A step of a request is calm for every job but its own.
LEMMA Others ==
  ASSUME TypeInv, NEW q \in Requests, NEW k \in Jobs, request[q].job \in {k, NoJob},
         request'[q].job \in {k, NoJob}, \A r \in Requests \ {q} : request'[r] = request[r],
         \A i \in Jobs \ {k} : row'[i] = row[i] /\ media'[i] = media[i],
         UNCHANGED worker, product' = product \/ product'.job \in {k, NoJob}
  PROVE  \A i \in Jobs \ {k} : Calm(i)
<1> SUFFICES ASSUME NEW i \in Jobs \ {k} PROVE Calm(i)
  OBVIOUS
<1>1. i # NoJob
  BY ReviewAssumption
<1>2. \A r \in Requests : request[r].job = i \/ request'[r].job = i => request'[r] = request[r]
  BY <1>1
<1> QED
  BY <1>1, <1>2 DEF Calm

\* A request that ends without a write: its own job is calm, too.
LEMMA Leaves ==
  ASSUME TypeInv, ClosedInv, NEW q \in Requests, ~At(q, "idle"), Close(q),
         UNCHANGED <<row, worker>>, \A i \in Jobs \ {request[q].job} : media'[i] = media[i],
         product' = product \/ product'.job \in {request[q].job, NoJob},
         \/ lost' # 0
         \/ /\ ~At(q, "applied") /\ ~At(q, "cleaned") /\ (UNCHANGED media \/ At(q, "recleanup"))
            /\ product' = product \/ product'.job # request[q].job
  PROVE  ClosedInv' /\ \A i \in Jobs : Calm(i)
<1>1. PICK k \in Jobs : k = request[q].job
  BY DEF TypeInv
<1>2. request'[q].job = NoJob /\ (\A r \in Requests \ {q} : request'[r] = request[r]) /\ ClosedInv'
  BY Closing
<1>3. \A i \in Jobs \ {k} : Calm(i)
  BY <1>1, <1>2, Others
<1>4. Calm(k)
  <2>1. \A r \in Requests : request'[r].job = k => request'[r] = request[r]
    BY <1>2, ReviewAssumption
  <2>2. ~At(q, "applied") /\ ~At(q, "cleaned") =>
            \A r \in Requests : request[r].step \in {"applied", "cleaned"} => request'[r] = request[r]
    BY <1>2 DEF At
  <2> QED
    BY <1>1, <2>1, <2>2 DEF Calm
<1> QED
  BY <1>2, <1>3, <1>4

\* A request that writes its result.
LEMMA Saves ==
  ASSUME TypeInv, ClosedInv, NEW q \in Requests, ~At(q, "idle"), NEW job \in Job,
         Result(q, job), Write(q, job), Close(q),
         UNCHANGED <<worker, media, product, overlapped, lost>>
  PROVE  Followed
<1>1. PICK k \in Jobs : k = request[q].job
  BY DEF TypeInv
<1>2. request'[q].job = NoJob /\ (\A r \in Requests \ {q} : request'[r] = request[r]) /\ ClosedInv'
  BY Closing
<1>3. /\ row'[k] = WriteBack(row[k], request[q].record, job) /\ request[q].save = "flushed"
      /\ \A i \in Jobs \ {k} : row'[i] = row[i]
  BY <1>1, Rows DEF Write
<1>4. \A i \in Jobs \ {k} : Calm(i)
  BY <1>1, <1>2, <1>3, Others
<1>5. Saved(k, q)
  BY <1>1, <1>2, <1>3 DEF Saved
<1> QED
  BY <1>2, <1>4, <1>5 DEF Followed, Follows

\* The four writes, each followed by the end of its request.
LEMMA SaveFollows ==
  ASSUME TypeInv, ClosedInv, NEW q \in Requests,
         SaveFinalizing(q) \/ SaveApplied(q) \/ SaveRejected(q) \/ SaveRolledBack(q)
  PROVE  Followed
<1>1. {"APPLIED", "REJECTED", "ROLLED_BACK"} \subseteq Statuses
  BY DEF Statuses
<1>2. CASE SaveFinalizing(q)
  <2>1. /\ At(q, "finalize") /\ ~At(q, "idle") /\ Close(q)
        /\ Write(q, RequestFinalization(request[q].loaded, request[q].ids))
        /\ UNCHANGED <<worker, media, product, overlapped, lost>>
    BY <1>2 DEF SaveFinalizing, At, services, counters
  <2>2. RequestFinalization(request[q].loaded, request[q].ids) \in Job
    BY Rows, FinalizationType DEF Request
  <2>3. Result(q, RequestFinalization(request[q].loaded, request[q].ids))
    BY <2>1 DEF Result
  <2> QED
    BY <2>1, <2>2, <2>3, Saves
<1>3. CASE SaveApplied(q)
  <2>1. /\ At(q, "applied") /\ ~At(q, "idle") /\ Close(q) /\ Write(q, Verdict(q, "APPLIED"))
        /\ UNCHANGED <<worker, media, product, overlapped, lost>>
    BY <1>3 DEF SaveApplied, At, services, counters
  <2>2. Result(q, Verdict(q, "APPLIED"))
    BY <2>1 DEF Result
  <2> QED
    BY <1>1, <2>1, <2>2, VerdictOf, Saves
<1>4. CASE SaveRolledBack(q)
  <2>1. /\ At(q, "restored") /\ ~At(q, "idle") /\ Close(q) /\ Write(q, Verdict(q, "ROLLED_BACK"))
        /\ UNCHANGED <<worker, media, product, overlapped, lost>>
    BY <1>4 DEF SaveRolledBack, At, services, counters
  <2>2. Result(q, Verdict(q, "ROLLED_BACK"))
    BY <2>1 DEF Result
  <2> QED
    BY <1>1, <2>1, <2>2, VerdictOf, Saves
<1>5. CASE SaveRejected(q)
  <2>1. /\ At(q, "cleaned") /\ ~At(q, "idle") /\ Close(q) /\ Write(q, Verdict(q, "REJECTED"))
        /\ UNCHANGED <<worker, media, product, overlapped, lost>>
    BY <1>5 DEF SaveRejected, At, services, counters
  <2>2. Result(q, Verdict(q, "REJECTED"))
    BY <2>1 DEF Result
  <2> QED
    BY <1>1, <2>1, <2>2, VerdictOf, Saves
<1> QED
  BY <1>2, <1>3, <1>4, <1>5

\* A request whose job gets one step further.
LEMMA Moves ==
  ASSUME TypeInv, ClosedInv, NEW q \in Requests, ~At(q, "idle"), NEW step \in RequestSteps \ {"idle"},
         Goto(q, step), UNCHANGED <<row, worker, overlapped, lost>>,
         product' = product \/ product'.job \in {request[q].job, NoJob},
         UNCHANGED media \/ At(q, "reject"),
         \A i \in Jobs \ {request[q].job} : media'[i] = media[i],
         \/ At(q, "apply") /\ step = "applied" /\ Accept(q)
         \/ At(q, "reject") /\ step = "cleaned" /\ UNCHANGED product
         \/ /\ At(q, "rollback") /\ step = "restored" /\ Restore(request[q].job)
            /\ CanMove(request[q].loaded, "ROLLED_BACK")
  PROVE  Followed
<1>1. PICK k \in Jobs : k = request[q].job
  BY DEF TypeInv
<1>2. /\ request'[q] = [request[q] EXCEPT !.step = step] /\ request'[q].job = k
      /\ (\A r \in Requests \ {q} : request'[r] = request[r]) /\ ClosedInv'
  BY <1>1, Going
<1>3. \A i \in Jobs \ {k} : Calm(i)
  BY <1>1, <1>2, Others
<1>4. Moved(k, q)
  BY <1>1, <1>2 DEF Moved
<1> QED
  BY <1>2, <1>3, <1>4 DEF Followed, Follows

\* Calls that succeed and the cleanup of a reject; a refused rollback ends its request.
LEMMA MoveFollows ==
  ASSUME TypeInv, ClosedInv, NEW q \in Requests, CallApply(q) \/ CleanUp(q) \/ CallRollback(q)
  PROVE  Followed
<1>1. {"applied", "cleaned", "restored"} \subseteq RequestSteps \ {"idle"}
  BY DEF RequestSteps
<1>2. CASE CallApply(q)
  <2>1. /\ At(q, "apply") /\ ~At(q, "idle") /\ Accept(q) /\ Goto(q, "applied")
        /\ UNCHANGED <<row, worker, media, overlapped, lost>>
    BY <1>2 DEF CallApply, At, counters
  <2>2. product'.job = request[q].job
    BY <2>1, AcceptEffect
  <2> QED
    BY <1>1, <2>1, <2>2, Moves
<1>3. CASE CleanUp(q)
  <2>1. /\ At(q, "reject") /\ ~At(q, "idle") /\ Goto(q, "cleaned") /\ UNCHANGED product
        /\ UNCHANGED <<row, worker, overlapped, lost>> /\ Wipe(request[q].job)
    BY <1>3 DEF CleanUp, At, counters
  <2>2. \A i \in Jobs \ {request[q].job} : media'[i] = media[i]
    BY <2>1, Parts DEF Wipe, ServicesOK
  <2> QED
    BY <1>1, <2>1, <2>2, Moves
<1>4. CASE CallRollback(q)
  <2>1. /\ At(q, "rollback") /\ ~At(q, "idle") /\ ~At(q, "applied") /\ ~At(q, "cleaned")
        /\ Restore(request[q].job)
        /\ UNCHANGED <<row, worker, media, overlapped, lost>>
        /\ IF CanMove(request[q].loaded, "ROLLED_BACK") THEN Goto(q, "restored") ELSE Close(q)
    BY <1>4 DEF CallRollback, At, counters
  <2>2. PICK k \in Jobs : k = request[q].job
    BY <2>1 DEF TypeInv
  <2>3. product' = product \/ product'.job = NoJob
    BY <2>1, <2>2, RestoreEffect
  <2>4. CASE CanMove(request[q].loaded, "ROLLED_BACK")
    BY <1>1, <2>1, <2>3, <2>4, Moves
  <2>5. CASE ~CanMove(request[q].loaded, "ROLLED_BACK")
    <3>1. ClosedInv' /\ \A i \in Jobs : Calm(i)
      BY <2>1, <2>2, <2>3, <2>5, ReviewAssumption, Leaves
    <3> QED
      BY <2>1, <3>1 DEF Followed, Follows
  <2> QED
    BY <2>4, <2>5
<1> QED
  BY <1>2, <1>3, <1>4

\* Requests that end without a write, by themselves or by a fault.
LEMMA LeaveFollows ==
  ASSUME TypeInv, ClosedInv, NEW q \in Requests, Recleanup(q) \/ ServiceRefuses(q) \/ AnswerLost(q)
  PROVE  Followed
<1> DEFINE Out == ClosedInv' /\ \A i \in Jobs : Calm(i)
<1>1. ASSUME NEW k \in Jobs, Wipe(k) PROVE \A i \in Jobs \ {k} : media'[i] = media[i]
  BY <1>1, Parts DEF Wipe, ServicesOK
<1>2. CASE Recleanup(q)
  <2>1. /\ At(q, "recleanup") /\ ~At(q, "idle") /\ ~At(q, "applied") /\ ~At(q, "cleaned")
        /\ Close(q)
        /\ Wipe(request[q].job) /\ UNCHANGED <<row, worker, product, overlapped, lost>>
    BY <1>2 DEF Recleanup, At, counters
  <2>2. \A i \in Jobs \ {request[q].job} : media'[i] = media[i]
    BY <1>1, <2>1 DEF TypeInv
  <2>3. Out
    BY <2>1, <2>2, Leaves
  <2> QED
    BY <2>1, <2>3 DEF Followed, Follows
<1>3. CASE ServiceRefuses(q)
  <2>1. /\ ~At(q, "idle") /\ ~At(q, "applied") /\ ~At(q, "cleaned") /\ Close(q)
        /\ UNCHANGED <<row, worker, product, media, overlapped, lost>>
    BY <1>3 DEF ServiceRefuses, At, services, counters
  <2>2. Out
    BY <2>1, Leaves
  <2> QED
    BY <2>1, <2>2 DEF Followed, Follows
<1>4. CASE AnswerLost(q)
  <2>1. /\ Close(q) /\ UNCHANGED <<row, worker, overlapped>> /\ lost' = lost + 1 /\ lost \in Nat
        /\ ~At(q, "idle")
    BY <1>4, Parts DEF AnswerLost, CountersOK, At
  <2>2. request[q].job \in Jobs /\ lost' # 0
    BY <2>1 DEF TypeInv
  <2>3. /\ \A i \in Jobs \ {request[q].job} : media'[i] = media[i]
        /\ product' = product \/ product'.job \in {request[q].job, NoJob}
    <3>1. CASE Accept(q) /\ UNCHANGED media
      BY <2>1, <3>1, AcceptEffect
    <3>2. CASE Restore(request[q].job) /\ UNCHANGED media
      BY <2>2, <3>2, RestoreEffect
    <3>3. CASE Wipe(request[q].job) /\ UNCHANGED product
      BY <1>1, <2>2, <3>3
    <3>4. CASE UNCHANGED services
      BY <3>4 DEF services
    <3> QED
      BY <1>4, <3>1, <3>2, <3>3, <3>4 DEF AnswerLost
  <2>4. Out
    BY <2>1, <2>2, <2>3, Leaves
  <2> QED
    BY <2>1, <2>2, <2>4 DEF Followed, Follows
<1> QED
  BY <1>2, <1>3, <1>4

\* A request on its way through a save.
LEMMA AdvanceFollows ==
  ASSUME TypeInv, ClosedInv, NEW q \in Requests, LoadRecord(q) \/ Flush(q)
  PROVE  Followed
<1>1. /\ request'[q].step = request[q].step /\ request'[q].job = request[q].job
      /\ request'[q].ids = request[q].ids /\ request'[q].loaded = request[q].loaded
      /\ \/ request[q].step \in SaveSteps /\ request'[q].record = row[request[q].job]
         \/ request[q].save # "none" /\ request'[q].record = request[q].record
      /\ \A r \in Requests \ {q} : request'[r] = request[r]
      /\ UNCHANGED <<row, worker, media, product, overlapped, lost>>
  BY SavingRequest DEF services, counters
<1>2. ClosedInv'
  BY <1>1 DEF ClosedInv, At
<1>3. CASE request[q].job \in Jobs
  <2>1. PICK k \in Jobs : k = request[q].job
    BY <1>3
  <2>2. \A i \in Jobs \ {k} : Calm(i)
    BY <1>1, <2>1, Others
  <2>3. Advanced(k, q)
    BY <1>1, <2>1 DEF Advanced
  <2> QED
    BY <1>1, <1>2, <2>2, <2>3 DEF Followed, Follows
<1>4. CASE request[q].job \notin Jobs
  <2>1. request[q].job = NoJob
    BY <1>4, Rows DEF Request
  <2>2. ASSUME NEW i \in Jobs PROVE Calm(i)
    BY <1>1, <2>1, ReviewAssumption DEF Calm
  <2> QED
    BY <1>1, <1>2, <2>2 DEF Followed, Follows
<1> QED
  BY <1>3, <1>4

\* An arriving request is the first of a job that stays without overlap.
LEMMA OpenFollows ==
  ASSUME TypeInv, ClosedInv, NEW q \in Requests, NEW j \in Jobs, NEW ids \in SUBSET Asset,
         NEW step \in RequestSteps, Open(q, j, ids, step),
         \/ step \in {"finalize", "apply"} /\ CanFinalize(row[j], ids)
         \/ step = "reject" /\ CanMove(row[j], "REJECTED")
         \/ step = "recleanup" /\ row[j].status = "REJECTED"
         \/ step = "rollback"
  PROVE  Followed
<1>1. /\ request'[q].step = step /\ request'[q].job = j /\ request'[q].ids = ids
      /\ request'[q].loaded = row[j] /\ request'[q].save = "none"
      /\ \A r \in Requests \ {q} : request'[r] = request[r]
      /\ UNCHANGED <<row, worker, media, product>>
  BY OpenType DEF services
<1>2. request[q].job = NoJob /\ UNCHANGED lost
      /\ overlapped' = overlapped \cup {k \in {j} : \E r \in Requests : request[r].job = k}
  BY DEF Open, ClosedInv, At
<1>3. \A i \in Jobs \ {j} : Calm(i)
  BY <1>1, <1>2, Others
<1>4. ASSUME j \notin overlapped' PROVE Opened(j, q)
  <2>1. \A r \in Requests : request[r].job # j
    BY <1>2, <1>4
  <2>2. \A r \in Requests : request'[r].job = j => r = q
    BY <1>1, <2>1
  <2> QED
    BY <1>1, <2>1, <2>2 DEF Opened
<1>5. ClosedInv'
  BY <1>1 DEF ClosedInv, At
<1> QED
  BY <1>2, <1>3, <1>4, <1>5 DEF Followed, Follows

\* The three requests that arrive.
LEMMA ReadFollows ==
  ASSUME TypeInv, ClosedInv, NEW q \in Requests, NEW j \in Jobs,
         ReadForApply(q, j) \/ ReadForReject(q, j) \/ ReadForRollback(q, j)
  PROVE  Followed
<1>1. /\ {} \in SUBSET Asset /\ row[j] \in Job
      /\ {"finalize", "apply", "reject", "recleanup", "rollback"} \subseteq RequestSteps
  BY Rows DEF RequestSteps
<1>2. CASE ReadForApply(q, j)
  <2>1. PICK ids \in SUBSET (row[j].outputs \cup row[j].selected) :
           /\ CanFinalize(row[j], ids)
           /\ Open(q, j, ids, IF row[j].profile = "PREVIEW" THEN "finalize" ELSE "apply")
    BY <1>2 DEF ReadForApply
  <2>2. ids \in SUBSET Asset
    BY <1>1 DEF Job
  <2>3. (IF row[j].profile = "PREVIEW" THEN "finalize" ELSE "apply") \in {"finalize", "apply"}
    OBVIOUS
  <2> QED
    BY <1>1, <2>1, <2>2, <2>3, OpenFollows
<1>3. CASE ReadForReject(q, j)
  <2>1. \/ CanMove(row[j], "REJECTED") /\ Open(q, j, {}, "reject")
        \/ row[j].status = "REJECTED" /\ Open(q, j, {}, "recleanup")
    BY <1>3 DEF ReadForReject
  <2> QED
    BY <1>1, <2>1, OpenFollows
<1>4. CASE ReadForRollback(q, j)
  <2>1. Open(q, j, {}, "rollback")
    BY <1>4 DEF ReadForRollback
  <2> QED
    BY <1>1, <2>1, OpenFollows
<1> QED
  BY <1>2, <1>3, <1>4

\* A step of the worker is calm for every job but its own.
LEMMA Works ==
  ASSUME TypeInv, ClosedInv, NEW j \in Jobs, Worked(j), UNCHANGED <<overlapped, lost>>,
         \A i \in Jobs \ {j} : row'[i] = row[i] /\ worker'[i] = worker[i] /\ media'[i] = media[i]
  PROVE  Followed
<1>1. \A i \in Jobs \ {j} : Calm(i)
  BY DEF Calm, Worked
<1>2. ClosedInv'
  BY DEF ClosedInv, At, Worked
<1> QED
  BY <1>1, <1>2 DEF Followed, Follows

\* The transactions of the worker.
LEMMA WorkFollows ==
  ASSUME TypeInv, ClosedInv, NEW j \in Jobs,
         \/ WorkerTakes(j) \/ WorkerGenerates(j) \/ WorkerCompletes(j)
         \/ WorkerGivesUp(j) \/ WorkerFails(j)
  PROVE  Followed
<1> DEFINE job == worker[j].loaded
           Elsewhere == \A i \in Jobs \ {j} :
                           row'[i] = row[i] /\ worker'[i] = worker[i] /\ media'[i] = media[i]
<1>1. job \in Job /\ worker \in [Jobs -> Work] /\ worker[j] \in Work /\ row \in [Jobs -> Job]
  BY Rows DEF Work
<1>2. media \in [Jobs -> SUBSET Asset]
  BY Parts DEF ServicesOK
<1>3. CASE WorkerTakes(j)
  <2>1. UNCHANGED <<request, product, media, overlapped, lost>>
    BY <1>3 DEF WorkerTakes, services
  <2>2. CASE Unlocked(j) /\ CanClaim(row[j])
    <3>1. /\ row' = [row EXCEPT ![j] = Claim(@)]
          /\ worker' = [worker EXCEPT ![j] =
                            [NoWork EXCEPT !.step = "claimed", !.loaded = Claim(row[j])]]
      BY <1>3, <2>2 DEF WorkerTakes
    <3>a. /\ [NoWork EXCEPT !.step = "claimed", !.loaded = Claim(row[j])].step = "claimed"
          /\ [NoWork EXCEPT !.step = "claimed", !.loaded = Claim(row[j])].loaded = Claim(row[j])
      BY DEF NoWork
    <3>2. Worked(j) /\ Elsewhere
      BY <1>1, <2>1, <2>2, <3>1, <3>a DEF Worked
    <3> QED
      BY <2>1, <3>2, Works
  <2>3. CASE ~(Unlocked(j) /\ CanClaim(row[j]))
    <3>1. UNCHANGED <<row, worker>>
      BY <1>3, <2>3 DEF WorkerTakes
    <3>2. \A i \in Jobs : Calm(i)
      BY <2>1, <3>1 DEF Calm
    <3>3. ClosedInv'
      BY <2>1 DEF ClosedInv, At
    <3> QED
      BY <2>1, <3>2, <3>3 DEF Followed, Follows
  <2> QED
    BY <2>2, <2>3
<1>4. CASE WorkerGenerates(j) \/ WorkerGivesUp(j)
  <2>1. /\ worker' \in {[worker EXCEPT ![j] = [worker[j] EXCEPT !.step = "generate"]],
                        [worker EXCEPT ![j] = [worker[j] EXCEPT !.step = "giveup", !.record = row[j]]]}
        /\ worker[j].step # "idle"
        /\ UNCHANGED <<row, request, product, media, overlapped, lost>>
    BY <1>1, <1>4 DEF WorkerGenerates, WorkerGivesUp, services, counters
  <2>2. /\ worker'[j].loaded = worker[j].loaded
        /\ worker'[j].step = "giveup" => worker'[j].record = row[j]
    BY <1>1, <2>1 DEF Work
  <2>3. Elsewhere
    BY <1>1, <2>1
  <2> QED
    BY <2>1, <2>2, <2>3, Works DEF Worked
<1>5. CASE WorkerCompletes(j)
  <2> DEFINE made == [source : job.sources, mode : job.modes,
                      profile : {job.profile}, attempt : {job.attempt}]
  <2>1. made \in SUBSET Asset
    BY <1>1 DEF Job, Asset
  <2>2. ASSUME job.sources # {}, job.modes # {} PROVE made # {}
    <3>1. PICK source \in job.sources, mode \in job.modes : TRUE
      BY <2>2
    <3>2. [source |-> source, mode |-> mode, profile |-> job.profile, attempt |-> job.attempt] \in made
      OBVIOUS
    <3> QED
      BY <3>2
  <2>3. /\ row' = [row EXCEPT ![j] = WriteBack(@, row[j], Completed(job, made))]
        /\ media' = [media EXCEPT ![j] = @ \cup made]
        /\ worker' = [worker EXCEPT ![j] = NoWork] /\ worker[j].step # "idle"
        /\ UNCHANGED <<request, product, overlapped, lost>>
    BY <1>5 DEF WorkerCompletes, counters
  <2> HIDE DEF made
  <2>4. /\ Completed(job, made) \in Job /\ Completed(job, made).status = "REVIEW_REQUIRED"
        /\ SameRun(Completed(job, made), job) /\ Completed(job, made).outputs = made
    BY <1>1, <2>1, CompletedType, CompletedRun
  <2>5. Ended(j, Completed(job, made)) /\ Elsewhere
    BY <1>1, <1>2, <2>2, <2>3, <2>4 DEF Ended
  <2> QED
    BY <2>3, <2>4, <2>5, Works DEF Worked
<1>6. CASE WorkerFails(j)
  <2>1. /\ worker' = [worker EXCEPT ![j] = NoWork] /\ worker[j].step # "idle"
        /\ UNCHANGED <<request, product, overlapped, lost>>
        /\ media' \in {media, [media EXCEPT ![j] = {}]}
    BY <1>6 DEF WorkerFails, counters
  <2>2. PICK failed \in {Failed(job, FailureOf(job)), Failed(Generating(job), "PIPELINE")} :
           \/ row' = [row EXCEPT ![j] = WriteBack(@, row[j], failed)]
           \/ /\ worker[j].step = "giveup"
              /\ row' = [row EXCEPT ![j] = WriteBack(@, worker[j].record, failed)]
    BY <1>6 DEF WorkerFails
  <2>3. {FailureOf(job), "PIPELINE"} \subseteq Failures /\ Generating(job) \in Job
    BY <1>1, GeneratingType DEF FailureOf, Failures
  <2>4. failed \in Job /\ failed.status = "FAILED"
    BY <1>1, <2>2, <2>3, FailedType
  <2>5. SameRun(failed, job)
    BY <1>1, <2>2, <2>3, FailedRun, GeneratingRun DEF SameRun
  <2>6. Ended(j, failed) /\ Elsewhere
    BY <1>1, <1>2, <2>1, <2>2, <2>4, <2>5 DEF Ended
  <2> QED
    BY <2>1, <2>4, <2>6, Works DEF Worked
<1> QED
  BY <1>3, <1>4, <1>5, <1>6

\* So every step is followed, job by job.
LEMMA StepFollowed == TypeInv /\ ClosedInv /\ [Next]_vars => Followed
<1> SUFFICES ASSUME TypeInv, ClosedInv, [Next]_vars PROVE Followed
  OBVIOUS
<1>1. ASSUME NEW q \in Requests, RequestStep(q) PROVE Followed
  BY <1>1, ReadFollows, AdvanceFollows, SaveFollows, MoveFollows, LeaveFollows DEF RequestStep
<1>2. ASSUME NEW j \in Jobs,
             \/ WorkerTakes(j) \/ WorkerGenerates(j) \/ WorkerCompletes(j)
             \/ WorkerGivesUp(j) \/ WorkerFails(j)
      PROVE  Followed
  BY <1>2, WorkFollows
<1>3. CASE UNCHANGED vars
  <2>1. UNCHANGED <<row, worker, request, media, product, overlapped, lost>>
    BY <1>3 DEF vars, services, counters
  <2>2. \A i \in Jobs : Calm(i)
    BY <2>1 DEF Calm
  <2>3. ClosedInv'
    BY <2>1 DEF ClosedInv, At
  <2> QED
    BY <2>1, <2>2, <2>3 DEF Followed, Follows
<1> QED
  BY <1>1, <1>2, <1>3 DEF Next

-----------------------------------------------------------------------------
(* Jobs whose requests never overlapped: what stays true of one.            *)

Reads == {"finalize", "apply", "applied", "reject", "cleaned"}

\* The request of a job knows the job, ...
Informed(q, j) ==
    /\ request[q].step \in Reads => request[q].loaded = row[j] /\ row[j].status = "REVIEW_REQUIRED"
    /\ At(q, "finalize") => SelectOutputs(request[q].loaded, request[q].ids) # {}
    /\ request[q].loaded.status = "APPLIED" => row[j] = request[q].loaded
    /\ At(q, "restored") => request[q].loaded.status = "APPLIED"
    /\ At(q, "recleanup") => row[j].status = "REJECTED"
    /\ request[q].save # "none" =>
           request[q].record = row[j] /\ request[q].step \in Reads \cup {"restored"}

\* ... because it is the only one, and because the worker has the job only while
\* there is nothing to review.
Single(j) == \A q, r \in Requests : request[q].job = j /\ request[r].job = j => q = r
AloneFits(j) ==
    /\ Single(j)
    /\ row[j].status # "SUCCEEDED" /\ row[j].sources # {} /\ row[j].modes # {}
    /\ worker[j].step # "idle" => row[j].status = "PROCESSING" /\ worker[j].loaded = row[j]
    /\ worker[j].step = "giveup" => worker[j].record = row[j]
    /\ \A q \in Requests : request[q].job = j => Informed(q, j)

AloneInv == \A j \in Jobs : Alone(j) => AloneFits(j)

\* What save() makes of a row that nobody wrote since it was read.
LEMMA WriteFresh ==
  ASSUME NEW old \in Job, NEW job \in Job
  PROVE  /\ WriteBack(old, old, job).status = job.status
         /\ WriteBack(old, old, job).sources = job.sources
         /\ WriteBack(old, old, job).modes = old.modes
         /\ job.outputs # {} => WriteBack(old, old, job).outputs = job.outputs
  BY DEF WriteBack, Column

\* The status and the sources a request writes.
LEMMA ResultOf ==
  ASSUME TypeInv, NEW q \in Requests, NEW job, Result(q, job)
  PROVE  /\ \/ At(q, "finalize") /\ job.status = "FINALIZING"
            \/ At(q, "applied") /\ job.status = "APPLIED"
            \/ At(q, "cleaned") /\ job.status = "REJECTED"
            \/ At(q, "restored") /\ job.status = "ROLLED_BACK"
         /\ \/ job.sources = request[q].loaded.sources
            \/ At(q, "finalize")
               /\ (SelectOutputs(request[q].loaded, request[q].ids) # {} => job.sources # {})
<1>1. request[q].loaded \in Job /\ {"APPLIED", "REJECTED", "ROLLED_BACK"} \subseteq Statuses
  BY Rows DEF Request, Statuses
<1>2. CASE At(q, "finalize") /\ job = RequestFinalization(request[q].loaded, request[q].ids)
  BY <1>1, <1>2, FinalizationType, FinalizationRun
<1>3. ASSUME NEW status \in {"APPLIED", "REJECTED", "ROLLED_BACK"}, job = Verdict(q, status)
      PROVE  job.status = status /\ job.sources = request[q].loaded.sources
  BY <1>1, <1>3, VerdictType, VerdictRun DEF Verdict, SameRun
<1> QED
  BY <1>2, <1>3 DEF Result

\* A save by the one request finds the row as it was read.
LEMMA SavedFresh ==
  ASSUME TypeInv, NEW j \in Jobs, AloneFits(j), NEW q \in Requests, Saved(j, q)
  PROVE  /\ row'[j].sources # {} /\ row'[j].modes # {}
         /\ worker'[j].step = "idle"
         /\ \A r \in Requests : request'[r].job # j
         /\ \/ /\ row[j].status = "REVIEW_REQUIRED"
               /\ \/ At(q, "finalize") /\ row'[j].status = "FINALIZING"
                  \/ At(q, "applied") /\ row'[j].status = "APPLIED"
                  \/ At(q, "cleaned") /\ row'[j].status = "REJECTED"
            \/ /\ At(q, "restored")
               /\ row[j].status = "APPLIED" /\ row'[j].status = "ROLLED_BACK"
<1>1. PICK job \in Job : Result(q, job) /\ row'[j] = WriteBack(row[j], request[q].record, job)
  BY DEF Saved
<1>2. Informed(q, j) /\ request[q].job = j /\ row[j] \in Job /\ worker'[j] = worker[j]
  BY Rows DEF Saved, AloneFits
<1>3. /\ request[q].loaded = row[j] /\ request[q].record = row[j]
      /\ \/ row[j].status = "REVIEW_REQUIRED" /\ ~At(q, "restored")
         \/ row[j].status = "APPLIED" /\ At(q, "restored")
  BY <1>1, <1>2 DEF Saved, Result, Informed, Reads, At
<1>4. /\ row'[j].status = job.status /\ row'[j].sources = job.sources
      /\ row'[j].modes = row[j].modes
  BY <1>1, <1>2, <1>3, WriteFresh
<1>5. row'[j].sources # {} /\ row'[j].modes # {}
  BY <1>1, <1>2, <1>3, <1>4, ResultOf DEF AloneFits, Informed
<1>6. worker'[j].step = "idle"
  BY <1>2, <1>3 DEF AloneFits
<1>7. \A r \in Requests : request'[r].job # j
  BY <1>2, ReviewAssumption DEF Saved, AloneFits, Single
<1> QED
  BY <1>1, <1>3, <1>4, <1>5, <1>6, <1>7, ResultOf DEF At

\* A save by the worker, too.
LEMMA EndedFresh ==
  ASSUME TypeInv, NEW j \in Jobs, AloneFits(j), NEW job \in Job, Ended(j, job)
  PROVE  /\ row[j].status = "PROCESSING" /\ row'[j].status = job.status
         /\ row'[j].sources # {} /\ row'[j].modes # {}
         /\ job.status = "REVIEW_REQUIRED" => row'[j].outputs \subseteq media'[j]
<1>1. row[j] \in Job /\ row[j].status = "PROCESSING" /\ worker[j].loaded = row[j]
  BY Rows DEF AloneFits, Ended
<1>2. row'[j] = WriteBack(row[j], row[j], job)
  BY <1>1 DEF Ended, AloneFits
<1>3. /\ row'[j].status = job.status /\ row'[j].sources = job.sources
      /\ row'[j].modes = row[j].modes /\ (job.outputs # {} => row'[j].outputs = job.outputs)
  BY <1>1, <1>2, WriteFresh
<1>4. job.sources = row[j].sources
  BY <1>1 DEF Ended, SameRun
<1> QED
  BY <1>1, <1>3, <1>4 DEF AloneFits, Ended

\* One step of one job.
LEMMA FitsStep ==
  ASSUME TypeInv, TypeInv', NEW j \in Jobs, AloneFits(j), Follows(j)
  PROVE  AloneFits(j)'
<1>t. row[j] \in Job /\ row'[j] \in Job /\ worker[j] \in Work
  BY Rows, PartsNext
<1>1. CASE Calm(j)
  <2>1. /\ row'[j] = row[j] /\ worker'[j] = worker[j]
        /\ \A q \in Requests : request'[q].job = j => request'[q] = request[q]
    BY <1>1 DEF Calm
  <2>2. Single(j)'
    BY <2>1 DEF AloneFits, Single
  <2>3. ASSUME NEW q \in Requests, request'[q].job = j PROVE Informed(q, j)'
    BY <2>1, <2>3 DEF AloneFits, Informed, At
  <2> QED
    BY <2>1, <2>2, <2>3 DEF AloneFits
<1>2. ASSUME NEW q \in Requests, Opened(j, q) PROVE AloneFits(j)'
  <2>1. /\ row'[j] = row[j] /\ worker'[j] = worker[j] /\ request'[q].loaded = row[j]
        /\ request'[q].save = "none"
        /\ \A r \in Requests : request'[r].job = j => r = q
    BY <1>2 DEF Opened
  <2>2. Single(j)'
    BY <2>1 DEF Single
  <2>3. row[j].status # "SUCCEEDED" /\ row[j].status \in Statuses
    BY <1>t DEF AloneFits, Job
  <2>4. CanMove(row[j], "REJECTED") => row[j].status = "REVIEW_REQUIRED"
    BY <2>3 DEF CanMove, AllowedTransitions, Statuses
  <2>5. Informed(q, j)'
    <3>1. CASE request'[q].step \in {"finalize", "apply"} /\ CanFinalize(row[j], request'[q].ids)
      BY <2>1, <2>3, <3>1 DEF Informed, At, Reads, CanFinalize
    <3>2. CASE request'[q].step = "reject" /\ CanMove(row[j], "REJECTED")
      BY <2>1, <2>4, <3>2 DEF Informed, At, Reads
    <3>3. CASE request'[q].step = "recleanup" /\ row[j].status = "REJECTED"
      BY <2>1, <3>3 DEF Informed, At, Reads
    <3>4. CASE request'[q].step = "rollback"
      BY <2>1, <3>4 DEF Informed, At, Reads
    <3> QED
      BY <1>2, <3>1, <3>2, <3>3, <3>4 DEF Opened
  <2> QED
    BY <2>1, <2>2, <2>5 DEF AloneFits
<1>3. ASSUME NEW q \in Requests, Moved(j, q) PROVE AloneFits(j)'
  <2>1. PICK step \in RequestSteps :
           /\ request'[q] = [request[q] EXCEPT !.step = step]
           /\ \/ At(q, "apply") /\ step = "applied"
              \/ At(q, "reject") /\ step = "cleaned"
              \/ At(q, "rollback") /\ step = "restored" /\ CanMove(request[q].loaded, "ROLLED_BACK")
    BY <1>3 DEF Moved
  <2>2. request[q] \in Request /\ request[q].loaded \in Job
    BY Rows DEF Request
  <2>3. /\ request'[q].step = step /\ request'[q].job = request[q].job
        /\ request'[q].loaded = request[q].loaded /\ request'[q].ids = request[q].ids
        /\ request'[q].record = request[q].record /\ request'[q].save = request[q].save
    BY <2>1, <2>2 DEF Request
  <2>4. /\ row'[j] = row[j] /\ worker'[j] = worker[j] /\ request[q].job = j
        /\ \A r \in Requests \ {q} : request'[r] = request[r]
    BY <1>3 DEF Moved
  <2>5. Single(j)'
    BY <2>3, <2>4 DEF AloneFits, Single
  <2>6. Informed(q, j)
    BY <2>4 DEF AloneFits
  <2>7. CanMove(request[q].loaded, "ROLLED_BACK") => request[q].loaded.status = "APPLIED"
    BY <2>2 DEF CanMove, AllowedTransitions, Job, Statuses
  <2>8. Informed(q, j)'
    BY <2>1, <2>3, <2>4, <2>6, <2>7 DEF Informed, At, Reads
  <2>9. \A r \in Requests : request'[r].job = j => r = q
    BY <2>3, <2>4, <2>5 DEF Single
  <2> QED
    BY <2>4, <2>5, <2>8, <2>9 DEF AloneFits
<1>4. ASSUME NEW q \in Requests, Saved(j, q) PROVE AloneFits(j)'
  BY <1>4, SavedFresh DEF AloneFits, Single
<1>6. ASSUME NEW q \in Requests, Advanced(j, q) PROVE AloneFits(j)'
  <2>1. /\ row'[j] = row[j] /\ worker'[j] = worker[j] /\ request[q].job = j
        /\ request'[q].job = j /\ \A r \in Requests \ {q} : request'[r] = request[r]
    BY <1>6 DEF Advanced
  <2>2. Single(j)'
    BY <2>1 DEF AloneFits, Single
  <2>3. \A r \in Requests : request'[r].job = j => r = q
    BY <2>1, <2>2 DEF Single
  <2>4. Informed(q, j)
    BY <2>1 DEF AloneFits
  <2>5. Informed(q, j)'
    BY <1>6, <2>1, <2>4 DEF Advanced, Informed, At, Reads, SaveSteps
  <2> QED
    BY <2>1, <2>2, <2>3, <2>5 DEF AloneFits
<1>5. CASE Worked(j)
  <2>1. UNCHANGED request
    BY <1>5 DEF Worked
  <2>2. Single(j)'
    BY <2>1 DEF AloneFits, Single
  <2>3. CASE /\ row'[j] = Claim(row[j]) /\ CanClaim(row[j])
             /\ worker'[j].loaded = Claim(row[j]) /\ worker'[j].step = "claimed"
    <3>1. /\ row'[j].status = "PROCESSING" /\ row'[j].sources # {} /\ row'[j].modes # {}
          /\ worker'[j].loaded = row'[j] /\ worker'[j].step # "giveup"
      BY <1>t, <2>3, ClaimType, ClaimRun DEF SameRun, AloneFits
    <3>2. row[j].status \notin {"REVIEW_REQUIRED", "APPLIED", "REJECTED"}
      BY <2>3 DEF CanClaim
    <3>3. ASSUME NEW q \in Requests, request'[q].job = j PROVE Informed(q, j)'
      BY <2>1, <3>2, <3>3 DEF AloneFits, Informed, At, Reads
    <3> QED
      BY <2>2, <3>1, <3>3 DEF AloneFits
  <2>4. CASE /\ row'[j] = row[j] /\ worker[j].step # "idle" /\ worker'[j].loaded = worker[j].loaded
             /\ worker'[j].step = "giveup" => worker'[j].record = row[j]
    <3>1. ASSUME NEW q \in Requests, request'[q].job = j PROVE Informed(q, j)'
      BY <2>1, <2>4, <3>1 DEF AloneFits, Informed, At
    <3> QED
      BY <2>2, <2>4, <3>1 DEF AloneFits
  <2>5. ASSUME NEW job \in Job, Ended(j, job) PROVE AloneFits(j)'
    <3>1. /\ row[j].status = "PROCESSING" /\ row'[j].status \in {"FAILED", "REVIEW_REQUIRED"}
          /\ row'[j].sources # {} /\ row'[j].modes # {} /\ worker'[j] = NoWork
      BY <2>5, EndedFresh DEF Ended
    <3>2. ASSUME NEW q \in Requests, request'[q].job = j PROVE Informed(q, j)'
      BY <2>1, <3>1, <3>2 DEF AloneFits, Informed, At, Reads
    <3> QED
      BY <2>2, <3>1, <3>2 DEF AloneFits, NoWork
  <2> QED
    BY <1>5, <2>3, <2>4, <2>5 DEF Worked
<1> QED
  BY <1>1, <1>2, <1>3, <1>4, <1>5, <1>6 DEF Follows

\* A job without overlap keeps its promises.
LEMMA AloneStep == TypeInv /\ ClosedInv /\ AloneInv /\ [Next]_vars => AloneInv' /\ ClosedInv'
<1> SUFFICES ASSUME TypeInv, ClosedInv, AloneInv, [Next]_vars PROVE AloneInv' /\ ClosedInv'
  OBVIOUS
<1>1. TypeInv' /\ Followed
  BY StepEffect, StepFollowed DEF Effect
<1>2. ASSUME NEW j \in Jobs, j \notin overlapped' PROVE AloneFits(j)'
  <2>1. AloneFits(j) /\ Follows(j)
    BY <1>1, <1>2 DEF Followed, AloneInv, Alone
  <2> QED
    BY <1>1, <2>1, FitsStep
<1> QED
  BY <1>1, <1>2 DEF AloneInv, Alone, Followed

\* A finished preview has something to finalize.
LEMMA ReviewedRun == Reviewed \in Job /\ Reviewed.sources # {} /\ Reviewed.modes # {}
<1> DEFINE made == [source : Sources, mode : Modes, profile : {"PREVIEW"}, attempt : {1}]
           fresh == NewJob(Sources, Modes)
           claimed == Claim(fresh)
<1>1. made \in SUBSET Asset
  BY DEF Asset, Profiles
<1>2. fresh \in Job /\ fresh.sources = Sources /\ fresh.modes = Modes
  <2>1. fresh \in Job
    BY NewJobType
  <2> QED
    BY <2>1 DEF NewJob
<1>3. Reviewed = Completed(claimed, made)
  BY DEF Reviewed
<1> HIDE DEF made, fresh
<1>4. claimed \in Job /\ claimed.sources = Sources /\ claimed.modes = Modes
  BY <1>2, ClaimType, ClaimRun DEF SameRun
<1> HIDE DEF claimed
<1>5. /\ Completed(claimed, made) \in Job /\ Completed(claimed, made).sources = claimed.sources
      /\ Completed(claimed, made).modes = claimed.modes
  BY <1>1, <1>4, CompletedType, CompletedRun DEF SameRun
<1> QED
  BY <1>3, <1>4, <1>5, JobAssumption

\* At first there are no requests.
LEMMA AloneInit == Init => AloneInv /\ ClosedInv
<1> SUFFICES ASSUME Init PROVE AloneInv /\ ClosedInv
  OBVIOUS
<1>1. \A q \in Requests : request[q].job = NoJob
  BY DEF Init, NoRequest
<1>2. ASSUME NEW j \in Jobs PROVE AloneFits(j)
  <2>1. row[j] = Reviewed /\ worker[j].step = "idle" /\ \A q \in Requests : request[q].job # j
    BY <1>1, ReviewAssumption DEF Init, NoWork
  <2> QED
    BY <2>1, ReviewedStatus, ReviewedRun DEF AloneFits, Single
<1> QED
  BY <1>1, <1>2 DEF AloneInv, ClosedInv

\* Statuses written from snapshots follow ALLOWED_TRANSITIONS while the requests on
\* a job do not overlap, for any number of requests, jobs and lost answers: the
\* worker cannot touch a row while it is read for a verdict.
THEOREM StatusesMoveAsAllowed == Spec => StatusMovesAllowed
<1>1. TypeInv /\ ClosedInv /\ AloneInv /\ [Next]_vars =>
         [\A j \in Jobs : Alone(j)' /\ row'[j].status # row[j].status
                           => CanMove(row[j], row'[j].status)]_vars
  <2> SUFFICES ASSUME TypeInv, ClosedInv, AloneInv, [Next]_vars, NEW j \in Jobs,
                      j \notin overlapped', row'[j].status # row[j].status
               PROVE  CanMove(row[j], row'[j].status)
    BY DEF Alone
  <2>1. TypeInv' /\ AloneFits(j) /\ Follows(j)
    BY StepEffect, StepFollowed DEF Effect, Followed, AloneInv, Alone
  <2>2. row[j] \in Job
    BY Rows
  <2>3. CASE Calm(j) \/ \E q \in Requests : Opened(j, q) \/ Moved(j, q) \/ Advanced(j, q)
    BY <2>3 DEF Calm, Opened, Moved, Advanced
  <2>4. ASSUME NEW q \in Requests, Saved(j, q) PROVE CanMove(row[j], row'[j].status)
    BY <2>1, <2>4, SavedFresh DEF CanMove, AllowedTransitions
  <2>5. CASE Worked(j)
    <3>1. CASE row'[j] = Claim(row[j]) /\ CanClaim(row[j])
      <4>1. row'[j].status = "PROCESSING"
        BY <2>2, <3>1, ClaimType
      <4> QED
        BY <3>1, <4>1 DEF CanClaim, CanMove, AllowedTransitions
    <3>2. ASSUME NEW job \in Job, Ended(j, job) PROVE CanMove(row[j], row'[j].status)
      <4>1. row[j].status = "PROCESSING" /\ row'[j].status \in {"FAILED", "REVIEW_REQUIRED"}
        BY <2>1, <3>2, EndedFresh DEF Ended
      <4> QED
        BY <4>1 DEF CanMove, AllowedTransitions
    <3> QED
      BY <2>5, <3>1, <3>2 DEF Worked
  <2> QED
    BY <2>1, <2>3, <2>4, <2>5 DEF Follows
<1>2. TypeInv /\ [Next]_vars => TypeInv'
  BY StepEffect DEF Effect
<1> QED
  BY <1>1, <1>2, TypeInit, AloneInit, AloneStep, PTL DEF Spec, StatusMovesAllowed

-----------------------------------------------------------------------------
(* Jobs whose requests never overlapped: their images.                      *)

\* Product shows a job of ours that is applied or about to be, and shows stored
\* images; under review all outputs are stored until a reject has cleaned up.
ImagesFit(j) ==
    /\ row[j].status = "REVIEW_REQUIRED" /\ ~BeingRejected(j) => row[j].outputs \subseteq media[j]
    /\ product.job = j =>
           /\ product.images \subseteq media[j]
           /\ \/ row[j].status = "APPLIED"
              \/ \E q \in Requests : request[q].job = j /\ At(q, "applied")
    /\ \A q \in Requests : request[q].job = j /\ At(q, "restored") => product.job # j

ImagesInv == lost = 0 => \A j \in Jobs : Alone(j) => ImagesFit(j)

\* No step of a job without overlap takes away images it needs.
LEMMA ImagesStep == TypeInv /\ ClosedInv /\ AloneInv /\ ImagesInv /\ [Next]_vars => ImagesInv'
<1> SUFFICES ASSUME TypeInv, ClosedInv, AloneInv, ImagesInv, [Next]_vars, lost' = 0,
                    NEW j \in Jobs, j \notin overlapped'
             PROVE  ImagesFit(j)'
  BY DEF ImagesInv, Alone
<1>1. TypeInv' /\ AloneFits(j) /\ Follows(j) /\ ImagesFit(j)
  BY StepEffect, StepFollowed DEF Effect, Followed, AloneInv, ImagesInv, Alone
<1>t. row[j] \in Job
  BY Rows
<1>2. CASE Calm(j)
  <2>1. /\ row'[j] = row[j]
        /\ \A q \in Requests : request'[q].job = j => request'[q] = request[q]
        /\ \/ media[j] \subseteq media'[j]
           \/ \E q \in Requests : request[q].job = j /\ At(q, "recleanup")
        /\ product' = product \/ product'.job # j
        /\ \A q \in Requests : request[q].job = j /\ request[q].step \in {"applied", "cleaned"}
                              => request'[q] = request[q]
    BY <1>2 DEF Calm
  <2>2. media[j] \subseteq media'[j] \/ (row[j].status = "REJECTED" /\ product.job # j)
    <3>1. ASSUME NEW q \in Requests, request[q].job = j, At(q, "recleanup")
          PROVE  row[j].status = "REJECTED" /\ product.job # j
      BY <1>1, <3>1 DEF AloneFits, Single, Informed, ImagesFit, At
    <3> QED
      BY <2>1, <3>1
  <2>3. product'.job = j => /\ product.job = j /\ product' = product
                            /\ product'.images \subseteq media'[j]
    BY <1>1, <2>1, <2>2 DEF ImagesFit
  <2>4. product'.job = j => \/ row'[j].status = "APPLIED"
                            \/ \E q \in Requests : request'[q].job = j /\ At(q, "applied")'
    BY <1>1, <2>1, <2>3 DEF ImagesFit, At
  <2>a. BeingRejected(j) => BeingRejected(j)'
    BY <2>1 DEF BeingRejected, At
  <2>5. row'[j].status = "REVIEW_REQUIRED" /\ ~BeingRejected(j)' => row'[j].outputs \subseteq media'[j]
    BY <1>1, <2>1, <2>2, <2>a DEF ImagesFit
  <2>6. ASSUME NEW q \in Requests, request'[q].job = j, At(q, "restored")' PROVE product'.job # j
    BY <1>1, <2>1, <2>6 DEF ImagesFit, At
  <2> QED
    BY <2>3, <2>4, <2>5, <2>6 DEF ImagesFit
<1>3. ASSUME NEW q \in Requests, Opened(j, q) PROVE ImagesFit(j)'
  <2>1. /\ row'[j] = row[j] /\ media' = media /\ product' = product
        /\ \A r \in Requests : request[r].job # j
        /\ \A r \in Requests : request'[r].job = j => request'[r].step # "restored"
    BY <1>3 DEF Opened
  <2>2. ~BeingRejected(j)
    BY <2>1 DEF BeingRejected
  <2> QED
    BY <1>1, <2>1, <2>2 DEF ImagesFit, At
<1>4. ASSUME NEW q \in Requests, Moved(j, q) PROVE ImagesFit(j)'
  <2>1. PICK step \in RequestSteps :
           /\ request'[q] = [request[q] EXCEPT !.step = step]
           /\ \/ At(q, "apply") /\ step = "applied" /\ Accept(q)
              \/ At(q, "reject") /\ step = "cleaned" /\ UNCHANGED product
              \/ At(q, "rollback") /\ step = "restored" /\ Restore(j)
    BY <1>4 DEF Moved
  <2>2. request[q] \in Request
    BY Rows DEF Request
  <2>3. request'[q].step = step /\ request'[q].job = request[q].job
    BY <2>1, <2>2 DEF Request
  <2>4. /\ row'[j] = row[j] /\ request[q].job = j /\ (media' = media \/ At(q, "reject"))
        /\ \A r \in Requests \ {q} : request'[r] = request[r]
    BY <1>4 DEF Moved
  <2>5. \A r \in Requests : request[r].job = j \/ request'[r].job = j => r = q
    BY <1>1, <2>3, <2>4 DEF AloneFits, Single
  <2>6. Informed(q, j)
    BY <1>1, <2>4 DEF AloneFits
  <2>a. ~At(q, "cleaned")
    BY <2>1 DEF At
  <2>b. ~BeingRejected(j)
    BY <2>5, <2>a DEF BeingRejected
  <2>7. ~At(q, "reject") /\ row'[j].status = "REVIEW_REQUIRED" => row'[j].outputs \subseteq media'[j]
    BY <1>1, <2>4, <2>b DEF ImagesFit
  <2>8. CASE At(q, "apply") /\ step = "applied" /\ Accept(q)
    <3>1. /\ request[q].loaded = row[j] /\ row[j].outputs \subseteq media[j]
          /\ ~At(q, "reject") /\ media' = media
      BY <1>1, <2>4, <2>6, <2>8, <2>b DEF Informed, Reads, At, ImagesFit
    <3>2. SelectOutputs(row[j], request[q].ids) \subseteq media[j]
      BY <3>1 DEF SelectOutputs, OfSelectedSources
    <3>3. product'.images \subseteq media'[j]
      <4>1. CASE product.job = j /\ product' = product
        BY <1>1, <3>1, <4>1 DEF ImagesFit
      <4>2. CASE product'.images = SelectOutputs(row[j], request[q].ids)
        BY <3>1, <3>2, <4>2
      <4> QED
        BY <2>4, <2>8, <3>1, <4>1, <4>2 DEF Accept
    <3>4. At(q, "applied")' /\ request'[q].job = j
      BY <2>3, <2>4, <2>8 DEF At
    <3>5. \A r \in Requests : request'[r].job = j => ~At(r, "restored")'
      BY <2>5, <3>4 DEF At
    <3> QED
      BY <2>7, <3>1, <3>3, <3>4, <3>5 DEF ImagesFit
  <2>9. CASE At(q, "reject") /\ step = "cleaned" /\ UNCHANGED product
    <3>1. product.job # j
      BY <1>1, <2>4, <2>5, <2>6, <2>9 DEF ImagesFit, Informed, Reads, At
    <3>2. BeingRejected(j)'
      BY <2>3, <2>4, <2>9 DEF BeingRejected, At
    <3> QED
      BY <2>9, <3>1, <3>2 DEF ImagesFit
  <2>10. CASE At(q, "rollback") /\ step = "restored" /\ Restore(j)
    <3>1. product'.job # j
      BY <2>10, ReviewAssumption DEF Restore, Original
    <3> QED
      BY <2>7, <2>10, <3>1 DEF ImagesFit, At
  <2> QED
    BY <2>1, <2>8, <2>9, <2>10
<1>5. ASSUME NEW q \in Requests, Saved(j, q) PROVE ImagesFit(j)'
  <2>1. product' = product /\ media' = media /\ request[q].job = j
    BY <1>5 DEF Saved
  <2>2. /\ \A r \in Requests : request'[r].job # j
        /\ \/ /\ row[j].status = "REVIEW_REQUIRED"
              /\ \/ At(q, "finalize") /\ row'[j].status = "FINALIZING"
                 \/ At(q, "applied") /\ row'[j].status = "APPLIED"
                 \/ At(q, "cleaned") /\ row'[j].status = "REJECTED"
           \/ /\ At(q, "restored")
              /\ row[j].status = "APPLIED" /\ row'[j].status = "ROLLED_BACK"
    BY <1>1, <1>5, SavedFresh
  <2>3. row'[j].status # "REVIEW_REQUIRED"
    BY <2>2
  <2>4. product'.job = j => row'[j].status = "APPLIED"
    BY <1>1, <2>1, <2>2 DEF ImagesFit, AloneFits, Single, At
  <2> QED
    BY <1>1, <2>1, <2>2, <2>3, <2>4 DEF ImagesFit
<1>6. CASE Worked(j)
  <2>1. UNCHANGED <<request, product>>
    BY <1>6 DEF Worked
  <2>2. row[j].status \in {"APPLIED", "REVIEW_REQUIRED"} => ~CanClaim(row[j])
    BY DEF CanClaim
  <2>3. product.job = j => row[j].status \in {"APPLIED", "REVIEW_REQUIRED"}
    BY <1>1 DEF ImagesFit, AloneFits, Informed, Reads, At
  <2>4. CASE row'[j] = Claim(row[j]) /\ CanClaim(row[j])
    <3>1. row'[j].status = "PROCESSING"
      BY <1>t, <2>4, ClaimType
    <3> QED
      BY <1>1, <2>1, <2>2, <2>3, <2>4, <3>1 DEF ImagesFit, At
  <2>5. CASE row'[j] = row[j] /\ UNCHANGED media
    BY <1>1, <2>1, <2>5 DEF ImagesFit, BeingRejected, At
  <2>6. ASSUME NEW job \in Job, Ended(j, job) PROVE ImagesFit(j)'
    <3>1. /\ row[j].status = "PROCESSING" /\ row'[j].status = job.status
          /\ job.status = "REVIEW_REQUIRED" => row'[j].outputs \subseteq media'[j]
      BY <1>1, <2>6, EndedFresh
    <3> QED
      BY <1>1, <2>1, <2>3, <3>1 DEF ImagesFit, At
  <2> QED
    BY <1>6, <2>4, <2>5, <2>6 DEF Worked
<1>7. ASSUME NEW q \in Requests, Advanced(j, q) PROVE ImagesFit(j)'
  <2>1. /\ row'[j] = row[j] /\ media' = media /\ product' = product
        /\ \A r \in Requests : /\ request'[r].step = request[r].step
                              /\ request'[r].job = request[r].job
    BY <1>7 DEF Advanced
  <2>2. BeingRejected(j)' = BeingRejected(j)
    BY <2>1 DEF BeingRejected, At
  <2> QED
    BY <1>1, <2>1, <2>2 DEF ImagesFit, At
<1> QED
  BY <1>1, <1>2, <1>3, <1>4, <1>5, <1>6, <1>7 DEF Follows

\* reject_job.py:40: without overlap and lost answers no cleanup, of a reject, a
\* repeated reject or a failed final run, hits images that the product shows or that
\* are still under review, for any number of jobs and requests.
THEOREM NeededImagesAreStored == Spec => []NeededImagesStored
<1>1. Init => ImagesInv
  <2> SUFFICES ASSUME Init, NEW j \in Jobs PROVE ImagesFit(j)
    BY DEF ImagesInv
  <2>1. /\ row[j] = Reviewed /\ media[j] = Reviewed.outputs /\ product.job # j
        /\ \A q \in Requests : request[q].job # j
    BY ReviewAssumption DEF Init, NoRequest, Original
  <2> QED
    BY <2>1 DEF ImagesFit
<1>2. TypeInv /\ ImagesInv => NeededImagesStored
  <2> SUFFICES ASSUME TypeInv, ImagesInv PROVE NeededImagesStored
    OBVIOUS
  <2>1. product.job \in Jobs \cup {NoJob}
    BY DEF TypeInv, TypeOK
  <2> QED
    BY <2>1 DEF ImagesInv, ImagesFit, NeededImagesStored
<1>3. TypeInv /\ [Next]_vars => TypeInv'
  BY StepEffect DEF Effect
<1> QED
  BY <1>1, <1>2, <1>3, TypeInit, AloneInit, AloneStep, ImagesStep, PTL DEF Spec
=============================================================================
