--------------------------- MODULE OptimizationJob ---------------------------
(***************************************************************************)
(* The job aggregate of image_optimization (domain/models.py,              *)
(* domain/enums.py) and what the repository does when an aggregate is      *)
(* written back to its row (infrastructure/persistence).                   *)
(*                                                                         *)
(* An output asset is [source, mode, profile, attempt]: the claim that     *)
(* produced it makes it unique, as the asset id of the Media Service does. *)
(* lease is the time left to lease_expires_at, 0 when it is NULL or past,  *)
(* which claim() does not tell apart.                                      *)
(***************************************************************************)
EXTENDS Naturals, FiniteSets

CONSTANTS
    Sources,     \* source assets a job may be created for
    Modes,       \* optimisation modes a job may request
    MaxRetry,    \* AI_IMAGE_MAX_RETRY_ATTEMPTS
    LeaseTicks   \* AI_IMAGE_JOB_LEASE_SECONDS, in ticks

ASSUME JobAssumption ==
    /\ Sources # {} /\ Modes # {}
    /\ MaxRetry \in Nat \ {0}
    /\ LeaseTicks \in Nat \ {0}

Profiles == {"PREVIEW", "FINAL"}

Stages == {"QUEUED", "FETCHING_SOURCE", "PREPARING_IMAGE", "GENERATING",
           "UPLOADING", "READY", "FAILED"}

\* SUCCEEDED is only kept for rows of older releases; new code never writes it.
Statuses == {"PENDING", "PROCESSING", "FINALIZING", "REVIEW_REQUIRED", "SUCCEEDED",
             "REJECTED", "APPLIED", "ROLLED_BACK", "FAILED"}

Asset == [source : Sources, mode : Modes, profile : Profiles, attempt : Nat]

Job == [status : Statuses, stage : Stages, profile : Profiles,
        sources : SUBSET Sources, modes : SUBSET Modes,
        selected : SUBSET Asset, outputs : SUBSET Asset,
        attempt : Nat, version : Nat, lease : Nat,
        failure : {"NONE", "PIPELINE", "CLEANUP_PENDING", "MAX_ATTEMPTS_EXCEEDED"}]

NewJob(sources, modes) ==
    [status |-> "PENDING", stage |-> "QUEUED", profile |-> "PREVIEW",
     sources |-> sources, modes |-> modes, selected |-> {}, outputs |-> {},
     attempt |-> 0, version |-> 0, lease |-> 0, failure |-> "NONE"]

-----------------------------------------------------------------------------
(* The state machine of the aggregate.                                     *)

AllowedTransitions ==
    [PENDING         |-> {"PROCESSING", "FAILED"},
     PROCESSING      |-> {"REVIEW_REQUIRED", "FAILED"},
     REVIEW_REQUIRED |-> {"APPLIED", "REJECTED", "FAILED", "FINALIZING"},
     FINALIZING      |-> {"PROCESSING", "FAILED"},
     SUCCEEDED       |-> {"APPLIED", "REJECTED"},
     APPLIED         |-> {"ROLLED_BACK"},
     REJECTED        |-> {},
     ROLLED_BACK     |-> {},
     FAILED          |-> {"PENDING", "PROCESSING"}]

CanMove(job, status) == status \in AllowedTransitions[job.status]

Transition(job, status) == [job EXCEPT !.status = status, !.version = @ + 1]

WithStage(job, stage) == [job EXCEPT !.stage = stage, !.version = @ + 1]

ReleaseLease(job) == [job EXCEPT !.lease = 0, !.version = @ + 1]

WithFailure(job, code) == [job EXCEPT !.failure = code, !.lease = 0, !.version = @ + 1]

WithOutputs(job, assets) == [job EXCEPT !.outputs = assets, !.version = @ + 1]

\* Definitions marked "Seeded fault" are not part of the model: each states what
\* one plausible bug would turn the next definition into, to test the properties.

\* Seeded fault: the lease is ignored.
CanClaimLeased(job) == job.status \in {"PENDING", "FAILED", "PROCESSING", "FINALIZING"}
\* Seeded fault: a job under review can be claimed again.
CanClaimReviewed(job) ==
    /\ job.status \in {"PENDING", "FAILED", "PROCESSING", "FINALIZING", "REVIEW_REQUIRED"}
    /\ ~(job.status = "PROCESSING" /\ job.lease > 0)
\* Seeded fault: the final run was forgotten among the claimable statuses.
CanClaimNoFinal(job) ==
    /\ job.status \in {"PENDING", "FAILED", "PROCESSING"}
    /\ ~(job.status = "PROCESSING" /\ job.lease > 0)

\* A lease only protects a job that is still PROCESSING.
CanClaim(job) ==
    /\ job.status \in {"PENDING", "FAILED", "PROCESSING", "FINALIZING"}
    /\ ~(job.status = "PROCESSING" /\ job.lease > 0)

Claim(job) ==
    [job EXCEPT !.status = "PROCESSING", !.stage = "FETCHING_SOURCE", !.attempt = @ + 1,
                !.version = @ + 1, !.lease = LeaseTicks, !.failure = "NONE"]

-----------------------------------------------------------------------------
(* Selecting outputs.                                                      *)

OfSelectedSources(job) == {a \in job.outputs : a.source \in job.sources}

\* An old browser may send the preview ids after the final outputs exist.
EchoesPreview(job, ids) ==
    /\ job.profile = "FINAL"
    /\ job.selected # {}
    /\ ids = job.selected
    /\ OfSelectedSources(job) # {}

ValidSelection(job, ids) == ids \subseteq job.outputs \/ EchoesPreview(job, ids)

SelectOutputs(job, ids) ==
    IF ids = {} /\ job.profile = "FINAL" /\ job.sources # {} THEN OfSelectedSources(job)
    ELSE IF ids = {} THEN job.outputs
    ELSE IF ids \subseteq job.outputs THEN ids
    ELSE OfSelectedSources(job)

CanFinalize(job, ids) ==
    /\ job.status \in {"REVIEW_REQUIRED", "SUCCEEDED"}
    /\ ValidSelection(job, ids)
    /\ SelectOutputs(job, ids) # {}

RequestFinalization(job, ids) ==
    LET chosen == SelectOutputs(job, ids) IN
    [job EXCEPT !.status = "FINALIZING", !.stage = "QUEUED", !.profile = "FINAL",
                !.sources = {a.source : a \in chosen}, !.selected = chosen,
                !.version = @ + 1]

-----------------------------------------------------------------------------
(* Persistence.  find_by_id() keeps no ORM record, so save() reads the     *)
(* committed row again and assigns it every column of the aggregate,       *)
(* however old the aggregate is: nothing compares versions.  The UPDATE    *)
(* carries the columns in which the aggregate differs from the record that *)
(* save() itself read, and may have to wait for the row lock, so that only *)
(* in between can another transaction's column survive it.  A job with     *)
(* outputs replaces all its rows of the output table by its own.  Only a   *)
(* PROCESSING record has a lease, which is a date that differs from NULL   *)
(* also when it is past.                                                   *)

Column(row, record, job) == IF job # record THEN job ELSE row

\* Seeded fault: output rows are added without deleting the old ones.
WriteBackAppends(row, record, job) ==
    [[column \in DOMAIN row |-> Column(row[column], record[column], job[column])]
        EXCEPT !.outputs = row.outputs \cup job.outputs]

WriteBack(row, record, job) ==
    [status   |-> Column(row.status, record.status, job.status),
     stage    |-> Column(row.stage, record.stage, job.stage),
     profile  |-> Column(row.profile, record.profile, job.profile),
     sources  |-> Column(row.sources, record.sources, job.sources),
     modes    |-> row.modes,
     selected |-> Column(row.selected, record.selected, job.selected),
     outputs  |-> Column(row.outputs, {}, job.outputs),
     attempt  |-> Column(row.attempt, record.attempt, job.attempt),
     version  |-> Column(row.version, record.version, job.version),
     lease    |-> IF record.status = "PROCESSING" THEN job.lease
                  ELSE Column(row.lease, record.lease, job.lease),
     failure  |-> Column(row.failure, record.failure, job.failure)]

\* What the pipeline makes of the job it claimed.
Generating(job) == WithStage(WithStage(job, "PREPARING_IMAGE"), "GENERATING")
Completed(job, assets) ==
    LET uploaded == WithStage(Generating(job), "UPLOADING")
        ready    == WithStage(WithOutputs(uploaded, assets), "READY")
    IN  ReleaseLease(Transition(ready, "REVIEW_REQUIRED"))
FailureOf(job) == IF job.attempt > MaxRetry THEN "MAX_ATTEMPTS_EXCEEDED" ELSE "PIPELINE"
Failed(job, code) ==
    ReleaseLease(Transition(WithStage(WithFailure(job, code), "FAILED"), "FAILED"))
=============================================================================
