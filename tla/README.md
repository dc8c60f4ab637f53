# Formal model of the Bin AI Service

TLA+ specifications of the Bin-E-Commerce AI service, the configurations that
check them with TLC, and theorems about them that the TLAPS proof system checks.
All paths below are relative to the repository (`src/`); source comments are
quoted in the Vietnamese they are written in.

1. [The system](#1-the-system)
2. [The modules](#2-the-modules)
3. [How state and actions correspond to the code](#3-how-state-and-actions-correspond-to-the-code)
4. [What is checked](#4-what-is-checked)
5. [Bounds, fairness and assumptions](#5-bounds-fairness-and-assumptions)
6. [What is proved](#6-what-is-proved)
7. [Where the code departs from its comments](#7-where-the-code-departs-from-its-comments)
8. [Not modelled, and the plan](#8-not-modelled-and-the-plan)

## 1. The system

The service is a FastAPI application plus three worker processes (image worker,
outbox relay, embedding worker). README.md:551 asks to run them as separate
processes, and each of them may run several times. They share PostgreSQL, Redis
and Kafka and call three other services (Product, Media, Recommendation) and
OpenAI.

| Component | State it keeps | Operations |
|---|---|---|
| Job aggregate (`image_optimization/domain`) | one job: status, stage, profile, selected sources and outputs, attempt, version, lease, failure | create, claim, stage, outputs, failure, finalization, transition, release |
| Repository (`persistence/sqlalchemy_repository.py`) | `image_optimization_jobs`, batches, outputs (PostgreSQL) | find without lock, save the whole aggregate over the row, claim `FOR UPDATE SKIP LOCKED`, save_batch |
| Batch creation (`create_batch.py`) | batch row unique by owner and key; quota in Redis | idempotent create with its jobs and outbox rows in one transaction |
| Outbox and relay (`outbox_publisher.py`, `outbox_relay.py`) | outbox rows: claim, attempts, next attempt, verdict | enqueue, claim, send, mark, retry, dead-letter |
| Image worker (`image_optimization_worker.py`, `processor.py`) | Kafka offsets, tasks of a batch, row locks | poll, claim, download, generate, upload, save, clean up, commit offsets |
| Review (`apply_outputs.py`, `reject_job.py`, `rollback_job.py`) | job row, product images, stored assets | finalize, apply, reject, rollback |
| Embedding worker (`embeddings/infrastructure`) | offsets, Redis result cache | parse, look up, call, cache, publish, dead-letter, commit |
| Product content (`product_content`) | Redis result cache and sliding-window quota | suggest names, suggest a description |
| Impact reports (`get_impact.py`, `get_overview.py`) | none; they read the job rows and Recommendation Service | latest session of a product, comparison window, report status, count of optimized products |
| Ranking (`ranking/infrastructure`, `ranking/application`) | the model file with its metadata and metrics; one loaded model per process | train, evaluate, write files, load or fall back at start-up, status, predict |
| HTTP shell (`bootstrap/api.py`, `core/metrics.py`) | gauge of open requests | count a request in and out |
| Provider adapters, memory mode | see section 8 | |

**Interaction.** A create request writes the batch, the job and an outbox row in one
transaction. A relay moves outbox rows to Kafka, at least once. A worker takes the
message, claims the job, commits that claim, downloads without any lock, saves (which
takes the row lock), pays the image provider, uploads, and commits the result together
with the release of the lease. The seller then reviews: an apply on preview outputs
stores a selection and enqueues a second (final) event; an apply on final outputs calls
Product Service and records `APPLIED`; rollback and reject undo that or drop the
outputs.

**What is hard.** Nothing here runs alone: messages are redelivered, relays and workers
die between two steps, the consumer group moves a partition under a busy worker, a lease
may run out under a slow download, requests overlap with each other and with the worker
on aged snapshots that `save()` writes back without a version check, remote answers are
lost after the effect, a batch of tasks fails in part, and the quota script decides by a
clock read earlier in another process. Training replaces the very file API processes
load, and may fail after that. `PROJECT.json` lists these hazards with their lines.

**What makes each component correct.**

* Outbox: a verdict (`published_at`, `dead_lettered_at`) is backed by the broker, is
  never revoked, needs its attempts, and comes eventually; a relay never acts on a claim
  it has lost.
* Worker: a job has one task at a time; paid rounds are capped; an offset is committed
  only past handled messages; outputs under review exist; every job settles.
* Review: a recorded verdict was carried out by Product Service; a finalizing job has an
  event on its way; statuses follow the state machine; needed images stay.
* Create: callers of one key agree on one batch; the quota covers what is written.
* Embedding: committed requests are answered; repeats of paid calls have a cause.
* Content: the quota holds in real time; `Retry-After` is honest; the gauge of open
  requests is never too low.
* Impact: a session is started by the apply that replaced the cover and by no other;
  reports agree with what the product shows; numbers of a finished comparison stay.
* Ranking: a process calls itself ready only with a whole model of its own width; the
  files beside a model are about it; metrics mean what their comments say.
* All of the image path: a job is carried on until it has a verdict, and the seller sees
  a simple life of it.

## 2. The modules

| Module | What it is |
|---|---|
| `EventDelivery` | abstract specification: what the transactional outbox promises |
| `Outbox` | the outbox table and relays; implements `EventDelivery` |
| `OutboxProofs` | theorems about `Outbox` |
| `OptimizationJob` | the job aggregate as operators, and `WriteBack` = `save()`; shared by `ImageWorker` and `Review` |
| `ImageWorker` | worker processes, consumer loop, pipeline, leases, faults |
| `ImageWorkerProofs` | theorems about `ImageWorker` and about `Pipeline` |
| `JobLifecycle` | abstract specification: the life of a job as its seller sees it |
| `Pipeline` | `EventDelivery` composed with `ImageWorker`; implements `JobLifecycle` |
| `Review`, `ReviewProofs` | overlapping seller requests against the job row, the services and a reduced worker; theorems about it |
| `CreateBatch`, `CreateBatchProofs` | idempotent creation under races; theorems about it |
| `EmbeddingWorker`, `EmbeddingWorkerProofs` | the embedding consumer; theorems about it |
| `ContentSuggestions`, `ContentSuggestionsProofs` | result cache and sliding-window quota; theorems about them |
| `Impact`, `ImpactProofs` | applies and rollbacks of several jobs of a product, and the reports read from them; theorems about it |
| `RankingMetrics` | AUC, NDCG, reciprocal rank and blending as operators |
| `Ranking`, `RankingProofs` | training jobs, the three files they write, API processes that load them; theorems about them |
| `MC*` | instances for TLC, one per checked module |

Definitions whose comment starts with "Seeded fault" are not part of a model. Each
is the definition after it with one plausible bug, and is used to test that the
properties notice the bug: `PROJECT.json` (`mutants`) pairs every property of
every passing run with one of them.

## 3. How state and actions correspond to the code

**Outbox.** `lockedBy`, `lockAge`, `wait`, `attempts`, `published`, `deadLettered` are
the columns of `image_optimization_outbox`; wall-clock columns are kept as distances
from now and saturate where the code stops telling values apart. `relay[r]` is where a
relay is in `relay_once`: `ClaimBatch` is the claim transaction,
`SendAccepted`/`SendFailed` the outcomes of `send_and_wait` (a failed send may have been
delivered), `MarkPublished`, `ScheduleRetry`, `OpenDlqTransaction`, `DlqAccepted`,
`DlqFailed`, `CommitDeadLetter` the second transaction, which holds the row over the
dead-letter send. `Crash` ends a relay anywhere; its successor has a new id, so its
claims must go stale. The backoff is computed from the `now` of the batch start, as in
the code. The branch without a dead-letter topic is left out; the entrypoint always
passes one.

**OptimizationJob.** One operator per method of `ImageOptimizationJob`. `find_by_id`
keeps no ORM record, so `save()` reads the row a second time (`session.get`,
`sqlalchemy_repository.py:79`) and `_copy_job` assigns it every column of the aggregate,
however old that is. `WriteBack(row, record, job)` has the `job` that is saved, the
`record` that `save()` itself read, and the `row` as the UPDATE meets it: a column in
which `job` and `record` differ becomes the aggregate's, also when the request never
changed it; a column in which they agree is not part of the UPDATE, so a commit between
that read and the row lock is all that can survive in it. Non-empty outputs replace all
output rows. `lease` is the time left; 0 stands for NULL or the past. An asset is
identified by source, mode, profile and the attempt that made it.

**ImageWorker.** `log`, `committed`, `position`, `owner` are one partition and the
group's view of it. `task[w][o]` is what worker `w` does with message `o`: `begin` →
(`ClaimJob`, `SkipMessage` or `SendDlq`) → `claimed` → (`GiveUp` or `StartGenerating`) →
`generate` → `CallProviders` → `ready`, `cleanup` or `failing` → `acked`, or `error`
through `TaskError`. The steps from `generate` to the end hold the row lock (`Holds`),
since the first flush happens before the provider calls and the commit after them.
`CallProviders` covers one provider call and one upload per source and mode; every
subset may be stored, and every subset of these may be reported, which gives lost upload
answers. `CommitOffset` commits in order once the whole batch ended, `StopAtError` is
the `break`, `CommitRejected` the exception of a commit after the partition moved. The
relay is a single step of the environment here. A request of the seller is several, in
`request[j][q]`: `ReadForApply` (on a preview) or `ReadForReject` read the row without a
lock and decide, `LoadRecord` is the read of `save()`, `Flush` its UPDATE, which waits
for the row lock and keeps it until the commit after the response. `SaveFinalizing`
commits the job with its event; a reject calls the Media Service in between (`CleanUp`,
then `SaveRejected`, or `Recleanup` for a job that is rejected already). `EndRequest` is
every refusal, lost answer and lost connection: the transaction rolls back, and a
cleanup that was done stays done. `wiped` is a ghost: the jobs that happened to, until a
request on them commits. A timed-out cleanup has taken effect by the time of the
rollback, or never does. A worker that meets the row while a request holds it skips the
message (`SkipMessage`). A committed offset is assumed to exist at the start; a group
without one starts at the end of the log, which is modelled in `EmbeddingWorker`, whose
consumer is configured alike.

**Pipeline.** Composes the abstract outbox with the worker: `Delivery` is an instance of
`EventDelivery` over the events of all jobs (a job and the profile of its run), and each
action is an action of one module joined with the matching one of the other or with
none. `Deliver` hands an event over and appends its message, `SellerApproves` is
`SaveFinalizing` together with the event of the final run (`RequestStep` has the other
steps of a request), `DeliverDead` and `RecordDead` give an event up, which no one tells
the job. A message is repeated only while the log has room for those still to come
(`Room`, within the bound `MaxLog`). That the relays keep `EventDelivery` is what
`Outbox` shows, so their tables do not appear again here.

**JobLifecycle.** `phase`, `final` and `spent` are the status of the job as the seller
can tell it apart (`Phase` in `Pipeline`), its profile and the paid rounds. Claims,
leases, messages and crashes are stuttering steps.

**Review.** A request holds the snapshot it read (`request[q].loaded`) through its
remote calls. `save()` is `LoadRecord` and `Flush`, and the row is locked from the flush
to the commit: at the end for apply and rollback, around the cleanup call for reject
(`CleanUp`, then `SaveRejected` or a rollback). `AnswerLost` is a request that dies or
loses an answer after the effect; its transaction rolls back, the effect stays.
`product`, `accepted`, `restored` and `media` are what the two services hold, modelled
from the clients in `infrastructure/clients`. The worker is reduced to its three
transactions. `skipped` is a ghost: jobs whose message met a row that a request held
(`SKIP LOCKED`) and was consumed.

**CreateBatch.** `ReadKey`, `Resolve`, `TakeQuota`, `InsertBatch` (or `InsertWaits` on
the unique key, then `InsertConflicts`), `AnswerCreated`, `CommitBatch`; `RefuseKey` is
a key that fails in the domain after the quota was spent. The session is a dependency
with `yield` (`dependencies.py:117`), which FastAPI leaves after the response was sent
(since 0.118; requirements.txt has a later version, older ones commit first, which is
the same order with nothing in between): the caller hears of the batch before the
commit. `used` is the Redis quota, which no rollback returns. A request may `Die`
anywhere, also between the two; `AnswerLost` commits without the caller's knowledge. The
model is one window of the quota: entries do not leave it (`ContentSuggestions` has the
window that slides). It is the production set-up; elsewhere `dependencies.py:99` passes
no limiter.

**EmbeddingWorker.** One action per call of the loop: `Fetch`, `Refuse`,
`LookUp`/`LookUpFails`, `CallSucceeds`/`CallFails`, `Store`/`StoreFails`,
`Publish`/`PublishFails`, `SendDlq`, `Commit`/`CommitRejected`. `Resume` (used by
`Crash` and `Rebalance`) puts the fetch position at the committed offset, or at the end
of the log while the group never committed one (`joined`, `skipped`).

**ContentSuggestions.** `Arrive`, cache lookup (`AnswerFromCache`, `Miss`), `ReadClock`,
then the Lua script (`Admit` in `PassQuota`, or `Deny` in `ExceedQuota`) up to `MaxLag`
later with the old stamp, `Generate`/`GenerateFails`, `Store`. `Respond` is the end of a
request that has a response (an `AppError` has one); `RedisFails` is a Redis call that
raises, before or after its effect, past every handler. `window` is the sorted set,
`inFlight` the gauge of the middleware, `admitted` a ghost with the real times of
admissions.

**Impact.** Starts where a job has final outputs, and follows several jobs of one
product. `job[j]` is what creation read (`CreateJob`: the version first, then the image,
so the two may be one version apart), `row[j]` the columns the reports use,
`completed_at` as an order (`at`) and a day. `product` is the gallery at Product Service
with the cover and the job it shows; `Accept` and `Restore` are its two endpoints as the
clients use them, `ChooseCover` an edit by the seller. `ResolveBoundary` asks for the
cover, `CallApply` applies, `CompleteApply` is the transition (its time comes from
`clock`) and the read of the row with which `save()` begins, `Save` writes the aggregate
over the row: four steps with anything in between, `CompleteRollback` and `Save` for a
rollback. A second apply that was decided after the first had replaced the cover saves
its own `starts`, FALSE, over TRUE. `Session` is `find_latest_impact_jobs` for the
product, `CountedApplied` is `count_applied`, and `Report` is `_build_products` for one
item, over the days with buyer events (`visited`). `replaced` is a ghost: the jobs whose
apply replaced the cover at the moment Product Service carried it out.

**Ranking.** A training job reads its dataset (`Accepts` is every check before the
training; a dataset that fails one changes nothing), then goes through `BeginSave`,
`EndSave`, `Evaluate`, `WriteMetadata`, `WriteModelMetrics`: three files replaced one by
one, the model first. `Die` ends it anywhere; `Evaluate` raises for a number of features
other than the nine of the baseline, after the model was replaced. The default output of
the trainer is the file the API loads. `Start` is `build_ranking_model`: a model of the
right width, the fallback, or, for a file that LightGBM cannot read, an exception that
may not be one of the three the code catches. `Ready` is an operator over what a process
serves, and looks at the version alone: `FallbackNames` are the versions that begin with
`ranking-fallback`, as `router.py:81` tests; the answers of `predict` are not modelled.
In `RankingMetrics`, scores are whole parts of `One` and quotients stay pairs, so that
nothing is rounded; logarithms are a table that falls (`Discount`). What the metrics are
compared with is in `Ranking`: `PairsCounted` counts pairs instead of ranks, and
`GainsInOrder` compares orders.

## 4. What is checked

| Run | Properties | What it shows |
|---|---|---|
| `outbox` | `Inv`, `AttemptsAreSends`, `EveryEventSettles`, `HandOffRefined` | two relays, two events, failed and slow sends, stale claims, a dying relay |
| `worker` | `OneTaskPerJob`, `PaidRoundsCapped`, `CommittedWasHandled` | two workers, three messages for one job (poison included), a seller who approves or rejects in steps and whose answers get lost, a rebalance under a busy worker, a crash or an uncaught exception |
| `pipeline` | `OpenJobsAreCarried`, `ReviewedOutputsExist`, `LifecycleRefined` | outbox and worker composed: repeated and dead-lettered events, two modes, partial failures, cleanup, requests of the seller in steps, one uncaught exception, one crash |
| `pipeline_live` | `SettlesUnlessDead` | the same with two workers, leases that expire under slow downloads, a rebalance or a dead letter, no crash and no uncaught exception |
| `review` | `VerdictsCarriedOut`, `FinalizingHasEvent`, `NeededImagesStored`, `StatusMovesAllowed` | two open requests at a time, four in total, two jobs of one product, one lost answer |
| `create` | `CallersAgree`, `QuotaCoversBatches` | three open requests, two keys and payloads, a key that is too short, one request that dies |
| `embedding` | `CommittedWasAnswered`, `RepeatsHaveCauses`, `EveryRequestAnswered` | two workers, a malformed message, one of each fault |
| `content` | `QuotaHolds`, `RetryAfterSuffices`, `GaugeCoversRequests` | three requests that overlap, scripts that arrive a tick late, one Redis call that raises |
| `impact` | `CoverSessionsMarked`, `ReportsMatchProduct`, `SecondaryKeepsSession`, `ClosedWindowsStay` | two jobs over a gallery of two images, two open requests and three in total, a cover edit, a lost answer, three days |
| `ranking` | `StatusTellsTruth`, `SidecarsDescribeModel`, `SidecarsOfSavedModels` | two trainings that overlap or die, a process that starts before, between and after, good and bad datasets |
| | `MetricsMatchMeaning`, `BaselineNotOverruled` | the metrics against reference definitions, over all labels and scores of up to four rows (AUC), and all labels, scores and requests of up to three (NDCG, reciprocal rank) |
| `worker_crash`, `worker_offset` | one each, violated | section 7 |

Each module's `TypeOK` is checked by one run as well. The comment above every
property says which promise of the code it is.

Some properties hold only under a condition. It is part of the formula, or a constant
of the specification which the comment of the property and its theorem name, and it is
something the code does not protect against:

* `OneTaskPerJob`, `PaidRoundsCapped`, `ReviewedOutputsExist` and `LifecycleRefined`
  need two things, constants of the specification. `Prompt`: downloads end before the
  lease does. Without it a second worker claims the job while the first goes on.
  `OneByOne`: a job has one request of the seller at a time, no second one before the
  transaction of the first has ended. Without it a second finalization, read before the
  first was committed, saves FINALIZING and the old attempt over the row of a worker,
  and the job is claimed again while that worker is active; with two request slots and
  `MaxLog = 4`, and neither an error nor a crash, TLC finds `OneTaskPerJob` and
  `PaidRoundsCapped` violated.
* `CommittedWasHandled` excludes uncaught errors, `CommittedWasAnswered` failed
  publishes and offset resets; `worker_offset` shows why, and the embedding worker's
  loop has the same shape.
* `OpenJobsAreCarried` speaks of waiting jobs as long as no task raised an error, and of
  claimed ones as long as no worker died either: `worker_crash` is what happens
  otherwise. It needs `Prompt` and `OneByOne` as well: `SKIP LOCKED` drops a message that
  meets a row which an overlapping request holds (`review` has that case).
* `SettlesUnlessDead` says nothing after an uncaught error or a crash, nor of requests
  that overlap: each of them may leave a job open without a dead letter (section 7).
* `ReviewedOutputsExist` asks for stored outputs unless a reject has removed them: one
  whose cleanup was answered and whose commit is still to come (`BeingRejected`), or one
  that was rolled back after its cleanup (`wiped`; `reject_job.py:38`), which leaves a
  job under review without its images. Cleanups of failed attempts are not excepted.
* `FinalizingHasEvent` exempts jobs whose message met a row that a flushed save held
  (`skipped`), and fails without the exemption: a reject rolls back, or a second
  finalization commits, the job is `FINALIZING` and the message is gone.
* Two properties of `Review` speak of jobs whose requests did not overlap (`Alone`): two
  overlapping requests of one seller do break them, since `find_by_id` takes no lock and
  `save()` compares no version. A seller who waits for each answer can overlap too, as
  the commit follows it. What holds under every overlap is `VerdictsCarriedOut` and
  `FinalizingHasEvent`. `Alone` does not exclude the worker, nor requests on another job
  of the same product.
* `CallersAgree` excepts the batch of a request that died between its answer and its
  commit (`unkept`): its caller was told of a batch that does not exist.
* `NeededImagesStored` also excludes lost answers: a reject whose cleanup answer is lost
  rolls back to `REVIEW_REQUIRED` without its images. Of a job under review it leaves
  out the moment between the cleanup of a reject and its commit.
* `QuotaCoversBatches` speaks of production and of one window of the quota.
* `QuotaHolds` is about the window less `MaxLag`: a script that arrives late may prune
  by an older clock than the admission it forgets.
* That only a job that replaced the cover starts a session (`CoverSessionsMarked`) holds
  without condition. That such a job does start one needs answers that arrive and
  requests on it that do not overlap (`Alone`): the retry of an apply whose answer was
  lost finds the AI output as the cover and marks no session, and an overlapping apply
  saves its own decision over the first one's.
* `ReportsMatchProduct` also needs requests one after the other: an older job that is
  rolled back again later becomes the latest session. Its second part leaves out
  products whose cover the seller moved, which no report follows.
* `SidecarsDescribeModel` excludes trainings that died, raised or overlapped: the code
  writes the three files one after the other. `SidecarsOfSavedModels` holds for all.
* `StatusTellsTruth` excepts a `RANKING_MODEL_VERSION` that begins with
  `ranking-fallback`, as its default does: a loaded model is then reported as the
  fallback.

## 5. Bounds, fairness and assumptions

Constants marked "bound" limit counters that the code leaves open. The instances
are small, and chosen so that the interesting case still fits:

* two relays, because take-over needs an owner and a taker; `MaxAttempts = 2` so that
  one retry and one dead letter happen; `LockTTL = 1`, `DelayCap = 2`;
* two workers and three messages for one job: original, redelivery and one more event
  (poison, or the final run), so that both workers hold the same job's messages;
  `MaxRetry = 2`, so that one retry succeeds and the next is refused;
* one request slot per job in `worker`, `pipeline` and `pipeline_live`, which is
  `OneByOne`; the slot is used again and again. Overlapping requests are in `review` and
  `impact`;
* `worker` explores one crash or one uncaught exception per behaviour (`MCOneFault`);
  `pipeline` has both. `pipeline_live` has neither, since `SettlesUnlessDead` is
  satisfied after one, and a moved partition or a dead letter, not both
  (`MCMovedOrDead`);
* the outbox of `Pipeline` is given at most one event of the final run per job;
* `LeaseTicks = 1`: a lease is either running or over, which is all `CanClaim` asks;
* a single source, one or two modes: partial failure needs two outputs;
* in `pipeline` and `pipeline_live` a worker takes one message at a time. With `Prompt`
  a job has one task at a time (proved), so a second message in a batch could only be
  skipped; larger batches are in `worker`. `MaxDead = 1` of two events;
* two trainings of widths 8 and 9 over five datasets; `MaxRows = 4` rows per evaluation
  for AUC and one row fewer for the metrics by request, whose rows also choose one of
  two requests or none: ties, several requests and rows without one can meet. The
  theorems hold for every `MaxRows` that has discounts;
* `Limit = 2`, `Window = 4`, `Second = 2`: `Retry-After` has to round;
* two jobs over two images: both on the cover, one on each, or one on the output of the
  other; `LastDay = 2` is one day of baseline, one compared and one after that. A cover
  edit or a lost answer, not both (`OneDisturbance`), and no request on the first day
  (`FirstDayFree`), which is the day of baseline.

The largest instances are `worker` with 1.7 million distinct states, `pipeline` with
0.8, `impact` with 0.7, and `review` and `pipeline_live` with 0.2.

`SYMMETRY` is used in safety runs only, over model values that no definition tells
apart. `CHECK_DEADLOCK FALSE` is set where a system may stop: requests are bounded
in `Review`, `CreateBatch`, `ContentSuggestions` and `Impact`, and the embedding topic in
`EmbeddingWorker`. In `Outbox` and `ImageWorker` time can always tick.

`pipeline` and `pipeline_live` differ in `Prompt`, so they cannot be one run.

Fairness is weak fairness of what some loop in the code repeats without a
condition: `RelayStep` (`while True` with a sleep, restarted by its supervisor),
`ConsumerStep` and every task of a batch (`asyncio.gather`), the embedding loop,
the clock, and the end of a request that was read (`Answer`): every call it makes has a
time-out, and any answer will do, a rollback included. No request is ever bound to be
made, nor to get the row lock before somebody else. Crashes and failures get no
fairness. `EveryEventSettles`
assumes `PromptRelays` in its own statement: relays end up marking an event before
its claim is five minutes old, as `send_and_wait` gives up far earlier; two relays
that are both slower can take the row from one another for ever. In `Pipeline` the
relay is fair to every event that waits for a verdict, which is what
`EveryEventSettles` shows of it.

## 6. What is proved

`tlapm` checks every proof; nothing is assumed but the `ASSUME`s of the modules,
which TLC evaluates in the runs. The theorems hold for every value of the constants,
the bounds of section 5 included: any sets of jobs, workers and requests, and any
number of messages and faults.

**Outbox** (`OutboxProofs`, from `OutboxAssumption`). `Inv` is inductive: `TypeOK`,
`ClaimsAwaitVerdict` (a claimed row has no verdict), `DeadOnlyAfterAttempts`,
`RelaysBelieveTruth` (what a relay is about to write about an event did happen: the
broker took it, or its attempts are spent) and `VerdictsBacked` (a verdict in the table
has its message at the broker). The last two carry the argument: the claim is checked
again in the closing transaction, so a relay acts on its own row or on none, and a row
never changes its mind.

| Theorem | States |
|---|---|
| `TypeCorrect` | `Spec => []TypeOK` |
| `InvHolds` | `Spec => []Inv`, the strengthening the other theorems rest on |
| `ClaimsAreSafe`, `DeadLettersSpentTheirAttempts` | its two parts about claims and dead letters |
| `AttemptsCountSends` | `Spec => []AttemptsAreSends`. `SendsInv`: the attempts in all rows and the relays that hold a failed send which is not in the table yet are at most the failed sends and the published rows. A relay writes its send down once, and only into a row that it still owns, so two relays never count one success |
| `OutboxImplementsDelivery` | every behaviour of `Outbox` is one of `EventDelivery` under `HandOff` |

**Image worker** (`ImageWorkerProofs`, from `WorkerAssumption` and `JobAssumption`).
What the operations of the aggregate return comes first; then the steps of the pipeline
are summarised (`Effect`, `StepEffect`), so that the invariants need a case per kind of
step, not per step.

| Theorem | States | Argument |
|---|---|---|
| `TypeCorrect` | `Spec => []TypeOK` | `TypeInv` adds that tasks sit inside the log (`InLog`) |
| `NothingUnhandledCommitted` | `Spec => []CommittedWasHandled` | `HandledInv`: without uncaught errors, every message up to the owner's position is handled or is a task of the owner, and what precedes a busy task of a worker is handled or busy with the same worker; the commit goes through the batch in order |
| `OneTaskPerJobHolds` | under `Prompt` and `OneByOne`, `Spec => []OneTaskPerJob` | `RequestInv`: a request that decided found the job under review, and a row under review stays as it was read until that one request writes it, so no worker is at work on it and nothing is put back. `SafeInv`: an active task has the job `PROCESSING`, its snapshot has the row's attempt, and before it takes the row lock its lease still runs, so no second claim passes `CanClaim` |
| `PaidRoundsStayCapped` | under `Prompt` and `OneByOne`, `Spec => []PaidRoundsCapped` | `SafeInv` again: a task that has not paid its round yet finds `rounds < attempt`, and only attempts up to `MaxRetry` reach the provider |

`Prompt` and `OneByOne` (together `Orderly`) are hypotheses of the last two theorems as
they are of the properties. `HandledInv`, `RequestInv` and `SafeInv` were invariants of
TLC runs on the instances of `worker` and of the runs with two modes before they were
proved.

**Pipeline** (`ImageWorkerProofs` too, from the same assumptions and
`PipelineAssumption`; each under `Prompt` and `OneByOne`). A step of the pipeline is a
step of the worker, a step of the relay or both, so `PipelineInv` puts `TypeInv`,
`SafeInv`, `RequestInv` and `HandledInv` beside what is known of the outbox
(`OutboxInv`: its events are of jobs) and of what is shown (`ShownInv`).

| Theorem | States | Argument |
|---|---|---|
| `PipelineKeepsWorkerPromises` | `PipelineSpec => []OneTaskPerJob` | the worker's invariants, with messages from the outbox in place of any messages |
| `ShownImagesExist` | `PipelineSpec => []ReviewedOutputsExist` | `RunInv`: a task works on the run its row asks for; `ReviewInv`: what a task is about to show has been made for the run and the attempt of the row and is stored, and so are the outputs under review, unless a reject removed them. The other cleanup belongs to the one task of its job, which has nothing to show |
| `PipelineImplementsLifecycle` | `PipelineSpec => LifecycleRefined` | initial states map to initial states; each kind of step (claim, effect of a task, decision of the seller, death, relay) is one of `JobLifecycle` or a stutter. What `JobLifecycle` asks of the paid rounds is `SafeInv` and `PaidInv`: a preview under review cost a round and the final images another one |
| `NoJobIsForgotten` | `PipelineSpec => []OpenJobsAreCarried` | `WaitInv`: the event of a waiting job is known to the outbox, and once it was sent there is a message of it that nobody has handled, unless it was given up; `WorkedInv`: a `PROCESSING` job has a task, unless a worker died |

**Batch creation** (`CreateBatchProofs`, from `CreateAssumption`).

| Theorem | States | Argument |
|---|---|---|
| `TypeCorrect` | `Spec => []TypeOK` | `TypeInv` adds that an open request carries a key, a payload and a number |
| `CallersAgreeHolds` | `Spec => []CallersAgree` | `OneWriter`: at most one transaction holds an uncommitted row of a key, and only while the key has no committed batch, so a commit replaces no batch that somebody was told of. `Kept` is `CallersAgree` with the key of the transaction that still has to keep a promise, without which the property is not inductive |
| `QuotaCovers` | `Spec => []QuotaCoversBatches` | `QuotaInv`: used entries are at least the keys with a batch plus the requests past the limiter. Both sets start empty and change by one element, so they are finite even when `Keys` and `Requests` are not |

**Embedding worker** (`EmbeddingWorkerProofs`, from `EmbeddingAssumption`).

| Theorem | States | Argument |
|---|---|---|
| `TypeCorrect` | `Spec => []TypeOK` | `TypeInv` adds that a busy worker has a message of the log, and that only a parsed request reaches the provider, the cache and the producer |
| `NothingUnansweredCommitted` | `Spec => []CommittedWasAnswered` | `HandledInv`: while no publish failed, every offset up to the fetch position is answered, skipped by a reset, or in the owner's hands; everything before the message of any busy worker, owner or not, is answered or skipped; a worker about to commit has answered. A commit that goes back, after the partition was away, is then as safe as one that goes forward |
| `RepeatsAreCaused` | `Spec => []RepeatsHaveCauses` | `CausesInv` charges every call beyond the first. Paid calls, workers that are about to call, items asked for that are neither cached nor in the owner's hands, and workers that lost the partition before they looked at the cache are together at most the items asked for and the causes so far: a crash or a fault of Redis pays for an item left without a cached answer, a rebalance for the worker that goes on without the partition |

**Content suggestions** (`ContentSuggestionsProofs`, from `ContentAssumption`). Every
step of a request is summarised by `Effect`: it leaves the quota alone, prunes it by a
clock of the past or admits the request, and it counts the request in, on, out or not at
all.

| Theorem | States | Argument |
|---|---|---|
| `TypeCorrect` | `Spec => []TypeOK` | `CountInv`: admissions and requests that wait for the quota are at most the arrivals, so every admission finds an unused member |
| `QuotaIsKept` | `Spec => []QuotaHolds` | `KeptInv`: every admission has its entry in the window, under a stamp at most `MaxLag` before it, until a whole window has passed since that stamp; the key expires no earlier. So the admissions of the last `Window - MaxLag` ticks are in the window, each under its own member, and the window holds at most `Limit` |
| `OpenRequestsAreCounted` | `Spec => []GaugeCoversRequests` | `CountInv` again: the gauge is between the open requests and these with the failed ones. The `max(0, ...)` of `add_gauge` is never what keeps it there |
| `RetryAfterIsHonest` | `Spec => RetryAfterSuffices` | `PromiseInv`: from a 429 to the retry, another request was admitted, or fewer than `Limit` entries are younger than a window before the announced time; the oldest entry of the full window is gone by then, as rounding up only adds to it |

**Ranking** (`RankingProofs`, from `RankingAssumption` and, for the metrics,
`MetricsAssumption`: discounts are whole numbers that do not rise, one for every row).

| Theorem | States | Argument |
|---|---|---|
| `TypeCorrect` | `Spec => []TypeOK` | `TypeInv` adds the shape of the jobs at work |
| `SidecarsAreOfSavedModels` | `Spec => []SidecarsOfSavedModels` | `SavedInv`: a job past `EndSave` has its run among the saved ones, so what it writes beside the model is of a saved model |
| `StatusIsTrue` | `Spec => []StatusTellsTruth` | `SavedInv` as well: a served model is the fallback or a saved one of the expected width, and it does not change while the process is up; the name of the fallback is one of `FallbackNames` |
| `SidecarsDescribe` | `Spec => []SidecarsDescribeModel` | `FilesInv`: while no job died, raised or overlapped, at most one is at work (`OneJob`), and the three files are either of one run or as far as that job has come (`Progress`) |
| `BaselineIsNotOverruled` | `Spec => []BaselineNotOverruled` | clamping keeps an order (`ClampKeepsOrder`); with a share of at most one half, the lead of the baseline is weighted no less than the lead of the model (`LeadIsKept`), for any rows, scores and blend |
| `MetricsMeanWhatTheySay` | `Spec => []MetricsMatchMeaning` | from the next two theorems, which are about the operators alone |
| `AucIsPairwise` | `PairsCounted` for any finite number of rows | `RankSum`: twice the shared ranks of the positive rows add up to what they win against all rows. Among themselves (`PairsAmongThemselves`) positive rows win as many pairs as they lose, which is what `positives * (positives + 1)` takes off; pairs with a negative row are left |
| `GainsAreInOrder` | `GainsInOrder` for any rows that the discounts cover, with any requests, at every cutoff | `PositionsInOrder`: stable sorting gives the rows of a request the positions 1 to their number, one each. `SortedGainsMost` is the rearrangement inequality: an order by labels earns no less than any other, by induction over the rows, taking out the last one of the sorted order after an exchange that loses nothing. An AUC of 1 separates every pair (`SeparatesEveryPair`), so the predicted order is an order by labels too and earns the same, and the first row is positive (`FirstIsPositive`) |

The metrics rest on a layer of lemmas on sums over a finite set (`SumEmpty`,
`SumTakeOut`, `SumSame`, `SumWithoutZeros`, ...). They are proved from the fold that
`SumFunction` is defined by: it has a value for every finite set (`AddsUpExists`), and the
value does not depend on the order in which elements are taken (`AddsUpOnce`).

**Review** (`ReviewProofs`, from `ReviewAssumption` and `JobAssumption`). What the
operations of the aggregate return is proved as for the image worker. A step is again
summarised first (`Effect`): how it may change a status, the events of a finalizing job,
the answer a request holds, and what the Product Service shows.

| Theorem | States | Argument |
|---|---|---|
| `TypeCorrect` | `Spec => []TypeOK` | `TypeInv` adds that an open request is about a job; what `WriteBack` makes of three versions of a job is a job |
| `VerdictsAreCarriedOut` | `Spec => []VerdictsCarriedOut` | `VerdictInv`: a request past its call has Product's answer, the job that Product shows was accepted, and nothing undoes what was carried out; a verdict in a row comes from such a request or was there |
| `FinalizingKeepsEvent` | `Spec => []FinalizingHasEvent` | inductive with `Effect`: `FINALIZING` is entered together with an event, a worker that uses one up changes the status, and the one way to lose it is recorded |
| `StatusesMoveAsAllowed` | `Spec => StatusMovesAllowed` | `AloneInv`: while the requests of a job did not overlap, at most one is open, what it decides on is what the row holds, and the worker has the job only while there is nothing to review. A status is then written over the one it was decided on |
| `NeededImagesAreStored` | `Spec => []NeededImagesStored` | `ImagesInv`: under review all outputs are stored, and Product shows a job of ours only while it is applied or about to be, with stored images. A reject deletes the outputs of a row that nobody but it can decide, a failed run those of its own attempt |

**Impact** (`ImpactProofs`, from `ImpactAssumption`).

| Theorem | States | Argument |
|---|---|---|
| `TypeCorrect` | `Spec => []TypeOK` | `TypeInv` adds a row completed last, on which the clock of the next transition rests |
| `CoverSessionsAreMarked` | `Spec => []CoverSessionsMarked` | `HistoryInv`: accepted jobs are ordered by the version they were created for, what lies between the shown job and the one it replaced has been rolled back, and the image a job replaced does not come back while the job is not rolled back. Hence `DecidedInv`: the decision a request took before its call fits the apply whenever Product still takes it, because the product has not moved; `WrittenInv` carries it to the row. `SoleInv` is for the second half: while the requests of a job do not overlap, `save()` reads the row that the request read at first |
| `SecondaryLeavesSession` | `Spec => SecondaryKeepsSession` | `LatestInv`: the session is the latest of the rows that start one, and there is a latest whenever there is one at all; a secondary row is not among them |
| `ClosedWindowsAreFinal` | `Spec => ClosedWindowsStay` | the days of a comparison end before `today` once its windows are closed, and visits are added for `today` only |
| `ReportsAgree` | `Spec => []ReportsMatchProduct` | under the conditions of the property: `GrantedInv` (rows say what Product granted), `FreshInv` (a job of the current version has seen the image it is to replace), `TurnInv` (one request at a time, and whatever Product granted is in a row or about to be), `NewestInv` (an applied job that was completed last has its image in its place) and `CoverInv` (the session that started last has its image on the cover, and later applies found it there) |

`HistoryInv` and the other parts held in TLC for two and for three jobs before
they were proved, and so did the invariants under `ReportsAgree`, `CausesInv` with
two items, rebalances and cache faults, `KeptInv` and `PromiseInv`. That the decision
at `apply_outputs.py:80` is safe although the cover is read before the call rests on
Product's version check, which the model takes from how the code passes the expected
version; it is the external part of this theorem.

Out of the prover's reach and left to TLC: liveness (`EveryEventSettles`,
`SettlesUnlessDead`, `EveryRequestAnswered`), since ENABLED and fairness are not
supported. Every other property of a passing run is stated by a theorem. Induction
principles that take an operator cannot be used either, but an induction over finite
sets can: `FiniteInduction` in `RankingProofs` speaks of a set of sets, and follows
from the well-foundedness of strict inclusion. No module declares a RECURSIVE operator.

## 7. Where the code departs from its comments

* `worker_crash`: a worker dies after the claim; Kafka redelivers at once; the lease
  still runs, `claim_for_processing` answers `None` (`sqlalchemy_repository.py:137`) and
  the consumer commits the offset. The lease ends, but no message is left.
  `sqlalchemy_repository.py:124` says an expired lease allows recovery.
* `worker_offset`: a message fails, `_process_partition` breaks
  (`image_optimization_worker.py:110`), nothing seeks back, and the next batch commits
  past it. Line 85 says this cannot happen.

`save()` (`sqlalchemy_repository.py:76`) overwrites a newer row, although
`domain/models.py:208` says the version lets persistence detect it; the overlaps in
`Review` and `Impact` include this, and their properties say what survives it. On the
way of a job through the workers this means: two finalizations that overlap are both
saved, the second one puts `FINALIZING` and the old attempt over a row that is
`PROCESSING` by then, a second worker claims the job while the first is active, and
rounds are paid beyond the attempts counted. `sqlalchemy_repository.py:124` says that
only one worker gets the aggregate. This is why `OneTaskPerJob` and `PaidRoundsCapped`
have `OneByOne` as a condition. A job whose event was dead-lettered stays open
(`SettlesUnlessDead`); a Redis error leaves the gauge of open requests one too high for
ever (`GaugeCoversRequests`). `README.md:571` promises the fallback for a model that
cannot be loaded; the code catches three classes of exceptions, and `Start` in `Ranking`
allows both outcomes. The embedding worker has the shape of `worker_offset` too
(`embeddings/infrastructure/messaging/worker.py:193` against lines 97 and 191): it is
why `CommittedWasAnswered` excludes failed publishes. Two gaps in the reports are
visible in `Impact` and have no property, since the code does not say what is meant: a
report whose first N days are empty never becomes `READY`, and rolling back a secondary
image uncounts a product whose cover is optimized.

## 8. Not modelled, and the plan

Not modelled: of **ranking**, what LightGBM learns and predicts, log loss and the
scores of the fallback; of the **HTTP shell**, settings, security, payload validation,
error envelopes and the other **metrics** (the request transaction, the loaded model
and the gauge are modelled where they matter); **providers, prompts, cipher** (external
calls, text and pixels; their outcomes are choices in the models); **memory mode** (one
process, refused in production); migrations. Of the **impact and overview reports**,
the sums over products, the percentages and the counts by status are arithmetic on
what `Impact` models. Two hazards have no property because the code does not say what
is meant: the mapping of echoed preview ids to final outputs, and reports whose first
days are empty.

Modules were written in the order of risk: outbox with its abstract specification
and proofs, the aggregate, the worker, review, creation, the embedding worker,
content suggestions, impact, ranking, and the composition of outbox and worker with
the life of a job as its abstract specification. The proofs followed in that order,
the types and the invariants that no run could do without first, the composition and
its refinement after the modules they are made of. Next, if the code gives cause:

1. Overlapping requests and the requests on final outputs composed with `Pipeline`, so
   that what holds under an overlap (`VerdictsCarriedOut`) is shown next to a real worker.
2. `RetryAfterSuffices` for API processes whose clocks differ.
