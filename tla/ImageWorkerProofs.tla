------------------------- MODULE ImageWorkerProofs -------------------------
(***************************************************************************)
(* Theorems about ImageWorker, and about Pipeline, which composes it with   *)
(* the outbox, for every number of jobs, workers, messages and faults.     *)
(***************************************************************************)
EXTENDS Pipeline, FiniteSetTheorems, SequenceTheorems, TLAPS

\* Frames name the pair, invariants its parts.
USE DEF images

-----------------------------------------------------------------------------
(* What the operations of the aggregate return.                            *)

Failures == {"NONE", "PIPELINE", "CLEANUP_PENDING", "MAX_ATTEMPTS_EXCEEDED"}

\* The setters of the aggregate yield jobs; none of them touches the attempt.
SetsOne(job, next) == next \in Job /\ next.attempt = job.attempt
LEMMA SettersAre ==
  ASSUME NEW job \in Job
  PROVE  /\ \A status \in Statuses : /\ SetsOne(job, Transition(job, status))
                                     /\ Transition(job, status).status = status
         /\ \A stage \in Stages : /\ SetsOne(job, WithStage(job, stage))
                                  /\ WithStage(job, stage).status = job.status
         /\ \A code \in Failures : SetsOne(job, WithFailure(job, code))
         /\ \A assets \in SUBSET Asset : SetsOne(job, WithOutputs(job, assets))
         /\ SetsOne(job, ReleaseLease(job)) /\ ReleaseLease(job).status = job.status
         /\ ReleaseLease(job).lease = 0
<1>1. PICK version \in Nat : version = job.version + 1
  BY DEF Job
<1>2. ASSUME NEW status \in Statuses
      PROVE  SetsOne(job, Transition(job, status)) /\ Transition(job, status).status = status
  <2>1. Transition(job, status) = [job EXCEPT !.status = status, !.version = version]
    BY <1>1 DEF Transition
  <2> QED
    BY <2>1 DEF Job, SetsOne
<1>3. ASSUME NEW stage \in Stages
      PROVE  SetsOne(job, WithStage(job, stage)) /\ WithStage(job, stage).status = job.status
  <2>1. WithStage(job, stage) = [job EXCEPT !.stage = stage, !.version = version]
    BY <1>1 DEF WithStage
  <2> QED
    BY <2>1 DEF Job, SetsOne
<1>4. ASSUME NEW code \in Failures PROVE SetsOne(job, WithFailure(job, code))
  <2>1. WithFailure(job, code) = [job EXCEPT !.failure = code, !.lease = 0, !.version = version]
    BY <1>1 DEF WithFailure
  <2>2. [job EXCEPT !.failure = code, !.lease = 0, !.version = version] \in Job
    BY DEF Job, Failures
  <2> QED
    BY <2>1, <2>2 DEF Job, SetsOne
<1>5. ASSUME NEW assets \in SUBSET Asset PROVE SetsOne(job, WithOutputs(job, assets))
  <2>1. WithOutputs(job, assets) = [job EXCEPT !.outputs = assets, !.version = version]
    BY <1>1 DEF WithOutputs
  <2> QED
    BY <2>1 DEF Job, SetsOne
<1>6. /\ SetsOne(job, ReleaseLease(job)) /\ ReleaseLease(job).status = job.status
      /\ ReleaseLease(job).lease = 0
  <2>1. ReleaseLease(job) = [job EXCEPT !.lease = 0, !.version = version]
    BY <1>1 DEF ReleaseLease
  <2>2. [job EXCEPT !.lease = 0, !.version = version] \in Job
    BY DEF Job
  <2> QED
    BY <2>1, <2>2 DEF Job, SetsOne
<1> QED
  BY <1>2, <1>3, <1>4, <1>5, <1>6

\* Claiming yields a job that is PROCESSING under a lease, one attempt on.
LEMMA ClaimType ==
  ASSUME NEW job \in Job
  PROVE  /\ Claim(job) \in Job
         /\ Claim(job).status = "PROCESSING"
         /\ Claim(job).attempt = job.attempt + 1
         /\ Claim(job).lease = LeaseTicks /\ LeaseTicks > 0
<1> DEFINE version == job.version + 1
           attempt == job.attempt + 1
<1>1. version \in Nat /\ attempt \in Nat /\ LeaseTicks \in Nat /\ LeaseTicks > 0
  BY JobAssumption DEF Job
<1>2. Claim(job) = [job EXCEPT !.status = "PROCESSING", !.stage = "FETCHING_SOURCE", !.attempt = attempt,
                               !.version = version, !.lease = LeaseTicks, !.failure = "NONE"]
  BY DEF Claim
<1> HIDE DEF version, attempt
<1>3. Claim(job) \in Job
  BY <1>1, <1>2 DEF Job, Statuses, Stages
<1>4. Claim(job).status = "PROCESSING" /\ Claim(job).attempt = attempt /\ Claim(job).lease = LeaseTicks
  BY <1>2 DEF Job
<1> QED
  BY <1>1, <1>3, <1>4 DEF attempt

\* What the pipeline makes of a job is a job and keeps the attempt.
LEMMA GeneratingType ==
  ASSUME NEW job \in Job
  PROVE  Generating(job) \in Job /\ Generating(job).attempt = job.attempt
  BY SettersAre DEF Generating, Stages, SetsOne

LEMMA FailedType ==
  ASSUME NEW job \in Job, NEW code \in Failures
  PROVE  /\ Failed(job, code) \in Job
         /\ Failed(job, code).attempt = job.attempt
         /\ Failed(job, code).status = "FAILED" /\ Failed(job, code).lease = 0
  BY SettersAre DEF Failed, Stages, Statuses, SetsOne

LEMMA CompletedType ==
  ASSUME NEW job \in Job, NEW assets \in SUBSET Asset
  PROVE  /\ Completed(job, assets) \in Job
         /\ Completed(job, assets).attempt = job.attempt
         /\ Completed(job, assets).status = "REVIEW_REQUIRED"
         /\ Completed(job, assets).lease = 0
<1> DEFINE uploaded == WithStage(Generating(job), "UPLOADING")
           given == WithOutputs(uploaded, assets)
<1>1. SetsOne(job, uploaded)
  BY SettersAre, GeneratingType DEF Stages, SetsOne
<1>2. SetsOne(job, given)
  BY <1>1, SettersAre DEF SetsOne
<1> HIDE DEF uploaded, given
<1>3. Completed(job, assets) = ReleaseLease(Transition(WithStage(given, "READY"), "REVIEW_REQUIRED"))
  BY DEF Completed, uploaded, given
<1> QED
  BY <1>2, <1>3, SettersAre DEF Stages, Statuses, SetsOne

\* Finalization selects among the outputs and keeps the attempt.
LEMMA FinalizationType ==
  ASSUME NEW job \in Job, NEW ids
  PROVE  /\ SelectOutputs(job, ids) \subseteq Asset
         /\ RequestFinalization(job, ids) \in Job
         /\ RequestFinalization(job, ids).attempt = job.attempt
         /\ RequestFinalization(job, ids).status = "FINALIZING"
<1> DEFINE chosen == SelectOutputs(job, ids)
           from == {a.source : a \in chosen}
           version == job.version + 1
<1>1. chosen \subseteq Asset /\ from \subseteq Sources /\ version \in Nat
  BY DEF SelectOutputs, OfSelectedSources, Job, Asset
<1>2. RequestFinalization(job, ids) =
          [job EXCEPT !.status = "FINALIZING", !.stage = "QUEUED", !.profile = "FINAL",
                      !.sources = from, !.selected = chosen, !.version = version]
  BY DEF RequestFinalization
<1> HIDE DEF chosen, from, version
<1>3. RequestFinalization(job, ids) \in Job
  BY <1>1, <1>2 DEF Job, Statuses, Stages, Profiles
<1> QED
  BY <1>1, <1>2, <1>3 DEF Job, chosen

\* A verdict of the seller keeps the attempt.
LEMMA VerdictType ==
  ASSUME NEW job \in Job, NEW status \in Statuses
  PROVE  /\ ReleaseLease(Transition(job, status)) \in Job
         /\ ReleaseLease(Transition(job, status)).attempt = job.attempt
         /\ ReleaseLease(Transition(job, status)).status = status
         /\ ReleaseLease(Transition(job, status)).lease = 0
  BY SettersAre DEF SetsOne

\* save() writes a well-formed row, and the attempt of the row survives it when
\* it is that of the job written.
LEMMA WriteBackType ==
  ASSUME NEW old \in Job, NEW record \in Job, NEW job \in Job
  PROVE  /\ WriteBack(old, record, job) \in Job
         /\ job.attempt = old.attempt => WriteBack(old, record, job).attempt = old.attempt
  BY DEF WriteBack, Column, Job

\* A row nobody else touched becomes the job written.
LEMMA WriteBackAll ==
  ASSUME NEW old \in Job, NEW job \in Job, job.modes = old.modes, job.outputs = old.outputs
  PROVE  WriteBack(old, old, job) = job
  BY DEF WriteBack, Column, Job

\* The run a job asks for: its profile, its sources and its modes.
SameRun(a, b) == a.profile = b.profile /\ a.sources = b.sources /\ a.modes = b.modes

\* A claim, which starts over, is for the run the job asked for.
LEMMA ClaimRun ==
  ASSUME NEW job \in Job
  PROVE  SameRun(Claim(job), job)
  BY DEF Job, SameRun, Claim

\* A failed job asks for the same run when it is taken up again.
LEMMA FailedRun ==
  ASSUME NEW job \in Job, NEW code \in Failures
  PROVE  SameRun(Failed(job, code), job)
  BY DEF Job, SameRun, Failed, ReleaseLease, Transition, WithStage, WithFailure

\* The stages of the pipeline change neither run nor status.
LEMMA GeneratingRun ==
  ASSUME NEW job \in Job
  PROVE  SameRun(Generating(job), job) /\ Generating(job).status = job.status
  BY DEF Job, SameRun, Generating, WithStage

\* A completed job has the outputs it was given.
LEMMA CompletedRun ==
  ASSUME NEW job \in Job, NEW assets \in SUBSET Asset
  PROVE  SameRun(Completed(job, assets), job) /\ Completed(job, assets).outputs = assets
  BY DEF Job, SameRun, Completed, Generating, WithStage, WithOutputs, ReleaseLease, Transition

\* A verdict of the seller is about the run the job asked for.
LEMMA VerdictRun ==
  ASSUME NEW job \in Job, NEW status \in Statuses
  PROVE  SameRun(ReleaseLease(Transition(job, status)), job)
  BY DEF Job, SameRun, ReleaseLease, Transition

\* The final run has the modes of the preview, and sources if something was chosen.
LEMMA FinalizationRun ==
  ASSUME NEW job \in Job, NEW ids, SelectOutputs(job, ids) # {}
  PROVE  /\ RequestFinalization(job, ids).profile = "FINAL"
         /\ RequestFinalization(job, ids).modes = job.modes
         /\ RequestFinalization(job, ids).sources # {}
<1> DEFINE from == {a.source : a \in SelectOutputs(job, ids)}
<1>1. from # {}
  OBVIOUS
<1>2. /\ RequestFinalization(job, ids).profile = "FINAL"
      /\ RequestFinalization(job, ids).modes = job.modes
      /\ RequestFinalization(job, ids).sources = from
  BY DEF Job, RequestFinalization
<1> QED
  BY <1>1, <1>2

\* Neither takes outputs from the job.
LEMMA VerdictKeeps ==
  ASSUME NEW job \in Job, NEW ids
  PROVE  /\ RequestFinalization(job, ids).outputs = job.outputs
         /\ RequestFinalization(job, ids).lease = job.lease
         /\ ReleaseLease(Transition(job, "REJECTED")).outputs = job.outputs
  BY DEF Job, RequestFinalization, ReleaseLease, Transition

\* save() of a job that has left PROCESSING: the row takes the new status, asks for
\* the run it asked for, and has the lease and the outputs, if any, of the job.
LEMMA WriteBackRun ==
  ASSUME NEW old \in Job, NEW record \in Job, NEW job \in Job,
         record.status = "PROCESSING", job.status # "PROCESSING"
  PROVE  /\ SameRun(job, record) => SameRun(WriteBack(old, record, job), old)
         /\ WriteBack(old, record, job).status = job.status
         /\ WriteBack(old, record, job).lease = job.lease
         /\ job.outputs # {} => WriteBack(old, record, job).outputs = job.outputs
  BY DEF WriteBack, Column, Job, SameRun

-----------------------------------------------------------------------------
(* What a task may produce.                                                *)

Task == [step : Steps, loaded : Job, made : SUBSET Asset, record : Job]

\* What a run may produce are assets.
LEMMA TargetsType ==
  ASSUME NEW job \in Job, NEW targets \in Targets(job)
  PROVE  targets \in SUBSET Asset
<1>1. PICK sources \in SUBSET job.sources :
        targets = {[source |-> s, mode |-> m, profile |-> job.profile, attempt |-> job.attempt] :
                       s \in sources, m \in job.modes}
  BY DEF Targets
<1> QED
  BY <1>1 DEF Job, Asset

-----------------------------------------------------------------------------
(* Types.                                                                  *)

\* Tasks and what is handled are messages of the log, tasks under way are about
\* jobs; with TypeOK this is inductive.
InLog ==
    /\ \A w \in Workers, o \in Offsets :
           /\ task[w][o].step # "none" => o \in DOMAIN log
           /\ task[w][o].step \in ActiveSteps => log[o] \in Jobs
    /\ handled \subseteq DOMAIN log
TypeInv == TypeOK /\ InLog

Tasks == [Workers -> [Offsets -> Task]]

\* The requests of the seller.
RequestType ==
    [step : {"idle", "decided", "loaded", "flushed", "cleaned", "recleanup"},
     result : Job, record : Job]
RequestTypes == [Jobs -> [Requests -> RequestType]]

\* What replacing one task does.
LEMMA TaskChange ==
  ASSUME task \in Tasks, NEW w \in Workers, NEW o \in Offsets, NEW t \in Task,
         task' = [task EXCEPT ![w][o] = t]
  PROVE  /\ task' \in Tasks
         /\ task'[w][o] = t
         /\ \A v \in Workers, p \in Offsets : v # w \/ p # o => task'[v][p] = task[v][p]
  BY DEF Tasks

\* Forgetting the tasks of a worker.
LEMMA TaskDrop ==
  ASSUME task \in Tasks, NEW w \in Workers, Drop(w)
  PROVE  /\ task' \in Tasks
         /\ \A p \in Offsets : task'[w][p].step = "none"
         /\ \A v \in Workers, p \in Offsets : v # w => task'[v][p] = task[v][p]
<1>1. Blank \in Job /\ NoTask \in Task /\ NoTask.step = "none"
  BY JobAssumption DEF Blank, NewJob, Job, NoTask, Task, Steps, Statuses, Stages, Profiles
<1> QED
  BY <1>1 DEF Drop, Tasks

\* Messages of the log have an offset.
LEMMA LogOffsets ==
  ASSUME TypeOK
  PROVE  DOMAIN log = 1..Len(log) /\ Len(log) \in Nat /\ DOMAIN log \subseteq Offsets
<1>1. MaxLog \in Nat
  BY WorkerAssumption
<1> QED
  BY <1>1 DEF TypeOK, Offsets

\* A blank task.
LEMMA BlankTask ==
  NoTask \in Task /\ NoTask.step = "none"
  BY JobAssumption DEF Blank, NewJob, Job, NoTask, Task, Steps, Statuses, Stages, Profiles

\* A task that ends, acknowledged or not.
LEMMA EndedTask ==
  ASSUME NEW step \in Steps
  PROVE  [NoTask EXCEPT !.step = step] \in Task /\ [NoTask EXCEPT !.step = step].step = step
  BY BlankTask DEF Task

\* Giving a job up.
LEMMA GiveUpTask ==
  ASSUME task \in Tasks, row \in [Jobs -> Job], NEW w \in Workers, NEW o \in Offsets,
         log[o] \in Jobs, GiveUp(w, o)
  PROVE  \E t \in Task : /\ task' = [task EXCEPT ![w][o] = t]
                         /\ t.step = "givingup" /\ t.loaded = task[w][o].loaded
                         /\ t.record = row[log[o]]
<1> DEFINE t == [task[w][o] EXCEPT !.step = "givingup", !.record = row[log[o]]]
<1>1. t \in Task /\ t.step = "givingup" /\ t.loaded = task[w][o].loaded /\ t.record = row[log[o]]
  <2>1. ASSUME NEW old \in Task, NEW record \in Job
        PROVE  LET new == [old EXCEPT !.step = "givingup", !.record = record] IN
               /\ new \in Task /\ new.step = "givingup"
               /\ new.loaded = old.loaded /\ new.record = record
    BY DEF Task, Steps, ActiveSteps, UnlockedSteps
  <2>2. task[w][o] \in Task /\ row[log[o]] \in Job
    BY DEF Tasks
  <2> QED
    BY <2>1, <2>2
<1>2. task' = [task EXCEPT ![w][o] = t]
  BY DEF GiveUp, Tasks
<1> HIDE DEF t
<1> QED
  BY <1>1, <1>2

\* Moving a task to its next step.
LEMMA GotoTask ==
  ASSUME task \in Tasks, NEW w \in Workers, NEW o \in Offsets, NEW step \in Steps,
         Goto(w, o, step)
  PROVE  \E t \in Task : /\ task' = [task EXCEPT ![w][o] = t]
                         /\ t.step = step /\ t.loaded = task[w][o].loaded
<1> DEFINE t == [task[w][o] EXCEPT !.step = step]
<1>1. t \in Task /\ t.step = step /\ t.loaded = task[w][o].loaded
  <2>1. ASSUME NEW old \in Task
        PROVE  /\ [old EXCEPT !.step = step] \in Task
               /\ [old EXCEPT !.step = step].step = step
               /\ [old EXCEPT !.step = step].loaded = old.loaded
    BY DEF Task
  <2>2. task[w][o] \in Task
    BY DEF Tasks
  <2> QED
    BY <2>1, <2>2
<1>2. task' = [task EXCEPT ![w][o] = t]
  BY DEF Goto, Tasks
<1> HIDE DEF t
<1> QED
  BY <1>1, <1>2

\* Acknowledging a message.
LEMMA AckTask ==
  ASSUME task \in Tasks, NEW w \in Workers, NEW o \in Offsets, Ack(w, o)
  PROVE  \E t \in Task : /\ task' = [task EXCEPT ![w][o] = t]
                         /\ t.step = "acked"
<1>1. "acked" \in Steps
  BY DEF Steps
<1> QED
  BY <1>1, EndedTask DEF Ack

\* A save keeps the table well formed and the other jobs as they are.
LEMMA SaveType ==
  ASSUME row \in [Jobs -> Job], NEW j \in Jobs, NEW record \in Job, NEW job \in Job,
         row' = [row EXCEPT ![j] = WriteBack(@, record, job)]
  PROVE  /\ row' \in [Jobs -> Job]
         /\ row'[j] = WriteBack(row[j], record, job)
         /\ \A k \in Jobs : k # j => row'[k] = row[k]
<1>1. WriteBack(row[j], record, job) \in Job
  BY WriteBackType
<1> QED
  BY <1>1

-----------------------------------------------------------------------------
(* What a step of the pipeline does to the variables, for any message.     *)

Effect(w, o) ==
    /\ row' \in [Jobs -> Job]
    /\ media' \in [Jobs -> SUBSET Asset]
    /\ rounds' \in [Jobs -> Nat]
    /\ dlq' \subseteq Offsets
    /\ handled \subseteq handled' /\ handled' \subseteq handled \cup {o}
    /\ task[w][o].step \in ActiveSteps \cup {"begin"}
    /\ \E t \in Task :
           /\ task' = [task EXCEPT ![w][o] = t]
           /\ t.step \in ActiveSteps \cup {"acked"}
           /\ t.step \in ActiveSteps => log[o] \in Jobs
           /\ t.step = "acked" => o \in handled'
    /\ UNCHANGED <<owed, partition, request, wiped, faults>>

\* Every step of a task on a message of the log has this effect.
LEMMA StepEffect ==
  ASSUME TypeInv, NEW w \in Workers, NEW o \in DOMAIN log, TaskStep(w, o)
  PROVE  Effect(w, o)
<1>1. /\ row \in [Jobs -> Job] /\ task \in Tasks /\ o \in Offsets
      /\ media \in [Jobs -> SUBSET Asset] /\ rounds \in [Jobs -> Nat]
      /\ dlq \subseteq Offsets /\ log[o] \in Jobs \cup {Poison}
  BY LogOffsets DEF TypeInv, TypeOK, Tasks, Task
<1>2. task[w][o] \in Task
  BY <1>1 DEF Tasks
<1>3. {"claimed", "givingup", "generate", "ready", "cleanup", "failing", "acked"} \subseteq Steps
  BY DEF Steps, ActiveSteps, LockedSteps, UnlockedSteps
<1>4. task[w][o].step \in ActiveSteps => log[o] \in Jobs
  BY <1>1 DEF TypeInv, InLog
<1> USE <1>1, <1>2, <1>3 DEF ActiveSteps, LockedSteps, UnlockedSteps
<1>a. CASE SendDlq(w, o)
  <2>1. \E t \in Task : task' = [task EXCEPT ![w][o] = t] /\ t.step = "acked"
    BY <1>a, AckTask DEF SendDlq
  <2> QED
    BY <1>a, <2>1 DEF SendDlq, Ack, Effect
<1>b. CASE ClaimJob(w, o)
  <2> DEFINE t == [NoTask EXCEPT !.step = "claimed", !.loaded = Claim(row[log[o]])]
  <2>1. log[o] \in Jobs /\ row[log[o]] \in Job
    BY <1>b DEF ClaimJob
  <2>2. Claim(row[log[o]]) \in Job
    BY <2>1, ClaimType
  <2>3. t \in Task /\ t.step = "claimed"
    BY <2>2, BlankTask DEF Task
  <2>4. task' = [task EXCEPT ![w][o] = t] /\ row' = [row EXCEPT ![log[o]] = Claim(@)]
    BY <1>b DEF ClaimJob
  <2>5. row' \in [Jobs -> Job]
    BY <2>1, <2>2, <2>4
  <2> HIDE DEF t
  <2> QED
    BY <1>b, <2>1, <2>3, <2>4, <2>5 DEF ClaimJob, Effect
<1>c. CASE SkipMessage(w, o)
  <2>1. \E t \in Task : task' = [task EXCEPT ![w][o] = t] /\ t.step = "acked"
    BY <1>c, AckTask DEF SkipMessage
  <2> QED
    BY <1>c, <2>1 DEF SkipMessage, Ack, Effect
<1>d. CASE GiveUp(w, o)
  <2>1. log[o] \in Jobs /\ row[log[o]] \in Job
    BY <1>d, <1>4 DEF GiveUp
  <2>2. \E t \in Task : task' = [task EXCEPT ![w][o] = t] /\ t.step = "givingup"
    BY <1>d, <2>1, GiveUpTask
  <2> QED
    BY <1>d, <2>1, <2>2 DEF GiveUp, Effect
<1>k. CASE SaveGivenUp(w, o)
  <2>1. \E t \in Task : task' = [task EXCEPT ![w][o] = t] /\ t.step = "acked"
    BY <1>k, AckTask DEF SaveGivenUp
  <2>2. task[w][o].loaded \in Job /\ task[w][o].record \in Job /\ log[o] \in Jobs
    BY <1>k, <1>4 DEF Task, SaveGivenUp
  <2>3. FailureOf(task[w][o].loaded) \in Failures
    BY DEF FailureOf, Failures
  <2>4. Failed(task[w][o].loaded, FailureOf(task[w][o].loaded)) \in Job
    BY <2>2, <2>3, FailedType
  <2>5. row' \in [Jobs -> Job]
    BY <1>k, <2>2, <2>4, SaveType DEF SaveGivenUp
  <2> QED
    BY <1>k, <2>1, <2>2, <2>5 DEF SaveGivenUp, Ack, Effect
<1>e. CASE StartGenerating(w, o)
  <2>1. \E t \in Task : task' = [task EXCEPT ![w][o] = t] /\ t.step = "generate"
    BY <1>e, GotoTask DEF StartGenerating
  <2> QED
    BY <1>e, <1>4, <2>1 DEF StartGenerating, Effect
<1>f. CASE CallProviders(w, o)
  <2>1. PICK targets \in Targets(task[w][o].loaded) : \E u \in Uploads(targets) :
           /\ media' = [media EXCEPT ![log[o]] = @ \cup u.stored]
           /\ \E step \in StepAfter(targets, u.reported) :
                  task' = [task EXCEPT ![w][o].step = step, ![w][o].made = u.reported]
    BY <1>f DEF CallProviders
  <2>2. PICK u \in Uploads(targets) :
           /\ media' = [media EXCEPT ![log[o]] = @ \cup u.stored]
           /\ \E step \in StepAfter(targets, u.reported) :
                  task' = [task EXCEPT ![w][o].step = step, ![w][o].made = u.reported]
    BY <2>1
  <2>3. PICK step \in StepAfter(targets, u.reported) :
                  task' = [task EXCEPT ![w][o].step = step, ![w][o].made = u.reported]
    BY <2>2
  <2>4. task[w][o].loaded \in Job
    BY DEF Task
  <2>5. targets \in SUBSET Asset
    BY <2>4, TargetsType
  <2>6. u.stored \in SUBSET Asset /\ u.reported \in SUBSET Asset
    BY <2>5 DEF Uploads
  <2>7. step \in {"ready", "cleanup", "failing"}
    BY DEF StepAfter
  <2>8. media' \in [Jobs -> SUBSET Asset]
    BY <2>2, <2>6
  <2>9. task[w][o].step = "generate" /\ log[o] \in Jobs
    BY <1>4, <1>f DEF CallProviders
  <2>10. rounds' \in [Jobs -> Nat]
    <3>1. rounds' = [rounds EXCEPT ![log[o]] = @ + 1]
      BY <1>f DEF CallProviders, PayRound
    <3>2. rounds[log[o]] + 1 \in Nat
      BY <2>9
    <3> QED
      BY <3>1, <3>2
  <2>11. \E t \in Task : task' = [task EXCEPT ![w][o] = t] /\ t.step = step
    <3> DEFINE t == [task[w][o] EXCEPT !.step = step, !.made = u.reported]
    <3>1. t \in Task /\ t.step = step
      <4>1. ASSUME NEW old \in Task, NEW made \in SUBSET Asset
            PROVE  /\ [old EXCEPT !.step = step, !.made = made] \in Task
                   /\ [old EXCEPT !.step = step, !.made = made].step = step
        BY <2>7 DEF Task
      <4> QED
        BY <2>6, <4>1
    <3>2. task' = [task EXCEPT ![w][o] = t]
      BY <2>3 DEF Tasks
    <3> HIDE DEF t
    <3> QED
      BY <3>1, <3>2
  <2> QED
    BY <1>f, <2>7, <2>8, <2>9, <2>10, <2>11 DEF CallProviders, Effect
<1>g. CASE SaveCompleted(w, o)
  <2>1. \E t \in Task : task' = [task EXCEPT ![w][o] = t] /\ t.step = "acked"
    BY <1>g, AckTask DEF SaveCompleted
  <2>2. task[w][o].loaded \in Job /\ task[w][o].made \in SUBSET Asset
    BY DEF Task
  <2>3. Completed(task[w][o].loaded, task[w][o].made) \in Job
    BY <2>2, CompletedType
  <2>4. row' \in [Jobs -> Job]
    BY <1>g, <1>4, <2>3, SaveType DEF SaveCompleted, Save
  <2> QED
    BY <1>g, <2>1, <2>4 DEF SaveCompleted, Ack, Effect
<1>h. ASSUME SaveCleanedUp(w, o) \/ SaveFailed(w, o) PROVE Effect(w, o)
  <2>1. \E t \in Task : task' = [task EXCEPT ![w][o] = t] /\ t.step = "acked"
    BY <1>h, AckTask DEF SaveCleanedUp, SaveFailed
  <2>2. log[o] \in Jobs /\ task[w][o].step \in {"cleanup", "failing"}
    BY <1>h, <1>4 DEF SaveCleanedUp, SaveFailed
  <2>3. PICK code \in Failures : Save(log[o], Failed(Generating(task[w][o].loaded), code))
    BY <1>h DEF SaveCleanedUp, SaveFailed, Failures
  <2>4. task[w][o].loaded \in Job
    BY DEF Task
  <2>5. Failed(Generating(task[w][o].loaded), code) \in Job
    BY <2>4, GeneratingType, FailedType
  <2>6. row' \in [Jobs -> Job]
    BY <2>2, <2>3, <2>5, SaveType DEF Save
  <2>7. media' \in [Jobs -> SUBSET Asset]
    BY <1>h DEF SaveCleanedUp, SaveFailed
  <2> QED
    BY <1>h, <2>1, <2>2, <2>6, <2>7 DEF SaveCleanedUp, SaveFailed, Ack, Effect
<1> QED
  BY <1>a, <1>b, <1>c, <1>d, <1>e, <1>f, <1>g, <1>h, <1>k DEF TaskStep
-----------------------------------------------------------------------------
(* TypeInv is inductive.                                                   *)

\* A message sent to the partition leaves the others where they are.
LEMMA LogGrows ==
  ASSUME TypeInv, NEW message \in Jobs \cup {Poison}, Send(message), Len(log) < MaxLog
  PROVE  /\ log' \in Seq(Jobs \cup {Poison})
         /\ Len(log') = Len(log) + 1 /\ Len(log') <= MaxLog
         /\ DOMAIN log \subseteq DOMAIN log'
         /\ \A o \in DOMAIN log : log'[o] = log[o]
<1>1. log \in Seq(Jobs \cup {Poison}) /\ MaxLog \in Nat /\ Len(log) \in Nat
  BY LogOffsets, WorkerAssumption DEF TypeInv, TypeOK
<1>2. log' = Append(log, message)
  BY DEF Send
<1> QED
  BY <1>1, <1>2, AppendProperties

\* Where there is room, there is room for one message.
LEMMA RoomForOne ==
  ASSUME TypeInv, Room
  PROVE  Len(log) < MaxLog
<1>1. owed \subseteq Jobs /\ Len(log) \in Nat /\ MaxLog \in Nat
  BY LogOffsets, WorkerAssumption DEF TypeInv, TypeOK
<1>2. Cardinality(owed) \in Nat
  BY <1>1, WorkerAssumption, FS_Subset, FS_CardinalityType
<1> QED
  BY <1>1, <1>2 DEF Room

\* The service starts well typed.
LEMMA TypeInit ==
  ASSUME Init
  PROVE  TypeInv
<1>1. Blank \in Job /\ NewJob(Sources, Modes) \in Job
  BY DEF Blank, NewJob, Job, Statuses, Stages, Profiles
<1>2. MaxLog \in Nat
  BY WorkerAssumption
<1>3. NoRequest \in RequestType
  BY <1>1 DEF NoRequest, RequestType
<1> QED
  BY <1>1, <1>2, <1>3, BlankTask, EmptySeq DEF Init, TypeInv, TypeOK, InLog, Task, RequestType, ActiveSteps, LockedSteps, UnlockedSteps

\* Publishing: only the partition grows.
LEMMA SendKeepsType ==
  ASSUME TypeInv, NEW message \in Jobs \cup {Poison}, Send(message), Len(log) < MaxLog,
         owed' \subseteq Jobs,
         UNCHANGED <<row, committed, position, owner, task, request, images, rounds, dlq, handled, faults>>
  PROVE  TypeInv'
<1>1. /\ log' \in Seq(Jobs \cup {Poison})
      /\ Len(log') = Len(log) + 1 /\ Len(log') <= MaxLog
      /\ DOMAIN log \subseteq DOMAIN log'
      /\ \A o \in DOMAIN log : log'[o] = log[o]
  BY LogGrows
<1>2. Len(log) \in Nat
  BY LogOffsets DEF TypeInv
<1>3. TypeOK'
  BY <1>1, <1>2 DEF TypeInv, TypeOK, faults
<1>4. InLog'
  BY <1>1 DEF TypeInv, InLog, ActiveSteps, LockedSteps, UnlockedSteps
<1> QED
  BY <1>3, <1>4 DEF TypeInv

\* A step of the relay, here or in Pipeline: it changes what the outbox owes and
\* may append a message.
Relays ==
    /\ owed' \subseteq Jobs
    /\ UNCHANGED <<row, committed, position, owner, task, request, images, rounds, dlq, handled, faults>>
    /\ \/ log' = log
       \/ Len(log) < MaxLog /\ \E message \in Jobs \cup {Poison} : Send(message)

\* What follows is about the steps of ImageWorker and those of the relay.
AnyStep == [Next]_vars \/ Relays

\* Such a step keeps the types, and the messages where they are.
LEMMA RelaysKeepType ==
  ASSUME TypeInv, Relays
  PROVE  TypeInv' /\ DOMAIN log \subseteq DOMAIN log' /\ \A o \in DOMAIN log : log'[o] = log[o]
<1>a. CASE log' = log
  BY <1>a DEF Relays, TypeInv, TypeOK, InLog, faults
<1>b. CASE Len(log) < MaxLog /\ \E message \in Jobs \cup {Poison} : Send(message)
  BY <1>b, SendKeepsType, LogGrows DEF Relays
<1> QED
  BY <1>a, <1>b DEF Relays

\* The steps with which ImageWorker feeds the partition.
LEMMA PublishRelays ==
  ASSUME TypeInv, (\E j \in Jobs : Publish(j) \/ Republish(j)) \/ PublishPoison
  PROVE  Relays
<1>1. owed \subseteq Jobs
  BY DEF TypeInv, TypeOK
<1>2. Len(log) < MaxLog
  BY RoomForOne DEF Publish, Republish, PublishPoison
<1> QED
  BY <1>1, <1>2 DEF Publish, Republish, PublishPoison, Relays

\* A step of the pipeline keeps the types.
LEMMA EffectKeepsType ==
  ASSUME TypeInv, NEW w \in Workers, NEW o \in DOMAIN log, Effect(w, o)
  PROVE  TypeInv'
<1>1. task \in Tasks /\ o \in Offsets
  BY LogOffsets DEF TypeInv, TypeOK, Tasks, Task
<1>2. PICK t \in Task :
        /\ task' = [task EXCEPT ![w][o] = t]
        /\ t.step \in ActiveSteps => log[o] \in Jobs
  BY DEF Effect
<1>3. /\ task' \in Tasks
      /\ task'[w][o] = t
      /\ \A v \in Workers, p \in Offsets : v # w \/ p # o => task'[v][p] = task[v][p]
  BY <1>1, <1>2 DEF Tasks
<1>4. TypeOK'
  BY <1>1, <1>3 DEF TypeInv, TypeOK, Effect, Tasks, Task, faults, partition
<1>5. log' = log
  BY DEF Effect, partition
<1>6. InLog'
  BY <1>2, <1>3, <1>5 DEF TypeInv, InLog, ActiveSteps, LockedSteps, UnlockedSteps, Effect
<1> QED
  BY <1>4, <1>6 DEF TypeInv

\* A step that at most blanks, acknowledges or fails tasks, or has messages of
\* the log begun, and keeps the rest typed.
LEMMA TasksKeepType ==
  ASSUME TypeInv, task' \in Tasks, log' = log, handled' = handled, TypeOK',
         \A w \in Workers, o \in Offsets :
            \/ task'[w][o] = task[w][o]
            \/ task'[w][o].step = "none"
            \/ task'[w][o].step \in {"begin", "error"} /\ o \in DOMAIN log
  PROVE  TypeInv'
  BY DEF TypeInv, InLog, ActiveSteps, LockedSteps, UnlockedSteps

\* The loop of the consumer keeps the types.
LEMMA ConsumerKeepsType ==
  ASSUME TypeInv, NEW w \in Workers, ConsumerStep(w)
  PROVE  TypeInv'
<1>1. /\ task \in Tasks /\ DOMAIN log = 1..Len(log) /\ Len(log) \in Nat
      /\ 1..Len(log) \subseteq Offsets /\ position \in 0..Len(log)
  BY LogOffsets DEF TypeInv, TypeOK, Tasks, Task
<1>a. CASE Poll(w)
  <2>1. PICK last \in position + 1 .. Len(log) :
           /\ task' = [task EXCEPT ![w] = [o \in Offsets |->
                  IF o \in position + 1 .. last THEN [NoTask EXCEPT !.step = "begin"]
                  ELSE NoTask]]
           /\ position' = last
    BY <1>a DEF Poll
  <2> DEFINE t == [NoTask EXCEPT !.step = "begin"]
  <2>2. t \in Task /\ t.step = "begin"
    BY EndedTask DEF Steps
  <2> HIDE DEF t
  <2>3. task' = [task EXCEPT ![w] = [o \in Offsets |->
                     IF o \in position + 1 .. last THEN t ELSE NoTask]]
    BY <2>1 DEF t
  <2>4. task' \in Tasks
    BY <1>1, <2>2, <2>3, BlankTask DEF Tasks
  <2>5. \A v \in Workers, o \in Offsets :
            \/ task'[v][o] = task[v][o]
            \/ task'[v][o].step = "none"
            \/ task'[v][o].step = "begin" /\ o \in position + 1 .. last
    BY <1>1, <2>2, <2>3, BlankTask DEF Tasks
  <2>6. last \in 1..Len(log)
    BY <1>1
  <2>7. /\ position' \in 0..Len(log)
        /\ UNCHANGED <<row, owed, log, committed, owner, request, images, rounds, dlq, handled, faults>>
    BY <1>a, <2>1, <2>6 DEF Poll
  <2>8. TypeOK' /\ log' = log /\ handled' = handled
    BY <2>4, <2>7 DEF TypeInv, TypeOK, Tasks, Task, faults
  <2> QED
    BY <1>1, <2>4, <2>5, <2>6, <2>8, TasksKeepType
<1>b. CASE CommitOffset(w)
  <2>1. PICK o \in Offsets :
           /\ task[w][o].step = "acked"
           /\ committed' = o
           /\ task' = [task EXCEPT ![w][o] = NoTask]
    BY <1>b DEF CommitOffset
  <2>2. o \in 1..Len(log)
    BY <1>1, <2>1 DEF TypeInv, InLog
  <2>3. /\ task' \in Tasks
        /\ task'[w][o] = NoTask
        /\ \A v \in Workers, p \in Offsets : v # w \/ p # o => task'[v][p] = task[v][p]
    BY <1>1, <2>1, BlankTask, TaskChange
  <2>4. TypeOK' /\ log' = log /\ handled' = handled
    BY <1>b, <2>1, <2>2, <2>3 DEF CommitOffset, TypeInv, TypeOK, Tasks, Task, faults
  <2> QED
    BY <2>3, <2>4, BlankTask, TasksKeepType
<1>c. ASSUME StopAtError(w) \/ CommitRejected(w) PROVE TypeInv'
  <2>1. Drop(w)
    BY <1>c DEF StopAtError, CommitRejected
  <2>2. /\ task' \in Tasks
        /\ \A p \in Offsets : task'[w][p].step = "none"
        /\ \A v \in Workers, p \in Offsets : v # w => task'[v][p] = task[v][p]
    BY <1>1, <2>1, TaskDrop
  <2>3. TypeOK' /\ log' = log /\ handled' = handled
    BY <1>c, <2>2 DEF StopAtError, CommitRejected, TypeInv, TypeOK, Tasks, Task, faults, partition
  <2> QED
    BY <2>2, <2>3, TasksKeepType
<1> QED
  BY <1>a, <1>b, <1>c DEF ConsumerStep

\* The faults keep the types.
LEMMA FaultsKeepType ==
  ASSUME TypeInv, NEW w \in Workers,
         Rebalance(w) \/ Crash(w) \/ \E o \in DOMAIN log : TaskError(w, o)
  PROVE  TypeInv'
<1>1. /\ task \in Tasks /\ DOMAIN log \subseteq Offsets
      /\ committed \in 0..Len(log) /\ {rebalances, errors, crashes} \subseteq Nat
  BY LogOffsets DEF TypeInv, TypeOK, Tasks, Task
<1>a. CASE Rebalance(w)
  <2>1. TypeOK' /\ log' = log /\ handled' = handled /\ task' = task
    BY <1>a, <1>1 DEF Rebalance, TypeInv, TypeOK
  <2> QED
    BY <1>1, <2>1, TasksKeepType
<1>b. CASE Crash(w)
  <2>1. /\ task' \in Tasks
        /\ \A p \in Offsets : task'[w][p].step = "none"
        /\ \A v \in Workers, p \in Offsets : v # w => task'[v][p] = task[v][p]
    BY <1>1, <1>b, TaskDrop DEF Crash
  <2>2. TypeOK' /\ log' = log /\ handled' = handled
    BY <1>b, <1>1, <2>1 DEF Crash, TypeInv, TypeOK, Tasks, Task
  <2> QED
    BY <2>1, <2>2, TasksKeepType
<1>c. ASSUME NEW o \in DOMAIN log, TaskError(w, o) PROVE TypeInv'
  <2> DEFINE t == [NoTask EXCEPT !.step = "error"]
  <2>1. t \in Task /\ t.step = "error"
    BY EndedTask DEF Steps
  <2>2. task' = [task EXCEPT ![w][o] = t]
    BY <1>c DEF TaskError
  <2> HIDE DEF t
  <2>3. /\ task' \in Tasks
        /\ task'[w][o] = t
        /\ \A v \in Workers, p \in Offsets : v # w \/ p # o => task'[v][p] = task[v][p]
    BY <1>1, <2>1, <2>2 DEF Tasks
  <2>4. /\ UNCHANGED <<row, owed, partition, request, images, rounds, dlq, handled, rebalances, crashes>>
        /\ errors' = errors + 1
    BY <1>c DEF TaskError
  <2>5. TypeOK' /\ log' = log /\ handled' = handled
    BY <1>1, <2>3, <2>4 DEF TypeInv, TypeOK, Tasks, Task, partition
  <2> QED
    BY <2>1, <2>3, <2>5, TasksKeepType
<1> QED
  BY <1>a, <1>b, <1>c

\* What replacing one request does.
LEMMA RequestChange ==
  ASSUME request \in RequestTypes, NEW j \in Jobs, NEW q \in Requests, NEW r \in RequestType,
         request' = [request EXCEPT ![j][q] = r]
  PROVE  /\ request' \in RequestTypes
         /\ request'[j][q] = r
         /\ \A k \in Jobs, p \in Requests : k # j \/ p # q => request'[k][p] = request[k][p]
  BY DEF RequestTypes

\* The step of a request replaces it by a request.
Asked(j, q, r) == r \in RequestType /\ request' = [request EXCEPT ![j][q] = r]

\* It ends, ...
LEMMA CloseAsks ==
  ASSUME NEW j \in Jobs, NEW q \in Requests, Close(j, q)
  PROVE  NoRequest.step = "idle" /\ Asked(j, q, NoRequest)
<1>1. Blank \in Job
  BY DEF Blank, NewJob, Job, Statuses, Stages, Profiles
<1> QED
  BY <1>1 DEF Close, Asked, NoRequest, RequestType

\* ... decides what to save, ...
LEMMA DecideAsks ==
  ASSUME NEW j \in Jobs, NEW q \in Requests, NEW result \in Job, Decide(j, q, result)
  PROVE  \E r : Asked(j, q, r) /\ r.step = "decided" /\ r.result = result
<1> DEFINE r == [NoRequest EXCEPT !.step = "decided", !.result = result]
<1>1. Blank \in Job
  BY DEF Blank, NewJob, Job, Statuses, Stages, Profiles
<1>2. r \in RequestType /\ r.step = "decided" /\ r.result = result
  BY <1>1 DEF NoRequest, RequestType
<1>3. request' = [request EXCEPT ![j][q] = r]
  BY DEF Decide
<1> HIDE DEF r
<1> QED
  BY <1>2, <1>3 DEF Asked

\* ... goes on, ...
LEMMA PassAsks ==
  ASSUME request \in RequestTypes, NEW j \in Jobs, NEW q \in Requests, NEW step, Pass(j, q, step),
         step \in {"flushed", "cleaned", "recleanup"}
  PROVE  \E r : /\ Asked(j, q, r) /\ r.step = step
                /\ r.result = request[j][q].result /\ r.record = request[j][q].record
<1> DEFINE r == [request[j][q] EXCEPT !.step = step]
<1>1. ASSUME NEW old \in RequestType
      PROVE  LET new == [old EXCEPT !.step = step] IN
             /\ new \in RequestType /\ new.step = step
             /\ new.result = old.result /\ new.record = old.record
  BY DEF RequestType
<1>2. request[j][q] \in RequestType /\ request' = [request EXCEPT ![j][q] = r]
  BY DEF Pass, RequestTypes
<1> QED
  BY <1>1, <1>2 DEF Asked

\* ... or reads the row it is to overwrite.
LEMMA LoadAsks ==
  ASSUME request \in RequestTypes, row \in [Jobs -> Job], NEW j \in Jobs, NEW q \in Requests,
         LoadRecord(j, q)
  PROVE  \E r : /\ Asked(j, q, r) /\ r.step = "loaded"
                /\ r.result = request[j][q].result /\ r.record = row[j]
<1> DEFINE r == [request[j][q] EXCEPT !.step = "loaded", !.record = row[j]]
<1>1. ASSUME NEW old \in RequestType, NEW record \in Job
      PROVE  LET new == [old EXCEPT !.step = "loaded", !.record = record] IN
             /\ new \in RequestType /\ new.step = "loaded"
             /\ new.result = old.result /\ new.record = record
  BY DEF RequestType
<1>2. request[j][q] \in RequestType /\ row[j] \in Job
  BY DEF RequestTypes
<1>3. /\ r \in RequestType /\ r.step = "loaded"
      /\ r.result = request[j][q].result /\ r.record = row[j]
  BY <1>1, <1>2
<1>4. request' = [request EXCEPT ![j][q] = r]
  BY DEF LoadRecord, RequestTypes
<1> HIDE DEF r
<1> QED
  BY <1>3, <1>4 DEF Asked

\* What a request makes of the job it read is a job.
LEMMA ResultType ==
  ASSUME TypeInv, NEW j \in Jobs
  PROVE  /\ \A ids : RequestFinalization(row[j], ids) \in Job
         /\ ReleaseLease(Transition(row[j], "REJECTED")) \in Job
<1>1. row[j] \in Job
  BY DEF TypeInv, TypeOK
<1> QED
  BY <1>1, FinalizationType, VerdictType DEF Statuses

\* So every step of a request keeps the requests well typed.
LEMMA RequestsKeepType ==
  ASSUME TypeInv, NEW j \in Jobs, NEW q \in Requests, SaveFinalizing(j, q) \/ SellerStep(j, q)
  PROVE  \E r : Asked(j, q, r)
<1>1. request \in RequestTypes /\ row \in [Jobs -> Job]
  BY DEF TypeInv, TypeOK, RequestTypes, RequestType
<1>a. CASE ReadForApply(j, q)
  <2>1. PICK ids : Decide(j, q, RequestFinalization(row[j], ids))
    BY <1>a DEF ReadForApply
  <2> QED
    BY <2>1, ResultType, DecideAsks
<1>b. CASE ReadForReject(j, q)
  BY <1>1, <1>b, ResultType, DecideAsks, PassAsks DEF ReadForReject
<1>c. CASE LoadRecord(j, q)
  BY <1>1, <1>c, LoadAsks
<1>d. CASE Flush(j, q) \/ CleanUp(j, q)
  BY <1>1, <1>d, PassAsks DEF Flush, CleanUp
<1>e. CASE SaveFinalizing(j, q) \/ SaveRejected(j, q) \/ Recleanup(j, q) \/ EndRequest(j, q)
  BY <1>e, CloseAsks DEF SaveFinalizing, SaveRejected, Commit, Recleanup, EndRequest
<1> QED
  BY <1>a, <1>b, <1>c, <1>d, <1>e DEF SellerStep

\* A request touches neither partition nor tasks.
LEMMA SellerFrame ==
  ASSUME NEW j \in Jobs, NEW q \in Requests, SaveFinalizing(j, q) \/ SellerStep(j, q)
  PROVE  UNCHANGED <<partition, task, rounds, dlq, handled, faults>>
  BY DEF SaveFinalizing, SellerStep, ReadForApply, ReadForReject, LoadRecord, Flush, CleanUp,
         SaveRejected, Recleanup, EndRequest

\* The seller keeps the types.
LEMMA SellerKeepsType ==
  ASSUME TypeInv, NEW j \in Jobs, NEW q \in Requests, SaveFinalizing(j, q) \/ SellerStep(j, q)
  PROVE  TypeInv'
<1>1. /\ row \in [Jobs -> Job] /\ media \in [Jobs -> SUBSET Asset] /\ task \in Tasks
      /\ request \in RequestTypes /\ wiped \subseteq Jobs /\ owed \subseteq Jobs
  BY DEF TypeInv, TypeOK, Tasks, Task, RequestTypes, RequestType
<1>2. request' \in RequestTypes
  BY <1>1, RequestsKeepType, RequestChange DEF Asked
<1>3. row' \in [Jobs -> Job]
  <2>1. row' = row \/ Commit(j, q)
    BY DEF SaveFinalizing, SellerStep, ReadForApply, ReadForReject, LoadRecord, Flush, CleanUp,
           SaveRejected, Recleanup, EndRequest
  <2>2. request[j][q].record \in Job /\ request[j][q].result \in Job
    BY <1>1 DEF RequestTypes, RequestType
  <2> QED
    BY <1>1, <2>1, <2>2, SaveType DEF Commit
<1>4. media' \in [Jobs -> SUBSET Asset] /\ wiped' \subseteq Jobs /\ owed' \subseteq Jobs
  BY <1>1 DEF SaveFinalizing, SellerStep, ReadForApply, ReadForReject, LoadRecord, Flush, CleanUp,
              SaveRejected, Recleanup, EndRequest, Commit
<1>5. UNCHANGED <<partition, task, rounds, dlq, handled, faults>>
  BY SellerFrame
<1>6. TypeOK' /\ log' = log /\ handled' = handled
  BY <1>2, <1>3, <1>4, <1>5 DEF TypeInv, TypeOK, partition, faults, RequestTypes, RequestType
<1> QED
  BY <1>1, <1>5, <1>6, TasksKeepType

\* Time moves nothing but the leases.
LEMMA TickEffect ==
  ASSUME TypeInv, Tick
  PROVE  /\ TypeInv'
         /\ \A j \in Jobs : /\ row'[j].status = row[j].status
                            /\ row'[j].attempt = row[j].attempt
                            /\ row'[j].lease = IF row[j].lease > 0 THEN row[j].lease - 1 ELSE 0
<1>1. row \in [Jobs -> Job] /\ task \in Tasks
  BY DEF TypeInv, TypeOK, Tasks, Task
<1>2. ASSUME NEW job \in Job
      PROVE  LET aged == [job EXCEPT !.lease = IF @ > 0 THEN @ - 1 ELSE 0] IN
             /\ aged \in Job /\ aged.status = job.status /\ aged.attempt = job.attempt
             /\ aged.lease = IF job.lease > 0 THEN job.lease - 1 ELSE 0
  BY DEF Job
<1>3. row' = [j \in Jobs |-> [row[j] EXCEPT !.lease = IF @ > 0 THEN @ - 1 ELSE 0]]
  BY DEF Tick
<1>4. /\ row' \in [Jobs -> Job]
      /\ \A j \in Jobs : /\ row'[j].status = row[j].status
                         /\ row'[j].attempt = row[j].attempt
                         /\ row'[j].lease = IF row[j].lease > 0 THEN row[j].lease - 1 ELSE 0
  BY <1>1, <1>2, <1>3
<1>5. UNCHANGED <<owed, partition, task, request, images, rounds, dlq, handled, faults>>
  BY DEF Tick
<1>6. TypeOK' /\ log' = log /\ handled' = handled
  BY <1>4, <1>5 DEF TypeInv, TypeOK, partition, faults
<1> QED
  BY <1>1, <1>4, <1>5, <1>6, TasksKeepType

\* TypeInv is preserved by every step.
LEMMA TypeStep ==
  ASSUME TypeInv, AnyStep
  PROVE  TypeInv'
<1>a. CASE Relays
  BY <1>a, RelaysKeepType
<1>b. ASSUME (\E j \in Jobs : Publish(j) \/ Republish(j)) \/ PublishPoison PROVE TypeInv'
  BY <1>b, PublishRelays, RelaysKeepType
<1>d. ASSUME NEW j \in Jobs, NEW q \in Requests, SaveFinalizing(j, q) \/ SellerStep(j, q)
      PROVE  TypeInv'
  BY <1>d, SellerKeepsType
<1>e. ASSUME NEW w \in Workers, ConsumerStep(w) PROVE TypeInv'
  BY <1>e, ConsumerKeepsType
<1>f. ASSUME NEW w \in Workers, NEW o \in DOMAIN log, TaskStep(w, o) PROVE TypeInv'
  BY <1>f, StepEffect, EffectKeepsType
<1>g. ASSUME NEW w \in Workers,
             Rebalance(w) \/ Crash(w) \/ \E o \in DOMAIN log : TaskError(w, o)
      PROVE  TypeInv'
  BY <1>g, FaultsKeepType
<1>h. CASE Tick
  BY <1>h, TickEffect
<1>i. CASE UNCHANGED vars
  BY <1>i DEF vars, partition, faults, TypeInv, TypeOK, InLog
<1> QED
  BY <1>a, <1>b, <1>d, <1>e, <1>f, <1>g, <1>h, <1>i DEF AnyStep, Next

\* Type correctness of the worker processes, the log and the job table.
THEOREM TypeCorrect == Spec => []TypeOK
<1>1. Init => TypeInv
  BY TypeInit
<1>2. TypeInv /\ [Next]_vars => TypeInv'
  BY TypeStep DEF AnyStep
<1>3. TypeInv => TypeOK
  BY DEF TypeInv
<1> QED
  BY <1>1, <1>2, <1>3, PTL DEF Spec
-----------------------------------------------------------------------------
(* No offset past an unhandled message.                                    *)

Busy(w, o) == task[w][o].step # "none"
Done(o) == o \in handled

\* What keeps commits honest while no task has raised an error: what a worker
\* acknowledges is handled, what lies behind a task it still has is handled or
\* another of its tasks, and so is everything its owner has fetched.
HandledInv ==
    errors = 0 =>
        /\ \A w \in Workers, o \in Offsets : task[w][o].step # "error"
        /\ \A w \in Workers, o \in Offsets : task[w][o].step = "acked" => Done(o)
        /\ \A w \in Workers, o \in Offsets : Busy(w, o) =>
               \A p \in Offsets : p < o => Done(p) \/ Busy(w, p)
        /\ \A o \in 1..position : Done(o) \/ Busy(owner, o)
        /\ \A o \in 1..committed : Done(o)

\* Before the first message nothing is committed.
LEMMA HandledInit ==
  ASSUME Init
  PROVE  HandledInv
  BY BlankTask DEF Init, HandledInv, Busy, Done

\* A step that touches neither tasks nor offsets.
LEMMA HandledFrame ==
  ASSUME HandledInv, UNCHANGED <<committed, position, owner, task, handled, errors>>
  PROVE  HandledInv'
  BY DEF HandledInv, Busy, Done

\* A step of the pipeline acknowledges only what is handled.
LEMMA HandledEffect ==
  ASSUME TypeInv, HandledInv, NEW w \in Workers, NEW o \in DOMAIN log, Effect(w, o)
  PROVE  HandledInv'
<1>1. task \in Tasks /\ o \in Offsets
  BY LogOffsets DEF TypeInv, TypeOK, Tasks, Task
<1>2. PICK t \in Task :
        /\ task' = [task EXCEPT ![w][o] = t]
        /\ t.step \in ActiveSteps \cup {"acked"}
        /\ t.step = "acked" => o \in handled'
  BY DEF Effect
<1>3. /\ task'[w][o] = t
      /\ \A v \in Workers, p \in Offsets : v # w \/ p # o => task'[v][p] = task[v][p]
  BY <1>1, <1>2 DEF Tasks
<1>4. t.step \notin {"none", "error"} /\ Busy(w, o)
  BY <1>2 DEF ActiveSteps, LockedSteps, UnlockedSteps, Effect, Busy
<1>5. handled \subseteq handled' /\ UNCHANGED <<committed, position, owner, errors>>
  BY DEF Effect, partition, faults
<1>6. owner \in Workers /\ 1..position \subseteq Offsets
  BY LogOffsets DEF TypeInv, TypeOK
<1>7. \A v \in Workers, p \in Offsets : Busy(v, p)' <=> Busy(v, p)
  BY <1>3, <1>4 DEF Busy
<1>8. SUFFICES ASSUME errors = 0
               PROVE  HandledInv'
  BY <1>5 DEF HandledInv
<1>9. \A v \in Workers, p \in Offsets :
         task'[v][p].step # "error" /\ (task'[v][p].step = "acked" => Done(p)')
  BY <1>2, <1>3, <1>4, <1>5, <1>8 DEF HandledInv, Done
<1>10. \A p \in 1..position : Done(p)' \/ Busy(owner, p)'
  BY <1>5, <1>6, <1>7, <1>8 DEF HandledInv, Done
<1> QED
  BY <1>5, <1>7, <1>8, <1>9, <1>10 DEF HandledInv, Done

\* Fetching: everything fetched before is handled, and the new tasks are the
\* messages right behind it.
LEMMA HandledPoll ==
  ASSUME TypeInv, HandledInv, NEW w \in Workers, Poll(w)
  PROVE  HandledInv'
<1>1. /\ task \in Tasks /\ position \in Nat /\ 1..position \subseteq Offsets
      /\ 1..Len(log) \subseteq Offsets /\ Len(log) \in Nat
  BY LogOffsets DEF TypeInv, TypeOK, Tasks, Task
<1>2. PICK last \in position + 1 .. Len(log) :
         /\ task' = [task EXCEPT ![w] = [o \in Offsets |->
                IF o \in position + 1 .. last THEN [NoTask EXCEPT !.step = "begin"]
                ELSE NoTask]]
         /\ position' = last
  BY DEF Poll
<1> DEFINE t == [NoTask EXCEPT !.step = "begin"]
<1>3. t.step = "begin"
  BY EndedTask DEF Steps
<1> HIDE DEF t
<1>4. task' = [task EXCEPT ![w] = [o \in Offsets |->
                   IF o \in position + 1 .. last THEN t ELSE NoTask]]
  BY <1>2 DEF t
<1>5. \A v \in Workers, o \in Offsets :
         /\ v # w => task'[v][o] = task[v][o]
         /\ v = w /\ o \in position + 1 .. last => task'[v][o] = t
         /\ v = w /\ o \notin position + 1 .. last => task'[v][o] = NoTask
  BY <1>1, <1>4 DEF Tasks
<1>6. owner = w /\ (\A o \in Offsets : ~Busy(w, o)) /\ UNCHANGED <<committed, owner, handled, errors>>
  BY DEF Poll, Idle, Busy, faults
<1>7. SUFFICES ASSUME errors = 0
               PROVE  HandledInv'
  BY <1>6 DEF HandledInv
<1>8. \A o \in 1..position : Done(o)
  BY <1>1, <1>6, <1>7 DEF HandledInv
<1>9. \A v \in Workers, o \in Offsets :
         task'[v][o].step # "error" /\ (task'[v][o].step = "acked" => Done(o)')
  BY <1>3, <1>5, <1>6, <1>7, BlankTask DEF HandledInv, Done
<1>10. \A o \in Offsets : Busy(w, o)' <=> o \in position + 1 .. last
  BY <1>3, <1>5, BlankTask DEF Busy
<1>11. last \in Nat /\ 1..last \subseteq Offsets
  BY <1>1
<1>12. \A v \in Workers, o \in Offsets : Busy(v, o)' =>
          \A p \in Offsets : p < o => Done(p)' \/ Busy(v, p)'
  <2>1. ASSUME NEW v \in Workers, NEW o \in Offsets, Busy(v, o)',
               NEW p \in Offsets, p < o, v # w
        PROVE  Done(p)' \/ Busy(v, p)'
    BY <1>5, <1>6, <1>7, <2>1 DEF HandledInv, Busy, Done
  <2>2. ASSUME NEW o \in Offsets, Busy(w, o)', NEW p \in Offsets, p < o
        PROVE  Done(p)' \/ Busy(w, p)'
    <3>1. o \in position + 1 .. last /\ p \in 1..last
      BY <1>1, <1>10, <2>2, WorkerAssumption DEF Offsets
    <3>2. p \in 1..position \/ p \in position + 1 .. last
      BY <1>1, <3>1
    <3> QED
      BY <1>6, <1>8, <1>10, <3>2 DEF Done
  <2> QED
    BY <2>1, <2>2
<1>13. \A o \in 1..position' : Done(o)' \/ Busy(owner, o)'
  <2>1. ASSUME NEW o \in 1..last
        PROVE  o \in 1..position \/ o \in position + 1 .. last
    BY <1>1, <1>11
  <2> QED
    BY <1>2, <1>6, <1>8, <1>10, <1>11, <2>1 DEF Done
<1> QED
  BY <1>6, <1>7, <1>9, <1>12, <1>13 DEF HandledInv, Done

\* Committing: the first task is acknowledged, so everything up to it is handled.
LEMMA HandledCommit ==
  ASSUME TypeInv, HandledInv, NEW w \in Workers, CommitOffset(w)
  PROVE  HandledInv'
<1>1. task \in Tasks /\ owner \in Workers /\ 1..position \subseteq Offsets
  BY LogOffsets DEF TypeInv, TypeOK, Tasks, Task
<1>2. PICK o \in Offsets : /\ FirstOf(w, o)
                          /\ task[w][o].step = "acked"
                          /\ committed' = o
                          /\ task' = [task EXCEPT ![w][o] = NoTask]
  BY DEF CommitOffset
<1>3. /\ task'[w][o] = NoTask
      /\ \A v \in Workers, p \in Offsets : v # w \/ p # o => task'[v][p] = task[v][p]
  BY <1>1, <1>2, BlankTask DEF Tasks
<1>4. UNCHANGED <<position, owner, handled, errors>>
  BY DEF CommitOffset, faults
<1>5. SUFFICES ASSUME errors = 0
               PROVE  HandledInv'
  BY <1>4 DEF HandledInv
<1>6. Done(o) /\ Busy(w, o)
  BY <1>2, <1>5 DEF HandledInv, Busy
<1>7. \A p \in Offsets : p < o => Done(p)
  <2>1. ASSUME NEW p \in Offsets, p < o
        PROVE  ~Busy(w, p)
    BY <1>2, <2>1, WorkerAssumption DEF FirstOf, Busy, Offsets
  <2> QED
    BY <1>5, <1>6, <2>1 DEF HandledInv
<1>8. \A p \in 1..committed' : Done(p)'
  <2>1. ASSUME NEW p \in 1..o
        PROVE  p \in Offsets /\ (p < o \/ p = o)
    BY WorkerAssumption DEF Offsets
  <2> QED
    BY <1>2, <1>4, <1>6, <1>7, <2>1 DEF Done
<1>9. \A v \in Workers, p \in Offsets :
         task'[v][p].step # "error" /\ (task'[v][p].step = "acked" => Done(p)')
  BY <1>3, <1>4, <1>5, BlankTask DEF HandledInv, Done
<1>10. \A v \in Workers, p \in Offsets : Busy(v, p)' => Busy(v, p)
  BY <1>3, BlankTask DEF Busy
<1>11. \A v \in Workers, p \in Offsets : Busy(v, p) => Done(p)' \/ Busy(v, p)'
  BY <1>3, <1>4, <1>6 DEF Busy, Done
<1>12. \A v \in Workers, p \in Offsets : Busy(v, p)' =>
          \A q \in Offsets : q < p => Done(q)' \/ Busy(v, q)'
  BY <1>4, <1>5, <1>10, <1>11 DEF HandledInv, Done
<1>13. \A p \in 1..position : Done(p)' \/ Busy(owner, p)'
  BY <1>1, <1>4, <1>5, <1>11 DEF HandledInv, Done
<1> QED
  BY <1>4, <1>5, <1>8, <1>9, <1>12, <1>13 DEF HandledInv, Done

\* A worker that forgets its batch either does not own the partition, or the
\* group goes back to the committed offset.
LEMMA HandledDrop ==
  ASSUME TypeInv, HandledInv, NEW w \in Workers, Drop(w), owner' \in Workers,
         UNCHANGED <<committed, handled, errors>>,
         \/ owner # w /\ UNCHANGED <<owner, position>>
         \/ position' = committed
  PROVE  HandledInv'
<1>1. /\ \A p \in Offsets : task'[w][p].step = "none"
      /\ \A v \in Workers, p \in Offsets : v # w => task'[v][p] = task[v][p]
  BY TaskDrop DEF TypeInv, TypeOK, Tasks, Task
<1>2. SUFFICES ASSUME errors = 0
               PROVE  HandledInv'
  BY DEF HandledInv
<1>3. 1..position \subseteq Offsets /\ owner \in Workers
  BY LogOffsets DEF TypeInv, TypeOK
<1>4. \A v \in Workers, p \in Offsets : v # w => (Busy(v, p)' <=> Busy(v, p))
  BY <1>1 DEF Busy
<1>5. \A p \in Offsets : ~Busy(w, p)'
  BY <1>1 DEF Busy
<1>6. \A p \in 1..position' : Done(p)' \/ Busy(owner, p)'
  <2>a. CASE owner # w /\ UNCHANGED <<owner, position>>
    BY <1>2, <1>3, <1>4, <2>a DEF HandledInv, Done
  <2>b. CASE position' = committed
    BY <1>2, <2>b DEF HandledInv, Done
  <2> QED
    BY <2>a, <2>b
<1>7. \A v \in Workers, p \in Offsets :
         task'[v][p].step # "error" /\ (task'[v][p].step = "acked" => Done(p)')
  BY <1>1, <1>2 DEF HandledInv, Done
<1>8. \A v \in Workers, p \in Offsets : Busy(v, p)' =>
         \A q \in Offsets : q < p => Done(q)' \/ Busy(v, q)'
  BY <1>2, <1>4, <1>5 DEF HandledInv, Done
<1> QED
  BY <1>2, <1>6, <1>7, <1>8 DEF HandledInv, Done

\* HandledInv is preserved by every step.
LEMMA HandledStep ==
  ASSUME TypeInv, HandledInv, AnyStep
  PROVE  HandledInv'
<1>1. errors \in Nat /\ owner \in Workers
  BY DEF TypeInv, TypeOK
<1>a. ASSUME \/ \E j \in Jobs : Publish(j) \/ Republish(j)
             \/ \E j \in Jobs, q \in Requests : SaveFinalizing(j, q) \/ SellerStep(j, q)
             \/ PublishPoison \/ Tick \/ UNCHANGED vars \/ Relays
      PROVE  HandledInv'
  <2>1. UNCHANGED <<committed, position, owner, task, handled, errors>>
    BY <1>a, SellerFrame DEF Publish, Republish, PublishPoison, Tick, vars, partition, faults, Relays
  <2> QED
    BY <2>1, HandledFrame
<1>b. ASSUME NEW w \in Workers, ConsumerStep(w)
      PROVE  HandledInv'
  <2>a. CASE Poll(w)
    BY <2>a, HandledPoll
  <2>b. CASE CommitOffset(w)
    BY <2>b, HandledCommit
  <2>c. CASE StopAtError(w)
    <3>1. errors # 0
      BY <2>c DEF StopAtError, HandledInv
    <3>2. errors' = errors
      BY <2>c DEF StopAtError, faults
    <3> QED
      BY <3>1, <3>2 DEF HandledInv
  <2>d. CASE CommitRejected(w)
    <3>1. Drop(w) /\ owner # w /\ UNCHANGED <<committed, handled, errors, owner, position>>
      BY <2>d DEF CommitRejected, partition, faults
    <3> QED
      BY <1>1, <3>1, HandledDrop
  <2> QED
    BY <1>b, <2>a, <2>b, <2>c, <2>d DEF ConsumerStep
<1>c. ASSUME NEW w \in Workers, Rebalance(w)
      PROVE  HandledInv'
  <2>1. position' = committed /\ UNCHANGED <<committed, task, handled, errors>>
    BY <1>c DEF Rebalance
  <2> QED
    BY <2>1 DEF HandledInv, Busy, Done
<1>d. ASSUME NEW w \in Workers, Crash(w)
      PROVE  HandledInv'
  <2>1. Drop(w) /\ UNCHANGED <<committed, handled, errors>>
    BY <1>d DEF Crash
  <2>2. /\ owner' \in Workers
        /\ \/ owner # w /\ UNCHANGED <<owner, position>>
           \/ position' = committed
    BY <1>1, <1>d DEF Crash
  <2> QED
    BY <2>1, <2>2, HandledDrop
<1>e. ASSUME NEW w \in Workers, NEW o \in DOMAIN log, TaskStep(w, o)
      PROVE  HandledInv'
  BY <1>e, StepEffect, HandledEffect
<1>f. ASSUME NEW w \in Workers, NEW o \in DOMAIN log, TaskError(w, o)
      PROVE  HandledInv'
  <2>1. errors' = errors + 1
    BY <1>f DEF TaskError
  <2> QED
    BY <1>1, <2>1 DEF HandledInv
<1> QED
  BY <1>a, <1>b, <1>c, <1>d, <1>e, <1>f DEF AnyStep, Next

\* As long as no task raised an error, no offset is committed past a message that
\* nobody handled: at-least-once, for any batches, rebalances and crashes.
THEOREM NothingUnhandledCommitted == Spec => []CommittedWasHandled
<1>1. Init => TypeInv /\ HandledInv
  BY TypeInit, HandledInit
<1>2. TypeInv /\ HandledInv /\ [Next]_vars => (TypeInv /\ HandledInv)'
  BY TypeStep, HandledStep DEF AnyStep
<1>3. HandledInv => CommittedWasHandled
  BY DEF HandledInv, Done, CommittedWasHandled
<1> QED
  BY <1>1, <1>2, <1>3, PTL DEF Spec
-----------------------------------------------------------------------------
(* The requests of the seller.                                             *)

\* Downloads end before the lease does, and a job has one request at a time.
Orderly == Prompt /\ OneByOne

\* What a request may save: a preview that goes on to its final run, ...
Finalization(job, result) ==
    /\ job.profile = "PREVIEW"
    /\ \E ids \in SUBSET job.outputs :
           CanFinalize(job, ids) /\ result = RequestFinalization(job, ids)

\* ... or a job that is rejected.
Rejection(job, result) ==
    CanMove(job, "REJECTED") /\ result = ReleaseLease(Transition(job, "REJECTED"))

\* A request is about the row as it is: nobody has changed it since it was read.
Sound(r, job) ==
    /\ r.step \in {"decided", "loaded", "flushed", "cleaned"} =>
           Finalization(job, r.result) \/ Rejection(job, r.result)
    /\ r.step \in {"loaded", "flushed", "cleaned"} => r.record = job
    /\ r.step = "cleaned" => r.result.status = "REJECTED"
    /\ r.step = "recleanup" => job.status = "REJECTED"

\* Requests that come one by one are sound, since workers leave a job under review
\* alone; and only a claimed job has a lease, so that time leaves it alone, too.
RequestInv ==
    Orderly =>
        /\ \A j \in Jobs : row[j].status # "PROCESSING" => row[j].lease = 0
        /\ \A j \in Jobs, q \in Requests : Sound(request[j][q], row[j])

\* At first there is no request.
LEMMA RequestInit ==
  ASSUME Init
  PROVE  RequestInv
  BY DEF Init, RequestInv, Sound, NoRequest, NewJob

\* Both kinds are saved on a job under review, and keep its attempt, its modes and
\* its outputs.
LEMMA SavedJob ==
  ASSUME NEW job \in Job, NEW result, Finalization(job, result) \/ Rejection(job, result)
  PROVE  /\ job.status \in {"REVIEW_REQUIRED", "SUCCEEDED"}
         /\ result \in Job /\ result.attempt = job.attempt
         /\ result.modes = job.modes /\ result.outputs = job.outputs
         /\ result.lease \in {0, job.lease}
         /\ Finalization(job, result) => result.status = "FINALIZING"
         /\ Rejection(job, result) => result.status = "REJECTED"
<1>1. job.status \in Statuses
  BY DEF Job
<1>a. CASE Finalization(job, result)
  <2>1. PICK ids : CanFinalize(job, ids) /\ result = RequestFinalization(job, ids)
    BY <1>a DEF Finalization
  <2>2. result.status = "FINALIZING" /\ SelectOutputs(job, ids) # {}
    BY <2>1, FinalizationType DEF CanFinalize
  <2>3. ~Rejection(job, result)
    <3>1. ReleaseLease(Transition(job, "REJECTED")).status = "REJECTED"
      BY VerdictType DEF Statuses
    <3> QED
      BY <2>2, <3>1 DEF Rejection
  <2> QED
    BY <2>1, <2>2, <2>3, FinalizationType, FinalizationRun, VerdictKeeps DEF CanFinalize
<1>b. CASE Rejection(job, result)
  <2>1. result = ReleaseLease(Transition(job, "REJECTED")) /\ CanMove(job, "REJECTED")
    BY <1>b DEF Rejection
  <2>2. job.status \in {"REVIEW_REQUIRED", "SUCCEEDED"}
    BY <1>1, <2>1 DEF CanMove, AllowedTransitions, Statuses
  <2>3. /\ result \in Job /\ result.attempt = job.attempt /\ result.lease = 0
        /\ result.status = "REJECTED" /\ SameRun(result, job) /\ result.outputs = job.outputs
    BY <2>1, VerdictType, VerdictRun, VerdictKeeps DEF Statuses
  <2>4. ~Finalization(job, result)
    <3>1. \A ids : RequestFinalization(job, ids).status = "FINALIZING"
      BY FinalizationType
    <3> QED
      BY <2>3, <3>1 DEF Finalization
  <2> QED
    BY <2>2, <2>3, <2>4 DEF SameRun
<1> QED
  BY <1>a, <1>b

\* A job that a worker may change has no request.
LEMMA SoundOpen ==
  ASSUME NEW r \in RequestType, NEW job \in Job, Sound(r, job),
         job.status \in {"PENDING", "FAILED", "PROCESSING", "FINALIZING"}
  PROVE  r.step = "idle" /\ \A new : Sound(r, new)
<1>1. r.step = "idle"
  BY SavedJob DEF RequestType, Sound
<1> QED
  BY <1>1 DEF Sound

\* Steps of others keep the requests sound: they leave the rows alone or change
\* those that have no request.
LEMMA RequestsKept ==
  ASSUME TypeInv, RequestInv, Orderly, request' = request,
         \A j \in Jobs :
             \/ row'[j] = row[j]
             \/ /\ row[j].status \in {"PENDING", "FAILED", "PROCESSING", "FINALIZING"}
                /\ row'[j].status # "PROCESSING" => row'[j].lease = 0
  PROVE  RequestInv'
<1>1. row \in [Jobs -> Job] /\ request \in RequestTypes
  BY DEF TypeInv, TypeOK, RequestTypes, RequestType
<1>2. \A j \in Jobs, q \in Requests : Sound(request[j][q], row[j])
  BY DEF RequestInv
<1>3. ASSUME NEW j \in Jobs, NEW q \in Requests
      PROVE  Sound(request[j][q], row'[j])
  BY <1>1, <1>2, SoundOpen DEF RequestTypes
<1>4. \A j \in Jobs : row'[j].status # "PROCESSING" => row'[j].lease = 0
  BY DEF RequestInv
<1> QED
  BY <1>3, <1>4 DEF RequestInv

\* A step of a request that saves nothing.
LEMMA RequestMoves ==
  ASSUME TypeInv, RequestInv, Orderly, NEW j \in Jobs, NEW q \in Requests, NEW r,
         Asked(j, q, r), Sound(r, row[j]), row' = row
  PROVE  RequestInv'
<1>1. request \in RequestTypes
  BY DEF TypeInv, TypeOK, RequestTypes, RequestType
<1>2. /\ request'[j][q] = r
      /\ \A k \in Jobs, p \in Requests : k # j \/ p # q => request'[k][p] = request[k][p]
  BY <1>1 DEF Asked, RequestTypes
<1>3. ASSUME NEW k \in Jobs, NEW p \in Requests
      PROVE  Sound(request'[k][p], row'[k])
  <2>a. CASE k = j /\ p = q
    BY <1>2, <2>a
  <2>b. CASE k # j \/ p # q
    BY <1>2, <2>b DEF RequestInv
  <2> QED
    BY <2>a, <2>b
<1> QED
  BY <1>3 DEF RequestInv

\* A commit: the decision that was made on the row, and the end of the only request.
LEMMA CommitSaves ==
  ASSUME TypeInv, RequestInv, Orderly, NEW j \in Jobs, NEW q \in Requests, Commit(j, q),
         request[j][q].step \in {"flushed", "cleaned"}
  PROVE  /\ row'[j] = request[j][q].result
         /\ Finalization(row[j], row'[j]) \/ Rejection(row[j], row'[j])
         /\ \A k \in Jobs \ {j} : row'[k] = row[k]
         /\ RequestInv'
<1>1. /\ row \in [Jobs -> Job] /\ row[j] \in Job /\ request \in RequestTypes
      /\ Asked(j, q, NoRequest) /\ NoRequest.step = "idle"
  BY CloseAsks DEF TypeInv, TypeOK, RequestTypes, RequestType, Commit
<1> DEFINE result == request[j][q].result
<1>2. Sound(request[j][q], row[j]) /\ (row[j].status # "PROCESSING" => row[j].lease = 0)
  BY DEF RequestInv
<1>3. /\ Finalization(row[j], result) \/ Rejection(row[j], result)
      /\ request[j][q].record = row[j]
  BY <1>2 DEF Sound
<1>4. /\ row[j].status \in {"REVIEW_REQUIRED", "SUCCEEDED"}
      /\ result \in Job /\ result.modes = row[j].modes /\ result.outputs = row[j].outputs
      /\ result.lease \in {0, row[j].lease}
  BY <1>1, <1>3, SavedJob
<1>5. row' = [row EXCEPT ![j] = result]
  BY <1>1, <1>3, <1>4, WriteBackAll DEF Commit
<1> HIDE DEF result
<1>6. row'[j] = result /\ \A k \in Jobs \ {j} : row'[k] = row[k]
  BY <1>1, <1>5
<1>7. /\ request'[j][q] = NoRequest
      /\ \A k \in Jobs, p \in Requests : k # j => request'[k][p] = request[k][p]
  <2>1. NoRequest \in RequestType /\ request' = [request EXCEPT ![j][q] = NoRequest]
    BY <1>1 DEF Asked
  <2> QED
    BY <1>1, <2>1 DEF RequestTypes
<1>8. \A p \in Requests : p = q
  BY DEF Orderly, OneByOne
<1>9. \A k \in Jobs, p \in Requests : Sound(request'[k][p], row'[k])
  <2>1. Sound(NoRequest, row'[j])
    BY <1>1 DEF Sound
  <2> QED
    BY <1>6, <1>7, <1>8, <2>1 DEF RequestInv
<1>10. \A k \in Jobs : row'[k].status # "PROCESSING" => row'[k].lease = 0
  BY <1>2, <1>4, <1>6 DEF RequestInv
<1>11. RequestInv'
  BY <1>9, <1>10 DEF RequestInv
<1> QED
  BY <1>3, <1>6, <1>11 DEF result

-----------------------------------------------------------------------------
(* One task per job, and the budget of paid rounds, when downloads end     *)
(* before the lease does and the seller's requests on a job one by one.    *)

Active(w, o) == task[w][o].step \in ActiveSteps
JobOf(o) == row[log[o]]

\* The lease protects a claimed task and the row lock the others, since a job
\* under way stays PROCESSING; a task that has not paid yet has an attempt left.
SafeInv ==
    Orderly =>
        /\ \A v, w \in Workers, o, p \in Offsets :
               Active(v, o) /\ Active(w, p) /\ log[o] = log[p] => v = w /\ o = p
        /\ \A w \in Workers, o \in Offsets : Active(w, o) =>
               JobOf(o).status = "PROCESSING" /\ task[w][o].loaded.attempt = JobOf(o).attempt
        /\ \A w \in Workers, o \in Offsets :
               task[w][o].step \in UnlockedSteps => JobOf(o).lease > 0
        /\ \A w \in Workers, o \in Offsets :
               task[w][o].step = "givingup" => task[w][o].record.status = "PROCESSING"
        /\ \A w \in Workers, o \in Offsets :
               task[w][o].step \in {"claimed", "generate"} => rounds[log[o]] < JobOf(o).attempt
        /\ \A w \in Workers, o \in Offsets :
               task[w][o].step \in LockedSteps => task[w][o].loaded.attempt <= MaxRetry
        /\ PaidRoundsCapped

\* At first no task is under way.
LEMMA SafeInit ==
  ASSUME Init
  PROVE  SafeInv
<1>1. MaxRetry \in Nat
  BY JobAssumption
<1>2. \A w \in Workers, o \in Offsets : ~Active(w, o)
  BY BlankTask DEF Init, Active, ActiveSteps, LockedSteps, UnlockedSteps
<1>3. PaidRoundsCapped
  BY <1>1 DEF Init, PaidRoundsCapped, NewJob
<1> QED
  BY <1>2, <1>3 DEF SafeInv, Active, ActiveSteps, LockedSteps, UnlockedSteps

\* A step that pays nothing, keeps status and attempt of every job and starts no
\* task on one.
Quiet ==
    /\ \A j \in Jobs : row'[j].status = row[j].status /\ row'[j].attempt = row[j].attempt
    /\ \A o \in DOMAIN log : log'[o] = log[o]
    /\ rounds' = rounds
    /\ \A w \in Workers, o \in Offsets : Active(w, o)' =>
           /\ Active(w, o)
           /\ task'[w][o].loaded = task[w][o].loaded
           /\ \/ task'[w][o].step = task[w][o].step /\ task'[w][o].record = task[w][o].record
              \/ /\ task[w][o].step = "claimed" /\ task'[w][o].step = "generate"
                 /\ task[w][o].loaded.attempt <= MaxRetry
              \/ /\ task[w][o].step = "claimed" /\ task'[w][o].step = "givingup"
                 /\ task'[w][o].record = row[log[o]]
    /\ \A w \in Workers, o \in Offsets :
           task'[w][o].step \in UnlockedSteps /\ Orderly => row'[log[o]].lease > 0

\* Such a step keeps SafeInv.
LEMMA SafeQuiet ==
  ASSUME TypeInv, SafeInv, Quiet
  PROVE  SafeInv'
<1>1. \A w \in Workers, o \in Offsets : Active(w, o) => o \in DOMAIN log /\ log[o] \in Jobs
  BY DEF TypeInv, InLog, Active, ActiveSteps, LockedSteps, UnlockedSteps
<1>2. SUFFICES ASSUME Orderly
               PROVE  SafeInv'
  BY DEF SafeInv
<1>3. \A w \in Workers, o \in Offsets : Active(w, o)' =>
         /\ Active(w, o)
         /\ o \in DOMAIN log
         /\ log[o] \in Jobs /\ log'[o] = log[o]
         /\ JobOf(o)'.status = JobOf(o).status /\ JobOf(o)'.attempt = JobOf(o).attempt
  BY <1>1 DEF Quiet, JobOf
<1>4. \A v, w \in Workers, o, p \in Offsets :
         (Active(v, o) /\ Active(w, p) /\ log[o] = log[p])' => v = w /\ o = p
  BY <1>2, <1>3 DEF SafeInv
<1>5. \A w \in Workers, o \in Offsets : Active(w, o)' =>
         JobOf(o)'.status = "PROCESSING" /\ task'[w][o].loaded.attempt = JobOf(o)'.attempt
  BY <1>2, <1>3 DEF SafeInv, Quiet
<1>6. \A w \in Workers, o \in Offsets :
         /\ task'[w][o].step \in UnlockedSteps => JobOf(o)'.lease > 0
         /\ task'[w][o].step = "givingup" => task'[w][o].record.status = "PROCESSING"
  <2>1. ASSUME NEW w \in Workers, NEW o \in Offsets, task'[w][o].step \in UnlockedSteps
        PROVE  JobOf(o)'.lease > 0
    BY <1>2, <1>3, <2>1 DEF Quiet, JobOf, Active, ActiveSteps
  <2>2. ASSUME NEW w \in Workers, NEW o \in Offsets, task'[w][o].step = "givingup"
        PROVE  task'[w][o].record.status = "PROCESSING"
    BY <1>2, <1>3, <2>2 DEF SafeInv, Quiet, JobOf, Active, ActiveSteps, UnlockedSteps
  <2> QED
    BY <2>1, <2>2
<1>7. \A w \in Workers, o \in Offsets :
         task'[w][o].step \in {"claimed", "generate"} => rounds'[log'[o]] < JobOf(o)'.attempt
  BY <1>2, <1>3 DEF SafeInv, Quiet, Active, ActiveSteps, LockedSteps, UnlockedSteps
<1>8. \A w \in Workers, o \in Offsets :
         task'[w][o].step \in LockedSteps => task'[w][o].loaded.attempt <= MaxRetry
  BY <1>2, <1>3 DEF SafeInv, Quiet, Active, ActiveSteps, LockedSteps, UnlockedSteps
<1>9. PaidRoundsCapped'
  BY <1>2 DEF SafeInv, Quiet, PaidRoundsCapped
<1> QED
  BY <1>4, <1>5, <1>6, <1>7, <1>8, <1>9 DEF SafeInv

\* A step that changes a job no task is working on afterwards, other than
\* its attempt, and ends tasks at most.
Release(j) ==
    /\ \A k \in Jobs \ {j} : row'[k] = row[k]
    /\ row'[j].attempt = row[j].attempt
    /\ log' = log /\ rounds' = rounds
    /\ \A w \in Workers, o \in Offsets : Active(w, o)' =>
           task'[w][o] = task[w][o] /\ log[o] # j

\* Such a step keeps SafeInv: the job it changes is out of reach of the tasks left.
LEMMA SafeRelease ==
  ASSUME TypeInv, SafeInv, NEW j \in Jobs, Release(j)
  PROVE  SafeInv'
<1>1. \A w \in Workers, o \in Offsets : Active(w, o)' =>
         /\ Active(w, o) /\ task'[w][o] = task[w][o]
         /\ log'[o] = log[o] /\ JobOf(o)' = JobOf(o)
  BY DEF TypeInv, InLog, Active, Release, JobOf
<1>2. SUFFICES ASSUME Orderly
               PROVE  SafeInv'
  BY DEF SafeInv
<1>3. \A v, w \in Workers, o, p \in Offsets :
         (Active(v, o) /\ Active(w, p) /\ log[o] = log[p])' => v = w /\ o = p
  BY <1>1, <1>2 DEF SafeInv
<1>4. \A w \in Workers, o \in Offsets : Active(w, o)' =>
         /\ JobOf(o)'.status = "PROCESSING" /\ task'[w][o].loaded.attempt = JobOf(o)'.attempt
         /\ task'[w][o].step \in UnlockedSteps => JobOf(o)'.lease > 0
         /\ task'[w][o].step = "givingup" => task'[w][o].record.status = "PROCESSING"
         /\ task'[w][o].step \in {"claimed", "generate"} => rounds'[log'[o]] < JobOf(o)'.attempt
         /\ task'[w][o].step \in LockedSteps => task'[w][o].loaded.attempt <= MaxRetry
  BY <1>1, <1>2 DEF SafeInv, Release
<1>5. PaidRoundsCapped'
  BY <1>2 DEF SafeInv, Release, PaidRoundsCapped
<1> QED
  BY <1>3, <1>4, <1>5 DEF SafeInv, Active, ActiveSteps, LockedSteps, UnlockedSteps

\* A claim finds no task on the job: a locked one would have it skipped, and a
\* claimed one holds a lease that still runs.
LEMMA SafeClaim ==
  ASSUME TypeInv, SafeInv, NEW w \in Workers, NEW o \in DOMAIN log, ClaimJob(w, o)
  PROVE  SafeInv'
<1> DEFINE j == log[o]
           t == [NoTask EXCEPT !.step = "claimed", !.loaded = Claim(row[j])]
<1>1. /\ row \in [Jobs -> Job] /\ task \in Tasks /\ o \in Offsets
      /\ rounds \in [Jobs -> Nat] /\ j \in Jobs /\ row[j] \in Job
  BY LogOffsets DEF TypeInv, TypeOK, Tasks, Task, ClaimJob
<1>2. SUFFICES ASSUME Orderly
               PROVE  SafeInv'
  BY DEF SafeInv
<1>3. /\ Claim(row[j]) \in Job /\ Claim(row[j]).status = "PROCESSING"
      /\ Claim(row[j]).attempt = row[j].attempt + 1 /\ Claim(row[j]).lease > 0
  BY <1>1, ClaimType
<1>4. t \in Task /\ t.step = "claimed" /\ t.loaded = Claim(row[j])
  BY <1>3, BlankTask DEF Task, Steps, ActiveSteps, LockedSteps, UnlockedSteps
<1>5. /\ task' = [task EXCEPT ![w][o] = t]
      /\ row' = [row EXCEPT ![j] = Claim(@)]
      /\ log' = log /\ rounds' = rounds
      /\ Unlocked(j) /\ CanClaim(row[j])
  BY DEF ClaimJob, partition
<1> HIDE DEF t
<1>6. /\ task'[w][o] = t
      /\ \A v \in Workers, p \in Offsets : v # w \/ p # o => task'[v][p] = task[v][p]
  BY <1>1, <1>4, <1>5 DEF Tasks
<1>7. row'[j] = Claim(row[j]) /\ \A k \in Jobs : k # j => row'[k] = row[k]
  BY <1>1, <1>5
<1>8. \A v \in Workers, p \in Offsets : Active(v, p) => p \in DOMAIN log /\ log[p] \in Jobs
  BY DEF TypeInv, InLog, Active, ActiveSteps, LockedSteps, UnlockedSteps
<1>9. \A v \in Workers, p \in Offsets : Active(v, p) => log[p] # j
  <2>1. ASSUME NEW v \in Workers, NEW p \in Offsets, Active(v, p), log[p] = j
        PROVE  FALSE
    <3>1. task[v][p].step \notin LockedSteps
      BY <1>5, <1>8, <2>1 DEF Unlocked, Holds
    <3>2. task[v][p].step \in UnlockedSteps
      BY <2>1, <3>1 DEF Active, ActiveSteps
    <3>3. row[j].status = "PROCESSING" /\ row[j].lease > 0
      BY <1>2, <2>1, <3>2 DEF SafeInv, JobOf
    <3> QED
      BY <1>5, <3>3 DEF CanClaim
  <2> QED
    BY <2>1
<1> HIDE DEF j
<1>10. j = log[o]
  BY DEF j
<1>11. \A v \in Workers, p \in Offsets : Active(v, p)' =>
          \/ v = w /\ p = o
          \/ /\ Active(v, p) /\ task'[v][p] = task[v][p]
             /\ log[p] # j /\ JobOf(p)' = JobOf(p)
  BY <1>5, <1>6, <1>7, <1>8, <1>9 DEF Active, JobOf
<1>12. \A v, u \in Workers, p, q \in Offsets :
          (Active(v, p) /\ Active(u, q) /\ log[p] = log[q])' => v = u /\ p = q
  BY <1>2, <1>5, <1>10, <1>11 DEF SafeInv
<1>13. JobOf(o)' = Claim(row[j]) /\ row[j].attempt \in Nat /\ rounds[j] \in Nat
  BY <1>1, <1>5, <1>7, <1>10 DEF JobOf, Job
<1>14. PaidRoundsCapped /\ rounds[j] < row[j].attempt + 1
  BY <1>1, <1>2, <1>13 DEF SafeInv, PaidRoundsCapped
<1>15. ASSUME NEW v \in Workers, NEW p \in Offsets, Active(v, p)'
       PROVE  /\ JobOf(p)'.status = "PROCESSING"
              /\ task'[v][p].loaded.attempt = JobOf(p)'.attempt
              /\ task'[v][p].step \in UnlockedSteps => JobOf(p)'.lease > 0
              /\ task'[v][p].step = "givingup" => task'[v][p].record.status = "PROCESSING"
              /\ task'[v][p].step \in {"claimed", "generate"} => rounds'[log'[p]] < JobOf(p)'.attempt
              /\ task'[v][p].step \in LockedSteps => task'[v][p].loaded.attempt <= MaxRetry
  <2>a. CASE v = w /\ p = o
    BY <1>3, <1>4, <1>5, <1>6, <1>10, <1>13, <1>14, <2>a DEF LockedSteps, UnlockedSteps
  <2>b. CASE Active(v, p) /\ task'[v][p] = task[v][p] /\ JobOf(p)' = JobOf(p)
    BY <1>2, <1>5, <2>b DEF SafeInv
  <2> QED
    BY <1>11, <1>15, <2>a, <2>b
<1>16. PaidRoundsCapped'
  <2>1. ASSUME NEW k \in Jobs
        PROVE  rounds'[k] <= MaxRetry /\ rounds'[k] <= row'[k].attempt
    <3>1. rounds[k] <= MaxRetry /\ rounds[k] <= row[k].attempt /\ rounds[k] \in Nat
      BY <1>1, <1>14 DEF PaidRoundsCapped
    <3> QED
      BY <1>3, <1>5, <1>7, <1>13, <3>1
  <2> QED
    BY <2>1 DEF PaidRoundsCapped
<1> QED
  BY <1>12, <1>15, <1>16 DEF SafeInv, Active, ActiveSteps, LockedSteps, UnlockedSteps

\* Paying a round uses the attempt of the only task on the job.
LEMMA SafePay ==
  ASSUME TypeInv, SafeInv, NEW w \in Workers, NEW o \in DOMAIN log, CallProviders(w, o)
  PROVE  SafeInv'
<1> DEFINE j == log[o]
<1>1. /\ row \in [Jobs -> Job] /\ task \in Tasks /\ o \in Offsets /\ rounds \in [Jobs -> Nat]
      /\ task[w][o].step = "generate" /\ Active(w, o)
  BY LogOffsets DEF TypeInv, TypeOK, Tasks, Task, CallProviders, Active, ActiveSteps, LockedSteps, UnlockedSteps
<1>2. j \in Jobs /\ row[j] \in Job /\ task[w][o] \in Task
  BY <1>1 DEF TypeInv, InLog, Active, Tasks
<1>3. SUFFICES ASSUME Orderly
               PROVE  SafeInv'
  BY DEF SafeInv
<1>4. rounds' = [rounds EXCEPT ![j] = @ + 1] /\ row' = row /\ log' = log
  BY DEF CallProviders, PayRound, partition
<1>5a. PICK step \in {"ready", "cleanup", "failing"} :
         \E made : task' = [task EXCEPT ![w][o].step = step, ![w][o].made = made]
  BY DEF CallProviders, StepAfter
<1>5. PICK made : task' = [task EXCEPT ![w][o].step = step, ![w][o].made = made]
  BY <1>5a
<1> DEFINE t == [task[w][o] EXCEPT !.step = step, !.made = made]
<1>6. t.step = step /\ t.loaded = task[w][o].loaded
  <2>1. ASSUME NEW old \in Task
        PROVE  /\ [old EXCEPT !.step = step, !.made = made].step = step
               /\ [old EXCEPT !.step = step, !.made = made].loaded = old.loaded
    BY DEF Task
  <2> QED
    BY <1>2, <2>1
<1>7. task' = [task EXCEPT ![w][o] = t]
  BY <1>1, <1>5 DEF Tasks
<1> HIDE DEF t
<1>8. /\ task'[w][o] = t
      /\ \A v \in Workers, p \in Offsets : v # w \/ p # o => task'[v][p] = task[v][p]
  BY <1>1, <1>7 DEF Tasks
<1>9. \A v \in Workers, p \in Offsets :
         /\ Active(v, p)' => Active(v, p)
         /\ JobOf(p)' = JobOf(p)
         /\ task'[v][p].loaded = task[v][p].loaded
         /\ v # w \/ p # o => task'[v][p].step = task[v][p].step
  BY <1>1, <1>4, <1>6, <1>8 DEF Active, JobOf
<1>10. /\ rounds[j] < row[j].attempt /\ row[j].attempt <= MaxRetry
       /\ rounds[j] \in Nat /\ row[j].attempt \in Nat /\ MaxRetry \in Nat
  BY <1>1, <1>2, <1>3, JobAssumption DEF SafeInv, JobOf, LockedSteps, Job
<1>11. PaidRoundsCapped'
  <2>1. ASSUME NEW k \in Jobs
        PROVE  rounds'[k] <= MaxRetry /\ rounds'[k] <= row'[k].attempt
    BY <1>1, <1>2, <1>3, <1>4, <1>10 DEF SafeInv, PaidRoundsCapped
  <2> QED
    BY <2>1 DEF PaidRoundsCapped
<1>12. \A v, u \in Workers, p, q \in Offsets :
          (Active(v, p) /\ Active(u, q) /\ log[p] = log[q])' => v = u /\ p = q
  BY <1>3, <1>4, <1>9 DEF SafeInv
<1>13. ASSUME NEW v \in Workers, NEW p \in Offsets, Active(v, p)'
       PROVE  /\ JobOf(p)'.status = "PROCESSING"
              /\ task'[v][p].loaded.attempt = JobOf(p)'.attempt
              /\ task'[v][p].step \in UnlockedSteps => JobOf(p)'.lease > 0
              /\ task'[v][p].step = "givingup" => task'[v][p].record.status = "PROCESSING"
              /\ task'[v][p].step \in {"claimed", "generate"} => rounds'[log'[p]] < JobOf(p)'.attempt
              /\ task'[v][p].step \in LockedSteps => task'[v][p].loaded.attempt <= MaxRetry
  <2>1. Active(v, p)
    BY <1>9, <1>13
  <2>a. CASE v = w /\ p = o
    BY <1>1, <1>3, <1>5, <1>6, <1>8, <1>9, <2>1, <2>a DEF SafeInv, LockedSteps, UnlockedSteps
  <2>b. CASE v # w \/ p # o
    <3>1. log[p] # j
      BY <1>1, <1>3, <2>1, <2>b DEF SafeInv
    <3>2. rounds'[log'[p]] = rounds[log[p]]
      BY <1>1, <1>4, <2>1, <3>1 DEF TypeInv, InLog, Active
    <3> QED
      BY <1>3, <1>8, <1>9, <2>1, <2>b, <3>2 DEF SafeInv
  <2> QED
    BY <2>a, <2>b
<1> QED
  BY <1>11, <1>12, <1>13 DEF SafeInv, Active, ActiveSteps, LockedSteps, UnlockedSteps

\* A task that ends with a save.
Closes(w, o) ==
    SaveGivenUp(w, o) \/ SaveCompleted(w, o) \/ SaveCleanedUp(w, o) \/ SaveFailed(w, o)

\* What it saves: the run and the attempt are those it loaded, without a lease, and
\* only a completed job is put under review, with what was made.  The row that
\* save() compares it with is the present one, unless the lock had to be awaited.
LEMMA CloseJob ==
  ASSUME TypeInv, NEW w \in Workers, NEW o \in DOMAIN log, Closes(w, o)
  PROVE  \E job \in Job, record \in Job :
            /\ row' = [row EXCEPT ![log[o]] = WriteBack(@, record, job)]
            /\ \/ record = row[log[o]]
               \/ task[w][o].step = "givingup" /\ record = task[w][o].record
            /\ job.attempt = task[w][o].loaded.attempt
            /\ SameRun(job, task[w][o].loaded) /\ job.lease = 0
            /\ \/ job.status = "FAILED"
               \/ /\ job.status = "REVIEW_REQUIRED" /\ job.outputs = task[w][o].made
                  /\ SaveCompleted(w, o)
<1>1. /\ task[w][o].loaded \in Job /\ task[w][o].made \in SUBSET Asset
      /\ task[w][o].record \in Job /\ row \in [Jobs -> Job] /\ o \in Offsets
  BY LogOffsets DEF TypeInv, TypeOK
<1>2. row[log[o]] \in Job
  <2>1. task[w][o].step \in ActiveSteps
    BY DEF Closes, SaveGivenUp, SaveCompleted, SaveCleanedUp, SaveFailed, ActiveSteps, LockedSteps,
           UnlockedSteps
  <2> QED
    BY <1>1, <2>1 DEF TypeInv, InLog
<1>a. CASE SaveGivenUp(w, o)
  <2>1. FailureOf(task[w][o].loaded) \in Failures
    BY DEF FailureOf, Failures
  <2> DEFINE job == Failed(task[w][o].loaded, FailureOf(task[w][o].loaded))
  <2>2. /\ job \in Job /\ job.attempt = task[w][o].loaded.attempt /\ job.status = "FAILED"
        /\ SameRun(job, task[w][o].loaded) /\ job.lease = 0
    BY <1>1, <2>1, FailedType, FailedRun
  <2>3. /\ row' = [row EXCEPT ![log[o]] = WriteBack(@, task[w][o].record, job)]
        /\ task[w][o].step = "givingup"
    BY <1>a DEF SaveGivenUp
  <2> HIDE DEF job
  <2> QED
    BY <1>1, <2>2, <2>3
<1>3. ASSUME NEW job, Save(log[o], job)
      PROVE  row' = [row EXCEPT ![log[o]] = WriteBack(@, row[log[o]], job)]
  BY <1>3 DEF Save
<1>b. CASE SaveCompleted(w, o)
  <2> DEFINE job == Completed(task[w][o].loaded, task[w][o].made)
  <2>1. /\ job \in Job /\ job.attempt = task[w][o].loaded.attempt /\ job.lease = 0
        /\ job.status = "REVIEW_REQUIRED" /\ job.outputs = task[w][o].made
        /\ SameRun(job, task[w][o].loaded)
    BY <1>1, CompletedType, CompletedRun
  <2>2. Save(log[o], job)
    BY <1>b DEF SaveCompleted
  <2> HIDE DEF job
  <2> QED
    BY <1>2, <1>3, <1>b, <2>1, <2>2
<1>c. CASE SaveCleanedUp(w, o) \/ SaveFailed(w, o)
  <2>1. PICK code \in Failures : Save(log[o], Failed(Generating(task[w][o].loaded), code))
    BY <1>c DEF SaveCleanedUp, SaveFailed, Failures
  <2>2. Generating(task[w][o].loaded) \in Job
    BY <1>1, GeneratingType
  <2> DEFINE job == Failed(Generating(task[w][o].loaded), code)
  <2>3. /\ job \in Job /\ job.attempt = task[w][o].loaded.attempt /\ job.lease = 0
        /\ job.status = "FAILED" /\ SameRun(job, task[w][o].loaded)
    BY <1>1, <2>2, GeneratingType, FailedType, GeneratingRun, FailedRun DEF SameRun
  <2> HIDE DEF job
  <2> QED
    BY <1>2, <1>3, <2>1, <2>3 DEF job
<1> QED
  BY <1>a, <1>b, <1>c DEF Closes

\* Ending the only task on a job releases it.
LEMMA SafeClose ==
  ASSUME TypeInv, SafeInv, Orderly, NEW w \in Workers, NEW o \in DOMAIN log, Closes(w, o)
  PROVE  SafeInv'
<1> DEFINE j == log[o]
<1>1. /\ row \in [Jobs -> Job] /\ task \in Tasks /\ o \in Offsets
      /\ Active(w, o) /\ Ack(w, o)
  BY LogOffsets DEF TypeInv, TypeOK, Tasks, Task, Active, ActiveSteps, LockedSteps, UnlockedSteps,
                    Closes, SaveGivenUp, SaveCompleted, SaveCleanedUp, SaveFailed
<1>2. /\ j \in Jobs /\ row[j] \in Job /\ task[w][o].loaded.attempt = row[j].attempt
  BY <1>1 DEF TypeInv, InLog, SafeInv, Active, JobOf
<1>3. PICK job \in Job, record \in Job :
         /\ row' = [row EXCEPT ![j] = WriteBack(@, record, job)]
         /\ job.attempt = task[w][o].loaded.attempt
  BY CloseJob
<1>4. row'[j].attempt = row[j].attempt /\ \A k \in Jobs : k # j => row'[k] = row[k]
  BY <1>1, <1>2, <1>3, SaveType, WriteBackType
<1>5. PICK t \in Task : task' = [task EXCEPT ![w][o] = t] /\ t.step = "acked"
  BY <1>1, AckTask
<1>6. /\ task'[w][o] = t
      /\ \A v \in Workers, p \in Offsets : v # w \/ p # o => task'[v][p] = task[v][p]
  BY <1>1, <1>5 DEF Tasks
<1>7. \A v \in Workers, p \in Offsets : Active(v, p)' =>
         task'[v][p] = task[v][p] /\ Active(v, p) /\ (v # w \/ p # o)
  BY <1>5, <1>6 DEF Active, ActiveSteps, LockedSteps, UnlockedSteps
<1>8. \A v \in Workers, p \in Offsets : Active(v, p)' => log[p] # j
  BY <1>1, <1>7 DEF SafeInv
<1>9. log' = log /\ rounds' = rounds
  BY DEF Closes, SaveGivenUp, SaveCompleted, SaveCleanedUp, SaveFailed, partition
<1> QED
  BY <1>2, <1>4, <1>7, <1>8, <1>9, SafeRelease DEF Release

\* Steps that change no job and pay nothing, and of tasks only end some or begin
\* some.
Rests ==
    /\ row' = row /\ rounds' = rounds
    /\ \A o \in DOMAIN log : log'[o] = log[o]
    /\ \A w \in Workers, o \in Offsets :
           task'[w][o] = task[w][o] \/ task'[w][o].step \notin ActiveSteps

\* Such a step keeps SafeInv.
LEMMA SafeRests ==
  ASSUME TypeInv, SafeInv, Rests
  PROVE  SafeInv'
<1>1. ASSUME NEW w \in Workers, NEW o \in Offsets, task'[w][o].step \in UnlockedSteps, Orderly
      PROVE  row'[log[o]].lease > 0
  BY <1>1 DEF Rests, SafeInv, JobOf, ActiveSteps
<1> QED
  BY <1>1, SafeQuiet DEF Rests, Quiet, Active

\* A reject is about to remove what a job shows, or has done so for nothing.
Wiping(j) == BeingRejected(j) \/ j \in wiped

\* They remove nothing either, and a reject once begun stays on record.
Idles ==
    /\ Rests
    /\ media' = media
    /\ \A j \in Jobs : Wiping(j) => Wiping(j)'

\* Steps of others do not touch that record.
LEMMA WipingKept ==
  ASSUME request' = request, wiped' = wiped
  PROVE  \A j \in Jobs : Wiping(j) => Wiping(j)'
  BY DEF Wiping, BeingRejected

\* The relay touches no task.
LEMMA RelaysIdle ==
  ASSUME TypeInv, Relays
  PROVE  Idles
  BY RelaysKeepType, WipingKept DEF Relays, Idles, Rests

\* The loop of the consumer begins and ends tasks.
LEMMA ConsumerIdles ==
  ASSUME TypeInv, NEW w \in Workers, ConsumerStep(w)
  PROVE  Idles
<1>1. task \in Tasks
  BY DEF TypeInv, TypeOK, Tasks, Task
<1>2. /\ row' = row /\ rounds' = rounds /\ media' = media /\ log' = log
      /\ request' = request /\ wiped' = wiped
  BY DEF ConsumerStep, Poll, CommitOffset, StopAtError, CommitRejected, partition
<1>3. ASSUME NEW v \in Workers, NEW o \in Offsets
      PROVE  task'[v][o] = task[v][o] \/ task'[v][o].step \notin ActiveSteps
  <2>a. CASE Poll(w)
    <3> DEFINE t == [NoTask EXCEPT !.step = "begin"]
    <3>1. t.step = "begin"
      BY EndedTask DEF Steps
    <3> HIDE DEF t
    <3>2. PICK last \in position + 1 .. Len(log) :
             task' = [task EXCEPT ![w] = [p \in Offsets |->
                         IF p \in position + 1 .. last THEN t ELSE NoTask]]
      BY <2>a DEF Poll, t
    <3>3. task'[v][o] \in {task[v][o], t, NoTask}
      BY <1>1, <3>2 DEF Tasks
    <3> QED
      BY <3>1, <3>3, BlankTask DEF ActiveSteps, LockedSteps, UnlockedSteps
  <2>b. CASE CommitOffset(w)
    <3>1. PICK p \in Offsets : task' = [task EXCEPT ![w][p] = NoTask]
      BY <2>b DEF CommitOffset
    <3> QED
      BY <1>1, <3>1, BlankTask DEF Tasks, ActiveSteps, LockedSteps, UnlockedSteps
  <2>c. CASE StopAtError(w) \/ CommitRejected(w)
    <3>1. Drop(w)
      BY <2>c DEF StopAtError, CommitRejected
    <3> QED
      BY <1>1, <3>1, TaskDrop DEF ActiveSteps, LockedSteps, UnlockedSteps
  <2> QED
    BY <2>a, <2>b, <2>c DEF ConsumerStep
<1> QED
  BY <1>2, <1>3, WipingKept DEF Idles, Rests

\* The faults end tasks.
LEMMA FaultsIdle ==
  ASSUME TypeInv, NEW w \in Workers,
         Rebalance(w) \/ Crash(w) \/ \E o \in DOMAIN log : TaskError(w, o)
  PROVE  Idles
<1>1. task \in Tasks /\ DOMAIN log \subseteq Offsets
  BY LogOffsets DEF TypeInv, TypeOK, Tasks, Task
<1>2. /\ row' = row /\ rounds' = rounds /\ media' = media /\ log' = log
      /\ request' = request /\ wiped' = wiped
  BY DEF Rebalance, Crash, TaskError, partition
<1>3. ASSUME NEW v \in Workers, NEW o \in Offsets
      PROVE  task'[v][o] = task[v][o] \/ task'[v][o].step \notin ActiveSteps
  <2>a. CASE Rebalance(w)
    BY <2>a DEF Rebalance
  <2>b. CASE Crash(w)
    <3>1. Drop(w)
      BY <2>b DEF Crash
    <3> QED
      BY <1>1, <3>1, TaskDrop DEF ActiveSteps, LockedSteps, UnlockedSteps
  <2>c. ASSUME NEW p \in DOMAIN log, TaskError(w, p)
        PROVE  task'[v][o] = task[v][o] \/ task'[v][o].step \notin ActiveSteps
    <3> DEFINE t == [NoTask EXCEPT !.step = "error"]
    <3>1. t.step = "error"
      BY EndedTask DEF Steps
    <3>2. task' = [task EXCEPT ![w][p] = t]
      BY <2>c DEF TaskError
    <3> HIDE DEF t
    <3> QED
      BY <1>1, <3>1, <3>2 DEF Tasks, ActiveSteps, LockedSteps, UnlockedSteps
  <2> QED
    BY <2>a, <2>b, <2>c
<1> QED
  BY <1>2, <1>3, WipingKept DEF Idles, Rests

\* A message that ends without a claim.
LEMMA SkipIdles ==
  ASSUME TypeInv, NEW w \in Workers, NEW o \in DOMAIN log,
         SendDlq(w, o) \/ SkipMessage(w, o)
  PROVE  Idles
<1>1. task \in Tasks /\ o \in Offsets
  BY LogOffsets DEF TypeInv, TypeOK, Tasks, Task
<1>2. /\ row' = row /\ rounds' = rounds /\ media' = media /\ log' = log
      /\ request' = request /\ wiped' = wiped /\ Ack(w, o)
  BY DEF SendDlq, SkipMessage, partition
<1>3. PICK t \in Task : task' = [task EXCEPT ![w][o] = t] /\ t.step = "acked"
  BY <1>1, <1>2, AckTask
<1>4. \A v \in Workers, p \in Offsets :
         task'[v][p] = task[v][p] \/ task'[v][p].step \notin ActiveSteps
  BY <1>1, <1>3 DEF Tasks, ActiveSteps, LockedSteps, UnlockedSteps
<1> QED
  BY <1>2, <1>4, WipingKept DEF Idles, Rests

\* Going on to the provider calls takes an attempt that is within the budget; giving
\* up reads the claimed row again.
LEMMA SafeStart ==
  ASSUME TypeInv, SafeInv, NEW w \in Workers, NEW o \in DOMAIN log,
         StartGenerating(w, o) \/ GiveUp(w, o)
  PROVE  SafeInv'
<1>1. task \in Tasks /\ o \in Offsets /\ row \in [Jobs -> Job] /\ log[o] \in Jobs
  BY LogOffsets DEF TypeInv, TypeOK, Tasks, Task, InLog, StartGenerating, GiveUp, ActiveSteps,
                    UnlockedSteps
<1>2. row' = row /\ rounds' = rounds /\ log' = log /\ task[w][o].step = "claimed"
  BY DEF StartGenerating, GiveUp, partition
<1>3. PICK t \in Task :
         /\ task' = [task EXCEPT ![w][o] = t]
         /\ t.loaded = task[w][o].loaded
         /\ \/ t.step = "generate" /\ task[w][o].loaded.attempt <= MaxRetry
            \/ t.step = "givingup" /\ t.record = row[log[o]]
  <2>a. CASE StartGenerating(w, o)
    BY <1>1, <2>a, GotoTask DEF StartGenerating, Steps, ActiveSteps, LockedSteps, UnlockedSteps
  <2>b. CASE GiveUp(w, o)
    BY <1>1, <2>b, GiveUpTask
  <2> QED
    BY <2>a, <2>b
<1>4. /\ task'[w][o] = t
      /\ \A v \in Workers, p \in Offsets : v # w \/ p # o => task'[v][p] = task[v][p]
  BY <1>1, <1>3 DEF Tasks
<1>5. \A v \in Workers, p \in Offsets : Active(v, p)' =>
           /\ Active(v, p)
           /\ task'[v][p].loaded = task[v][p].loaded
           /\ \/ task'[v][p].step = task[v][p].step /\ task'[v][p].record = task[v][p].record
              \/ /\ task[v][p].step = "claimed" /\ task'[v][p].step = "generate"
                 /\ task[v][p].loaded.attempt <= MaxRetry
              \/ /\ task[v][p].step = "claimed" /\ task'[v][p].step = "givingup"
                 /\ task'[v][p].record = row[log[p]]
  BY <1>2, <1>3, <1>4 DEF Active, ActiveSteps, UnlockedSteps
<1>6. \A v \in Workers, p \in Offsets :
           task'[v][p].step \in UnlockedSteps /\ Orderly => row'[log[p]].lease > 0
  BY <1>2, <1>3, <1>4 DEF SafeInv, JobOf, UnlockedSteps
<1> QED
  BY <1>2, <1>5, <1>6, SafeQuiet DEF Quiet

\* Time does not catch a prompt task downloading.
LEMMA SafeTick ==
  ASSUME TypeInv, SafeInv, Tick
  PROVE  SafeInv'
<1>1. row \in [Jobs -> Job] /\ \A j \in Jobs : row[j].lease \in Nat
  BY DEF TypeInv, TypeOK, Job
<1>2. /\ rounds' = rounds /\ log' = log /\ task' = task
      /\ Orderly => \A w \in Workers, o \in DOMAIN log :
                        task[w][o].step \in UnlockedSteps => row[log[o]].lease > 1
  BY DEF Tick, partition, Orderly
<1>3. \A j \in Jobs : /\ row'[j].status = row[j].status
                      /\ row'[j].attempt = row[j].attempt
                      /\ row'[j].lease = IF row[j].lease > 0 THEN row[j].lease - 1 ELSE 0
  BY TickEffect
<1>4. ASSUME NEW w \in Workers, NEW o \in Offsets, task'[w][o].step \in UnlockedSteps, Orderly
      PROVE  row'[log[o]].lease > 0
  <2>1. o \in DOMAIN log /\ log[o] \in Jobs
    BY <1>2, <1>4 DEF TypeInv, InLog, ActiveSteps, UnlockedSteps
  <2>2. row[log[o]].lease > 1
    BY <1>2, <1>4, <2>1
  <2> QED
    BY <1>1, <1>3, <2>1, <2>2
<1> QED
  BY <1>2, <1>3, <1>4, SafeQuiet DEF Quiet, Active

\* A decision of the seller, saved on a job that nobody else has changed.
Saved(j) ==
    /\ Finalization(row[j], row'[j]) \/ Rejection(row[j], row'[j])
    /\ \A k \in Jobs \ {j} : row'[k] = row[k] /\ (Wiping(k) => Wiping(k)')
    /\ media' = media /\ rounds' = rounds /\ log' = log /\ task' = task

\* The cleanup of a reject, or its repetition.
Wipes(j) ==
    /\ Rests
    /\ row[j].status # "PROCESSING"
    /\ \A k \in Jobs \ {j} : media'[k] = media[k]
    /\ \A k \in Jobs : Wiping(k) => Wiping(k)'
    /\ row[j].status = "REVIEW_REQUIRED" => Wiping(j)'

\* A request that saves and removes nothing idles: what was cleaned up stays on record.
LEMMA RequestIdles ==
  ASSUME TypeInv, NEW j \in Jobs, NEW q \in Requests,
         ReadForApply(j, q) \/ ReadForReject(j, q) \/ LoadRecord(j, q) \/ Flush(j, q) \/ EndRequest(j, q)
  PROVE  Idles
<1>1. request \in RequestTypes /\ SellerStep(j, q)
  BY DEF TypeInv, TypeOK, RequestTypes, RequestType, SellerStep
<1>2. \A k \in Jobs, p \in Requests : k # j \/ p # q => request'[k][p] = request[k][p]
  BY <1>1, RequestsKeepType, RequestChange DEF Asked
<1>3. /\ row' = row /\ rounds' = rounds /\ media' = media /\ log' = log /\ task' = task
      /\ wiped \subseteq wiped'
      /\ request[j][q].step = "cleaned" => j \in wiped'
  BY DEF ReadForApply, ReadForReject, LoadRecord, Flush, EndRequest, partition
<1>4. ASSUME NEW k \in Jobs, Wiping(k) PROVE Wiping(k)'
  BY <1>2, <1>3, <1>4 DEF Wiping, BeingRejected
<1> QED
  BY <1>3, <1>4 DEF Idles, Rests

\* A cleanup is that of a job under review, or rejected already.
LEMMA RequestWipes ==
  ASSUME TypeInv, RequestInv, Orderly, NEW j \in Jobs, NEW q \in Requests,
         CleanUp(j, q) \/ Recleanup(j, q)
  PROVE  Wipes(j)
<1>1. /\ request \in RequestTypes /\ SellerStep(j, q) /\ row[j] \in Job
      /\ media \in [Jobs -> SUBSET Asset] /\ Sound(request[j][q], row[j])
  BY DEF TypeInv, TypeOK, RequestTypes, RequestType, SellerStep, RequestInv
<1>2. \A k \in Jobs, p \in Requests : k # j \/ p # q => request'[k][p] = request[k][p]
  BY <1>1, RequestsKeepType, RequestChange DEF Asked
<1>3. /\ row' = row /\ rounds' = rounds /\ log' = log /\ task' = task /\ wiped' = wiped
      /\ media' = [media EXCEPT ![j] = {}] /\ request[j][q].step # "cleaned"
  BY DEF CleanUp, Recleanup, partition
<1>4. \A k \in Jobs : Wiping(k) => Wiping(k)'
  BY <1>2, <1>3 DEF Wiping, BeingRejected
<1>a. CASE CleanUp(j, q)
  <2>1. Finalization(row[j], request[j][q].result) \/ Rejection(row[j], request[j][q].result)
    BY <1>1, <1>a DEF CleanUp, Sound
  <2>2. row[j].status # "PROCESSING"
    BY <1>1, <2>1, SavedJob
  <2>3. request'[j][q].step = "cleaned"
    BY <1>1, <1>a DEF CleanUp, Pass, RequestTypes, RequestType
  <2> QED
    BY <1>1, <1>3, <1>4, <2>2, <2>3 DEF Wipes, Rests, Wiping, BeingRejected
<1>b. CASE Recleanup(j, q)
  <2>1. row[j].status = "REJECTED"
    BY <1>1, <1>b DEF Recleanup, Sound
  <2> QED
    BY <1>1, <1>3, <1>4, <2>1 DEF Wipes, Rests
<1> QED
  BY <1>a, <1>b

\* A commit saves the decision.
LEMMA RequestSaves ==
  ASSUME TypeInv, RequestInv, Orderly, NEW j \in Jobs, NEW q \in Requests,
         SaveFinalizing(j, q) \/ SaveRejected(j, q)
  PROVE  Saved(j) /\ RequestInv'
<1>1. Commit(j, q) /\ request[j][q].step \in {"flushed", "cleaned"}
  BY DEF SaveFinalizing, SaveRejected
<1>2. /\ Finalization(row[j], row'[j]) \/ Rejection(row[j], row'[j])
      /\ \A k \in Jobs \ {j} : row'[k] = row[k]
      /\ RequestInv'
  BY <1>1, CommitSaves
<1>3. media' = media /\ rounds' = rounds /\ log' = log /\ task' = task
  BY DEF SaveFinalizing, SaveRejected, partition
<1>4. ASSUME NEW k \in Jobs \ {j}, Wiping(k) PROVE Wiping(k)'
  <2>1. \A p \in Requests : request'[k][p] = request[k][p]
    BY <1>1 DEF TypeInv, TypeOK, Commit, Close
  <2>2. k \in wiped => k \in wiped'
    BY <1>1 DEF Commit
  <2> QED
    BY <1>4, <2>1, <2>2 DEF Wiping, BeingRejected
<1> QED
  BY <1>2, <1>3, <1>4 DEF Saved

\* The steps, by what they mean to the jobs.
JobStep ==
    \/ Idles
    \/ \E j \in Jobs : Saved(j) \/ Wipes(j)
    \/ \E w \in Workers, o \in DOMAIN log :
           \/ ClaimJob(w, o) \/ StartGenerating(w, o) \/ GiveUp(w, o)
           \/ CallProviders(w, o) \/ Closes(w, o)
    \/ Tick

\* Every step is of one of these kinds.
LEMMA StepKinds ==
  ASSUME TypeInv, RequestInv, Orderly, AnyStep
  PROVE  JobStep
<1>a. CASE Relays
  BY <1>a, RelaysIdle DEF JobStep
<1>b. ASSUME (\E j \in Jobs : Publish(j) \/ Republish(j)) \/ PublishPoison PROVE JobStep
  BY <1>b, PublishRelays, RelaysIdle DEF JobStep
<1>c. ASSUME NEW w \in Workers, ConsumerStep(w) PROVE JobStep
  BY <1>c, ConsumerIdles DEF JobStep
<1>d. ASSUME NEW w \in Workers,
             Rebalance(w) \/ Crash(w) \/ \E o \in DOMAIN log : TaskError(w, o)
      PROVE  JobStep
  BY <1>d, FaultsIdle DEF JobStep
<1>e. ASSUME NEW w \in Workers, NEW o \in DOMAIN log, TaskStep(w, o) PROVE JobStep
  BY <1>e, SkipIdles DEF TaskStep, JobStep, Closes
<1>f. ASSUME NEW j \in Jobs, NEW q \in Requests, SaveFinalizing(j, q) \/ SellerStep(j, q)
      PROVE  JobStep
  BY <1>f, RequestIdles, RequestWipes, RequestSaves DEF JobStep, SellerStep
<1>g. CASE UNCHANGED vars
  BY <1>g, WipingKept DEF vars, partition, JobStep, Idles, Rests
<1>h. CASE Tick
  BY <1>h DEF JobStep
<1> QED
  BY <1>a, <1>b, <1>c, <1>d, <1>e, <1>f, <1>g, <1>h DEF AnyStep, Next

\* The seller only changes jobs under review, which no task is working on.
LEMMA SafeSaved ==
  ASSUME TypeInv, SafeInv, Orderly, NEW j \in Jobs, Saved(j)
  PROVE  SafeInv'
<1>1. row[j] \in Job
  BY DEF TypeInv, TypeOK
<1>2. row[j].status # "PROCESSING" /\ row'[j].attempt = row[j].attempt
  BY <1>1, SavedJob DEF Saved
<1>3. \A w \in Workers, o \in Offsets : Active(w, o) => log[o] # j
  BY <1>2 DEF SafeInv, JobOf
<1> QED
  BY <1>2, <1>3, SafeRelease DEF Release, Active, Saved

\* SafeInv is preserved by every step.
LEMMA SafeStep ==
  ASSUME TypeInv, SafeInv, RequestInv, AnyStep
  PROVE  SafeInv'
<1> SUFFICES ASSUME Orderly
             PROVE  SafeInv'
  BY DEF SafeInv
<1>1. JobStep
  BY StepKinds
<1>a. ASSUME Idles \/ \E j \in Jobs : Wipes(j) PROVE SafeInv'
  BY <1>a, SafeRests DEF Idles, Wipes
<1>b. ASSUME NEW j \in Jobs, Saved(j) PROVE SafeInv'
  BY <1>b, SafeSaved
<1>c. ASSUME NEW w \in Workers, NEW o \in DOMAIN log,
             \/ ClaimJob(w, o) \/ StartGenerating(w, o) \/ GiveUp(w, o)
             \/ CallProviders(w, o) \/ Closes(w, o)
      PROVE  SafeInv'
  BY <1>c, SafeClaim, SafeStart, SafePay, SafeClose
<1>d. CASE Tick
  BY <1>d, SafeTick
<1> QED
  BY <1>1, <1>a, <1>b, <1>c, <1>d DEF JobStep

\* A task ends on a job that is PROCESSING and leaves it without a lease.
LEMMA CloseRow ==
  ASSUME TypeInv, SafeInv, Orderly, NEW w \in Workers, NEW o \in DOMAIN log, Closes(w, o)
  PROVE  /\ row[log[o]].status = "PROCESSING" /\ row'[log[o]].lease = 0
         /\ \A k \in Jobs : k # log[o] => row'[k] = row[k]
<1> DEFINE j == log[o]
<1>1. row \in [Jobs -> Job] /\ o \in Offsets /\ Active(w, o)
  BY LogOffsets DEF TypeInv, TypeOK, Active, ActiveSteps, LockedSteps, UnlockedSteps, Closes,
                    SaveGivenUp, SaveCompleted, SaveCleanedUp, SaveFailed
<1>2. j \in Jobs /\ row[j] \in Job /\ row[j].status = "PROCESSING"
  BY <1>1 DEF TypeInv, InLog, SafeInv, Active, JobOf
<1>3. PICK job \in Job, record \in Job :
         /\ row' = [row EXCEPT ![j] = WriteBack(@, record, job)]
         /\ record = row[j] \/ (task[w][o].step = "givingup" /\ record = task[w][o].record)
         /\ job.lease = 0 /\ job.status \in {"FAILED", "REVIEW_REQUIRED"}
  BY CloseJob
<1>4. record.status = "PROCESSING"
  BY <1>1, <1>2, <1>3 DEF SafeInv
<1>5. row'[j] = WriteBack(row[j], record, job) /\ \A k \in Jobs : k # j => row'[k] = row[k]
  BY <1>1, <1>2, <1>3, SaveType
<1>6. row'[j].lease = 0
  BY <1>2, <1>3, <1>4, <1>5, WriteBackRun
<1> QED
  BY <1>2, <1>5, <1>6

\* Every other step leaves the requests alone, and the rows that have one.
LEMMA OthersKeepRequests ==
  ASSUME TypeInv, SafeInv, RequestInv, Orderly,
         request' = request,
         \/ row' = row \/ Tick
         \/ \E w \in Workers, o \in DOMAIN log : ClaimJob(w, o) \/ Closes(w, o)
  PROVE  RequestInv'
<1>1. row \in [Jobs -> Job]
  BY DEF TypeInv, TypeOK
<1>a. CASE row' = row
  BY <1>a, RequestsKept
<1>b. CASE Tick
  <2>1. ASSUME NEW j \in Jobs, row[j].status # "PROCESSING" PROVE row'[j] = row[j]
    <3>1. row[j] \in Job /\ row[j].lease = 0
      BY <1>1, <2>1 DEF RequestInv
    <3>2. row'[j] = [row[j] EXCEPT !.lease = 0]
      BY <1>b, <3>1 DEF Tick
    <3> QED
      BY <3>1, <3>2 DEF Job
  <2>2. \A j \in Jobs : row'[j].status = row[j].status
    BY <1>b, TickEffect
  <2> QED
    BY <2>1, <2>2, RequestsKept
<1>c. ASSUME NEW w \in Workers, NEW o \in DOMAIN log, ClaimJob(w, o) PROVE RequestInv'
  <2>1. /\ log[o] \in Jobs /\ row' = [row EXCEPT ![log[o]] = Claim(@)]
        /\ row[log[o]].status \in {"PENDING", "FAILED", "PROCESSING", "FINALIZING"}
    BY <1>c DEF ClaimJob, CanClaim
  <2>2. Claim(row[log[o]]).status = "PROCESSING"
    BY <1>1, <2>1, ClaimType
  <2>3. /\ row'[log[o]].status = "PROCESSING"
        /\ \A j \in Jobs : j # log[o] => row'[j] = row[j]
    BY <1>1, <2>1, <2>2
  <2>4. \A j \in Jobs :
           \/ row'[j] = row[j]
           \/ /\ row[j].status \in {"PENDING", "FAILED", "PROCESSING", "FINALIZING"}
              /\ row'[j].status # "PROCESSING" => row'[j].lease = 0
    BY <2>1, <2>3
  <2>5. request' = request
    OBVIOUS
  <2> QED
    BY <2>4, <2>5, RequestsKept
<1>d. ASSUME NEW w \in Workers, NEW o \in DOMAIN log, Closes(w, o) PROVE RequestInv'
  <2>1. \A j \in Jobs :
           row'[j] = row[j] \/ (row[j].status = "PROCESSING" /\ row'[j].lease = 0)
    BY <1>d, CloseRow
  <2> QED
    BY <2>1, RequestsKept
<1> QED
  BY <1>a, <1>b, <1>c, <1>d

\* RequestInv is preserved by every step.
LEMMA RequestStepKeeps ==
  ASSUME TypeInv, SafeInv, RequestInv, AnyStep
  PROVE  RequestInv'
<1> SUFFICES ASSUME Orderly
             PROVE  RequestInv'
  BY DEF RequestInv
<1>1. /\ request \in RequestTypes /\ row \in [Jobs -> Job]
      /\ \A j \in Jobs, q \in Requests : Sound(request[j][q], row[j])
  BY DEF TypeInv, TypeOK, RequestTypes, RequestType, RequestInv
<1>a. ASSUME NEW j \in Jobs, NEW q \in Requests, SaveFinalizing(j, q) \/ SaveRejected(j, q)
      PROVE  RequestInv'
  BY <1>a, RequestSaves
<1>b. ASSUME NEW j \in Jobs, NEW q \in Requests, ReadForApply(j, q) PROVE RequestInv'
  <2>1. PICK ids \in SUBSET row[j].outputs :
           CanFinalize(row[j], ids) /\ Decide(j, q, RequestFinalization(row[j], ids))
    BY <1>b DEF ReadForApply
  <2>2. PICK r : /\ Asked(j, q, r) /\ r.step = "decided"
                 /\ r.result = RequestFinalization(row[j], ids)
    BY <2>1, ResultType, DecideAsks
  <2>3. row[j].profile = "PREVIEW" /\ row' = row
    BY <1>b DEF ReadForApply
  <2> QED
    BY <2>1, <2>2, <2>3, RequestMoves DEF Sound, Finalization
<1>c. ASSUME NEW j \in Jobs, NEW q \in Requests, ReadForReject(j, q) PROVE RequestInv'
  <2>1. row' = row
    BY <1>c DEF ReadForReject
  <2>a. CASE CanMove(row[j], "REJECTED") /\ Decide(j, q, ReleaseLease(Transition(row[j], "REJECTED")))
    <3>1. PICK r : /\ Asked(j, q, r) /\ r.step = "decided"
                   /\ r.result = ReleaseLease(Transition(row[j], "REJECTED"))
      BY <2>a, ResultType, DecideAsks
    <3> QED
      BY <2>1, <2>a, <3>1, RequestMoves DEF Sound, Rejection
  <2>b. CASE row[j].status = "REJECTED" /\ Pass(j, q, "recleanup")
    <3>1. PICK r : Asked(j, q, r) /\ r.step = "recleanup"
      BY <1>1, <2>b, PassAsks
    <3> QED
      BY <2>1, <2>b, <3>1, RequestMoves DEF Sound
  <2> QED
    BY <1>c, <2>a, <2>b DEF ReadForReject
<1>d. ASSUME NEW j \in Jobs, NEW q \in Requests, LoadRecord(j, q) PROVE RequestInv'
  <2>1. PICK r : /\ Asked(j, q, r) /\ r.step = "loaded"
                 /\ r.result = request[j][q].result /\ r.record = row[j]
    BY <1>1, <1>d, LoadAsks
  <2>2. row' = row /\ request[j][q].step = "decided"
    BY <1>d DEF LoadRecord
  <2> QED
    BY <1>1, <2>1, <2>2, RequestMoves DEF Sound
<1>e. ASSUME NEW j \in Jobs, NEW q \in Requests, Flush(j, q) \/ CleanUp(j, q) PROVE RequestInv'
  <2>1. /\ row' = row /\ request[j][q].step \in {"loaded", "flushed"}
        /\ \/ Pass(j, q, "flushed")
           \/ Pass(j, q, "cleaned") /\ request[j][q].result.status = "REJECTED"
    BY <1>e DEF Flush, CleanUp
  <2>2. PICK r : /\ Asked(j, q, r)
                 /\ r.step = "flushed" \/ (r.step = "cleaned" /\ r.result.status = "REJECTED")
                 /\ r.result = request[j][q].result /\ r.record = request[j][q].record
    BY <1>1, <2>1, PassAsks
  <2> QED
    BY <1>1, <2>1, <2>2, RequestMoves DEF Sound
<1>f. ASSUME NEW j \in Jobs, NEW q \in Requests, Recleanup(j, q) \/ EndRequest(j, q) PROVE RequestInv'
  <2>1. Close(j, q) /\ row' = row
    BY <1>f DEF Recleanup, EndRequest
  <2> QED
    BY <2>1, CloseAsks, RequestMoves DEF Sound
<1>g. ASSUME \/ \E j \in Jobs : Publish(j) \/ Republish(j)
             \/ PublishPoison \/ Relays \/ UNCHANGED vars
             \/ \E w \in Workers : ConsumerStep(w) \/ Rebalance(w) \/ Crash(w)
             \/ \E w \in Workers, o \in DOMAIN log : TaskError(w, o)
      PROVE  RequestInv'
  <2>1. request' = request /\ row' = row
    BY <1>g DEF Publish, Republish, PublishPoison, Relays, vars, ConsumerStep, Poll, CommitOffset,
                StopAtError, CommitRejected, Rebalance, Crash, TaskError
  <2> QED
    BY <2>1, OthersKeepRequests
<1>h. ASSUME NEW w \in Workers, NEW o \in DOMAIN log, TaskStep(w, o) PROVE RequestInv'
  <2>1. /\ request' = request
        /\ row' = row \/ ClaimJob(w, o) \/ Closes(w, o)
    BY <1>h DEF TaskStep, Closes, SendDlq, ClaimJob, SkipMessage, GiveUp, SaveGivenUp, StartGenerating,
                CallProviders, SaveCompleted, SaveCleanedUp, SaveFailed
  <2> QED
    BY <2>1, OthersKeepRequests
<1>i. CASE Tick
  <2>1. request' = request
    BY <1>i DEF Tick
  <2> QED
    BY <1>i, <2>1, OthersKeepRequests
<1> QED
  BY <1>a, <1>b, <1>c, <1>d, <1>e, <1>f, <1>g, <1>h, <1>i DEF AnyStep, Next, SellerStep

\* The invariants of the workers are inductive together.
WorkerInv == TypeInv /\ SafeInv /\ RequestInv

LEMMA WorkerInvariance == Spec => []WorkerInv
<1>1. Init => WorkerInv
  BY TypeInit, SafeInit, RequestInit DEF WorkerInv
<1>2. WorkerInv /\ [Next]_vars => WorkerInv'
  BY TypeStep, SafeStep, RequestStepKeeps DEF AnyStep, WorkerInv
<1> QED
  BY <1>1, <1>2, PTL DEF Spec

\* When downloads end before the lease does and the seller's requests on a job come
\* one by one, no two tasks work on one job, whatever is redelivered to whichever
\* worker.
THEOREM OneTaskPerJobHolds ==
  ASSUME Prompt, OneByOne
  PROVE  Spec => []OneTaskPerJob
<1>1. WorkerInv => OneTaskPerJob
  <2> SUFFICES ASSUME WorkerInv
               PROVE  OneTaskPerJob
    OBVIOUS
  <2> QED
    BY LogOffsets DEF WorkerInv, SafeInv, OneTaskPerJob, Active, TypeInv, Orderly
<1> QED
  BY <1>1, WorkerInvariance, PTL

\* Under the same conditions a job never pays more rounds of provider calls than
\* it was claimed, nor more than AI_IMAGE_MAX_RETRY_ATTEMPTS.
THEOREM PaidRoundsStayCapped ==
  ASSUME Prompt, OneByOne
  PROVE  Spec => []PaidRoundsCapped
<1>1. WorkerInv => PaidRoundsCapped
  BY DEF WorkerInv, SafeInv, Orderly
<1> QED
  BY <1>1, WorkerInvariance, PTL
-----------------------------------------------------------------------------
(* What the seller is shown, and what it has cost.                         *)

LiveStatuses == {"PENDING", "PROCESSING", "FINALIZING", "REVIEW_REQUIRED", "REJECTED", "FAILED"}

\* A job always has something to do and, until it is applied, one of these
\* statuses; a task works on the run its row asks for.
RunInv ==
    Orderly =>
        /\ \A j \in Jobs : /\ row[j].sources # {} /\ row[j].modes # {}
                           /\ row[j].status \in LiveStatuses
        /\ \A w \in Workers, o \in Offsets : Active(w, o) =>
               /\ task[w][o].loaded.status = "PROCESSING"
               /\ SameRun(task[w][o].loaded, JobOf(o))
               /\ task[w][o].step = "givingup" => SameRun(task[w][o].record, JobOf(o))

\* The table after a task ended: its job keeps run and attempt, no other task is
\* left on it, and the other jobs are as they were.
Closed(w, o, j) ==
    /\ j = log[o] /\ j \in Jobs /\ Active(w, o)
    /\ \A k \in Jobs \ {j} : row'[k] = row[k]
    /\ SameRun(row'[j], row[j]) /\ row'[j].attempt = row[j].attempt
    /\ log' = log /\ rounds' = rounds
    /\ \A v \in Workers, p \in Offsets : Active(v, p)' =>
           Active(v, p) /\ task'[v][p] = task[v][p] /\ log[p] \in Jobs \ {j}
    /\ \/ row'[j].status = "FAILED"
       \/ /\ row'[j].status = "REVIEW_REQUIRED"
          /\ task[w][o].made # {} => row'[j].outputs = task[w][o].made
          /\ task[w][o].step = "ready" /\ media' = media
    /\ \A k \in Jobs : Wiping(k) => Wiping(k)'

\* A task that ends leaves the table so.
LEMMA CloseTable ==
  ASSUME TypeInv, SafeInv, RunInv, Orderly, NEW w \in Workers, NEW o \in DOMAIN log, Closes(w, o)
  PROVE  \E j \in Jobs : Closed(w, o, j)
<1> DEFINE j == log[o]
<1>1. /\ row \in [Jobs -> Job] /\ task \in Tasks /\ o \in Offsets
      /\ Active(w, o) /\ Ack(w, o)
  BY LogOffsets DEF TypeInv, TypeOK, Tasks, Task, Active, ActiveSteps, LockedSteps, UnlockedSteps, Closes,
                    SaveGivenUp, SaveCompleted, SaveCleanedUp, SaveFailed
<1>2. j \in Jobs /\ task[w][o].loaded \in Job /\ row[j] \in Job
  BY <1>1 DEF TypeInv, InLog, Active, Tasks, Task
<1>3. PICK job \in Job, record \in Job :
         /\ row' = [row EXCEPT ![j] = WriteBack(@, record, job)]
         /\ record = row[j] \/ (task[w][o].step = "givingup" /\ record = task[w][o].record)
         /\ job.attempt = task[w][o].loaded.attempt
         /\ SameRun(job, task[w][o].loaded)
         /\ \/ job.status = "FAILED"
            \/ /\ job.status = "REVIEW_REQUIRED" /\ job.outputs = task[w][o].made
               /\ SaveCompleted(w, o)
  BY CloseJob
<1>4. /\ row[j].status = "PROCESSING" /\ task[w][o].loaded.attempt = row[j].attempt
      /\ SameRun(task[w][o].loaded, row[j])
      /\ task[w][o].step = "givingup" =>
             task[w][o].record.status = "PROCESSING" /\ SameRun(task[w][o].record, row[j])
  BY <1>1 DEF SafeInv, RunInv, JobOf
<1>5. /\ row'[j] = WriteBack(row[j], record, job)
      /\ \A k \in Jobs : k # j => row'[k] = row[k]
  BY <1>1, <1>2, <1>3, SaveType
<1>6. row'[j].attempt = row[j].attempt /\ record.status = "PROCESSING" /\ SameRun(job, record)
  BY <1>2, <1>3, <1>4, <1>5, WriteBackType DEF SameRun
<1>7. /\ SameRun(row'[j], row[j])
      /\ row'[j].status = job.status
      /\ job.outputs # {} => row'[j].outputs = job.outputs
  BY <1>2, <1>3, <1>5, <1>6, WriteBackRun
<1>8. PICK t \in Task : task' = [task EXCEPT ![w][o] = t] /\ t.step = "acked"
  BY <1>1, AckTask
<1>9. /\ task'[w][o] = t
      /\ \A v \in Workers, p \in Offsets : v # w \/ p # o => task'[v][p] = task[v][p]
  BY <1>1, <1>8 DEF Tasks
<1>10. \A v \in Workers, p \in Offsets : Active(v, p)' =>
          task'[v][p] = task[v][p] /\ Active(v, p) /\ (v # w \/ p # o)
  BY <1>8, <1>9 DEF Active, ActiveSteps, LockedSteps, UnlockedSteps
<1>11. \A v \in Workers, p \in Offsets : Active(v, p)' => log[p] # j /\ log[p] \in Jobs
  BY <1>1, <1>10 DEF SafeInv, TypeInv, InLog, Active
<1>12. log' = log /\ rounds' = rounds
  BY DEF Closes, SaveGivenUp, SaveCompleted, SaveCleanedUp, SaveFailed, partition
<1>13. SaveCompleted(w, o) => task[w][o].step = "ready" /\ media' = media
  BY DEF SaveCompleted
<1>15. \A k \in Jobs : Wiping(k) => Wiping(k)'
  BY WipingKept DEF Closes, SaveGivenUp, SaveCompleted, SaveCleanedUp, SaveFailed
<1> HIDE DEF j
<1>14. j = log[o]
  BY DEF j
<1> QED
  BY <1>1, <1>2, <1>3, <1>5, <1>6, <1>7, <1>10, <1>11, <1>12, <1>13, <1>14, <1>15 DEF Closed

\* The claimed job, and who works on it: the claimant and nobody else.
Claimed(w, o, j) ==
    /\ j = log[o] /\ j \in Jobs
    /\ \A k \in Jobs \ {j} : row'[k] = row[k]
    /\ SameRun(row'[j], row[j]) /\ row'[j].status = "PROCESSING"
    /\ row[j].status \in {"PENDING", "FAILED", "PROCESSING", "FINALIZING"}
    /\ log' = log /\ rounds' = rounds /\ media' = media
    /\ task'[w][o].step = "claimed" /\ task'[w][o].loaded = row'[j]
    /\ \A v \in Workers, p \in Offsets : Active(v, p)' =>
           \/ v = w /\ p = o
           \/ Active(v, p) /\ task'[v][p] = task[v][p] /\ log[p] \in Jobs \ {j}
    /\ \A k \in Jobs : Wiping(k) => Wiping(k)'

\* A claim leaves the table so.
LEMMA ClaimTable ==
  ASSUME TypeInv, SafeInv, Orderly, NEW w \in Workers, NEW o \in DOMAIN log, ClaimJob(w, o)
  PROVE  \E j \in Jobs : Claimed(w, o, j)
<1> DEFINE j == log[o]
           t == [NoTask EXCEPT !.step = "claimed", !.loaded = Claim(row[j])]
<1>1. /\ row \in [Jobs -> Job] /\ task \in Tasks /\ o \in Offsets /\ j \in Jobs /\ row[j] \in Job
  BY LogOffsets DEF TypeInv, TypeOK, Tasks, Task, ClaimJob
<1>2. Claim(row[j]).status = "PROCESSING" /\ SameRun(Claim(row[j]), row[j])
  BY <1>1, ClaimType, ClaimRun
<1>3. t.step = "claimed" /\ t.loaded = Claim(row[j])
  BY BlankTask DEF Task
<1>4. /\ task' = [task EXCEPT ![w][o] = t]
      /\ row' = [row EXCEPT ![j] = Claim(@)]
      /\ log' = log /\ rounds' = rounds /\ media' = media
      /\ CanClaim(row[j])
  BY DEF ClaimJob, partition
<1> HIDE DEF t
<1>5. /\ task'[w][o] = t
      /\ \A v \in Workers, p \in Offsets : v # w \/ p # o => task'[v][p] = task[v][p]
  BY <1>1, <1>4 DEF Tasks
<1>6. row'[j] = Claim(row[j]) /\ \A k \in Jobs : k # j => row'[k] = row[k]
  BY <1>1, <1>4
<1>7. Active(w, o)'
  BY <1>3, <1>5 DEF Active, ActiveSteps, UnlockedSteps
<1>8. SafeInv'
  BY SafeClaim
<1>9. \A v \in Workers, p \in Offsets : Active(v, p)' => (v = w /\ p = o) \/ log[p] # j
  BY <1>1, <1>4, <1>7, <1>8 DEF SafeInv
<1>10. \A v \in Workers, p \in Offsets : Active(v, p)' /\ (v # w \/ p # o) =>
          Active(v, p) /\ task'[v][p] = task[v][p] /\ log[p] \in Jobs
  BY <1>5 DEF Active, TypeInv, InLog
<1> HIDE DEF j
<1>11. j = log[o]
  BY DEF j
<1>12. \A k \in Jobs : Wiping(k) => Wiping(k)'
  BY WipingKept DEF ClaimJob
<1> QED
  BY <1>1, <1>2, <1>3, <1>4, <1>5, <1>6, <1>9, <1>10, <1>11, <1>12 DEF Claimed, CanClaim

\* The seller decides on a job under review, which nobody works on.
Decided(j) ==
    /\ row[j].status = "REVIEW_REQUIRED"
    /\ \A k \in Jobs \ {j} : row'[k] = row[k] /\ (Wiping(k) => Wiping(k)')
    /\ media' = media /\ log' = log /\ rounds' = rounds /\ task' = task
    /\ \A v \in Workers, p \in Offsets : Active(v, p) => log[p] \in Jobs \ {j}
    /\ \/ /\ row'[j].status = "FINALIZING"
          /\ row[j].profile = "PREVIEW" /\ row'[j].profile = "FINAL"
          /\ row'[j].sources # {} /\ row'[j].modes = row[j].modes
       \/ row'[j].status = "REJECTED" /\ SameRun(row'[j], row[j])

\* A decision of the seller leaves the table so.
LEMMA SellerTable ==
  ASSUME TypeInv, SafeInv, RunInv, Orderly, NEW j \in Jobs, Saved(j)
  PROVE  Decided(j)
<1>1. row[j] \in Job /\ row[j].status \in LiveStatuses
  BY DEF TypeInv, TypeOK, RunInv
<1>2. row[j].status = "REVIEW_REQUIRED"
  BY <1>1, SavedJob DEF Saved, LiveStatuses
<1>3. \A v \in Workers, p \in Offsets : Active(v, p) => log[p] \in Jobs \ {j}
  BY <1>2 DEF SafeInv, JobOf, Active, TypeInv, InLog
<1>a. CASE Finalization(row[j], row'[j])
  <2>1. PICK ids : CanFinalize(row[j], ids) /\ row'[j] = RequestFinalization(row[j], ids)
    BY <1>a DEF Finalization
  <2>2. /\ row'[j].status = "FINALIZING" /\ row[j].profile = "PREVIEW"
        /\ row'[j].profile = "FINAL" /\ row'[j].sources # {}
        /\ row'[j].modes = row[j].modes
    BY <1>1, <1>a, <2>1, FinalizationType, FinalizationRun DEF Finalization, CanFinalize
  <2> QED
    BY <1>2, <1>3, <2>2 DEF Decided, Saved
<1>b. CASE Rejection(row[j], row'[j])
  <2>1. row'[j] = ReleaseLease(Transition(row[j], "REJECTED"))
    BY <1>b DEF Rejection
  <2>2. "REJECTED" \in Statuses
    BY DEF Statuses
  <2>3. row'[j].status = "REJECTED"
    BY <1>1, <2>1, <2>2, VerdictType
  <2>4. SameRun(row'[j], row[j])
    BY <1>1, <2>1, <2>2, VerdictRun
  <2> QED
    BY <1>2, <1>3, <2>3, <2>4 DEF Decided, Saved
<1> QED
  BY <1>a, <1>b DEF Saved

\* Time and the way to the provider calls change nothing of what a job asks for.
Waits ==
    /\ \A j \in Jobs : /\ row'[j].status = row[j].status /\ row'[j].attempt = row[j].attempt
                       /\ row'[j].outputs = row[j].outputs /\ SameRun(row'[j], row[j])
    /\ log' = log /\ rounds' = rounds /\ media' = media
    /\ \A v \in Workers, p \in Offsets :
           /\ task'[v][p].loaded = task[v][p].loaded
           /\ Active(v, p)' => Active(v, p)
           /\ task'[v][p].step = "ready" => task'[v][p] = task[v][p]
           /\ task'[v][p].step = "givingup" =>
                  task'[v][p] = task[v][p] \/ task'[v][p].record = row'[log[p]]
    /\ \A k \in Jobs : Wiping(k) => Wiping(k)'

\* Time only runs down leases.
LEMMA TickWaits ==
  ASSUME TypeInv, Tick
  PROVE  Waits
<1>1. row \in [Jobs -> Job] /\ task' = task /\ log' = log /\ rounds' = rounds /\ media' = media
  BY DEF TypeInv, TypeOK, Tick, partition
<1>2. ASSUME NEW job \in Job
      PROVE  LET aged == [job EXCEPT !.lease = IF @ > 0 THEN @ - 1 ELSE 0] IN
             aged.outputs = job.outputs /\ SameRun(aged, job)
  BY DEF Job, SameRun
<1>3. \A j \in Jobs : row'[j].outputs = row[j].outputs /\ SameRun(row'[j], row[j])
  BY <1>1, <1>2 DEF Tick
<1> QED
  BY <1>1, <1>3, TickEffect, WipingKept DEF Tick, Waits, Active

\* The way to the provider calls, or to giving up, only moves the task.
LEMMA StartWaits ==
  ASSUME TypeInv, NEW w \in Workers, NEW o \in DOMAIN log, StartGenerating(w, o) \/ GiveUp(w, o)
  PROVE  Waits
<1>1. /\ task \in Tasks /\ o \in Offsets /\ row \in [Jobs -> Job] /\ log[o] \in Jobs
      /\ row' = row /\ log' = log
      /\ rounds' = rounds /\ media' = media /\ task[w][o].step = "claimed"
      /\ \A k \in Jobs : Wiping(k) => Wiping(k)'
  BY LogOffsets, WipingKept DEF TypeInv, TypeOK, Tasks, Task, InLog, StartGenerating, GiveUp, partition,
                                ActiveSteps, UnlockedSteps
<1>2. PICK t \in Task :
         /\ task' = [task EXCEPT ![w][o] = t]
         /\ t.loaded = task[w][o].loaded
         /\ t.step = "generate" \/ (t.step = "givingup" /\ t.record = row[log[o]])
  <2>a. CASE StartGenerating(w, o)
    BY <1>1, <2>a, GotoTask DEF StartGenerating, Steps, ActiveSteps, LockedSteps, UnlockedSteps
  <2>b. CASE GiveUp(w, o)
    BY <1>1, <2>b, GiveUpTask
  <2> QED
    BY <2>a, <2>b
<1>3. /\ task'[w][o] = t
      /\ \A v \in Workers, p \in Offsets : v # w \/ p # o => task'[v][p] = task[v][p]
  BY <1>1, <1>2 DEF Tasks
<1>4. \A v \in Workers, p \in Offsets :
           /\ task'[v][p].loaded = task[v][p].loaded
           /\ Active(v, p)' => Active(v, p)
           /\ task'[v][p].step = "ready" => task'[v][p] = task[v][p]
           /\ task'[v][p].step = "givingup" =>
                  task'[v][p] = task[v][p] \/ task'[v][p].record = row'[log[p]]
  BY <1>1, <1>2, <1>3 DEF Active, ActiveSteps, UnlockedSteps
<1> QED
  BY <1>1, <1>4 DEF Waits, SameRun

\* What a run may produce, of a job that asks for something.
LEMMA TargetsOfRun ==
  ASSUME NEW job \in Job, job.sources # {}, job.modes # {}, NEW targets \in Targets(job)
  PROVE  targets # {} /\ \A a \in targets : a.profile = job.profile /\ a.attempt = job.attempt
<1>1. PICK sources \in SUBSET job.sources :
        /\ targets = {[source |-> s, mode |-> m, profile |-> job.profile, attempt |-> job.attempt] :
                          s \in sources, m \in job.modes}
        /\ sources # {}
  BY DEF Targets
<1>2. PICK s \in sources, m \in job.modes : TRUE
  BY <1>1
<1>3. [source |-> s, mode |-> m, profile |-> job.profile, attempt |-> job.attempt] \in targets
  BY <1>1, <1>2
<1>4. \A a \in targets : a.profile = job.profile /\ a.attempt = job.attempt
  BY <1>1
<1> QED
  BY <1>3, <1>4

\* A task that paid for its round and has everything ready has made, of the run
\* its row asks for, something the Media Service holds.
Paid(w, o, j) ==
    /\ j = log[o] /\ j \in Jobs /\ Active(w, o) /\ o \in Offsets
    /\ row' = row /\ log' = log
    /\ rounds' = [rounds EXCEPT ![j] = @ + 1]
    /\ \A k \in Jobs : media[k] \subseteq media'[k]
    /\ task'[w][o].loaded = task[w][o].loaded
    /\ task'[w][o].step = "ready" =>
           /\ task'[w][o].made # {} /\ task'[w][o].made \subseteq media'[j]
           /\ \A a \in task'[w][o].made : a.profile = row[j].profile /\ a.attempt = row[j].attempt
    /\ task'[w][o].step # "givingup"
    /\ \A v \in Workers, p \in Offsets : v # w \/ p # o => task'[v][p] = task[v][p]
    /\ \A k \in Jobs : Wiping(k) => Wiping(k)'

\* Provider calls leave the table so.
LEMMA PayTable ==
  ASSUME TypeInv, SafeInv, RunInv, Orderly, NEW w \in Workers, NEW o \in DOMAIN log,
         CallProviders(w, o)
  PROVE  \E j \in Jobs : Paid(w, o, j)
<1> DEFINE j == log[o]
           job == task[w][o].loaded
<1>1. /\ row \in [Jobs -> Job] /\ task \in Tasks /\ o \in Offsets
      /\ media \in [Jobs -> SUBSET Asset] /\ Active(w, o)
  BY LogOffsets DEF TypeInv, TypeOK, Tasks, Task, CallProviders, Active, ActiveSteps, LockedSteps, UnlockedSteps
<1>2. j \in Jobs /\ job \in Job
  BY <1>1 DEF TypeInv, InLog, Active, Tasks, Task
<1>3. /\ job.profile = row[j].profile /\ job.attempt = row[j].attempt
      /\ job.sources # {} /\ job.modes # {}
  BY <1>1, <1>2 DEF SafeInv, RunInv, SameRun, JobOf
<1>4. PICK targets \in Targets(job) : \E u \in Uploads(targets) :
         /\ media' = [media EXCEPT ![j] = @ \cup u.stored]
         /\ \E step \in StepAfter(targets, u.reported) :
                task' = [task EXCEPT ![w][o].step = step, ![w][o].made = u.reported]
  BY DEF CallProviders
<1>5. PICK u \in Uploads(targets) :
         /\ media' = [media EXCEPT ![j] = @ \cup u.stored]
         /\ \E step \in StepAfter(targets, u.reported) :
                task' = [task EXCEPT ![w][o].step = step, ![w][o].made = u.reported]
  BY <1>4
<1>6. PICK step \in StepAfter(targets, u.reported) :
         task' = [task EXCEPT ![w][o].step = step, ![w][o].made = u.reported]
  BY <1>5
<1>7. /\ targets # {}
      /\ \A a \in targets : a.profile = row[j].profile /\ a.attempt = row[j].attempt
  BY <1>2, <1>3, TargetsOfRun
<1>8. u.reported \subseteq u.stored /\ (step = "ready" => u.reported = targets) /\ step # "givingup"
  BY DEF Uploads, StepAfter
<1> DEFINE t == [task[w][o] EXCEPT !.step = step, !.made = u.reported]
<1>9. t.step = step /\ t.made = u.reported /\ t.loaded = job
  <2>1. ASSUME NEW old \in Task, NEW made
        PROVE  /\ [old EXCEPT !.step = step, !.made = made].step = step
               /\ [old EXCEPT !.step = step, !.made = made].made = made
               /\ [old EXCEPT !.step = step, !.made = made].loaded = old.loaded
    BY DEF Task
  <2>2. task[w][o] \in Task
    BY <1>1 DEF Tasks
  <2> QED
    BY <2>1, <2>2
<1>10. task' = [task EXCEPT ![w][o] = t]
  BY <1>1, <1>6 DEF Tasks
<1> HIDE DEF t
<1>11. /\ task'[w][o] = t
       /\ \A v \in Workers, p \in Offsets : v # w \/ p # o => task'[v][p] = task[v][p]
  BY <1>1, <1>10 DEF Tasks
<1>12. media'[j] = media[j] \cup u.stored /\ \A k \in Jobs : media[k] \subseteq media'[k]
  BY <1>1, <1>2, <1>5
<1>13. rounds' = [rounds EXCEPT ![j] = @ + 1] /\ row' = row /\ log' = log
  BY DEF CallProviders, PayRound, partition
<1>14. task'[w][o].step = "ready" =>
           /\ task'[w][o].made # {} /\ task'[w][o].made \subseteq media'[j]
           /\ \A a \in task'[w][o].made : a.profile = row[j].profile /\ a.attempt = row[j].attempt
  BY <1>7, <1>8, <1>9, <1>11, <1>12
<1>15. \A k \in Jobs : Wiping(k) => Wiping(k)'
  BY WipingKept DEF CallProviders
<1> QED
  BY <1>1, <1>2, <1>8, <1>9, <1>11, <1>12, <1>13, <1>14, <1>15 DEF Paid

\* What is ready has been made for the run the row asks for and is stored; and so
\* are the outputs under review, unless a reject removed them.
ReviewInv ==
    Orderly =>
        /\ \A w \in Workers, o \in Offsets : task[w][o].step = "ready" =>
               /\ task[w][o].made # {} /\ task[w][o].made \subseteq media[log[o]]
               /\ \A a \in task[w][o].made :
                      a.profile = JobOf(o).profile /\ a.attempt = JobOf(o).attempt
        /\ ReviewedOutputsExist

\* A preview costs a round and the final images another one.
PaidInv ==
    Orderly =>
        /\ \A j \in Jobs :
               row[j].profile = "FINAL" \/ row[j].status = "REVIEW_REQUIRED" => rounds[j] >= 1
        /\ \A w \in Workers, o \in Offsets : task[w][o].step = "ready" =>
               rounds[log[o]] >= IF JobOf(o).profile = "FINAL" THEN 2 ELSE 1

ShownInv == RunInv /\ ReviewInv /\ PaidInv

\* At first nothing is under way or under review.
LEMMA ShownInit ==
  ASSUME Init
  PROVE  ShownInv
<1>1. \A w \in Workers, o \in Offsets : ~Active(w, o) /\ task[w][o].step = "none"
  BY BlankTask DEF Init, Active, ActiveSteps, LockedSteps, UnlockedSteps
<1>2. \A j \in Jobs : /\ row[j].status = "PENDING" /\ row[j].profile = "PREVIEW"
                      /\ row[j].sources = Sources /\ row[j].modes = Modes
  BY DEF Init, NewJob
<1> QED
  BY <1>1, <1>2, JobAssumption
  DEF ShownInv, RunInv, ReviewInv, PaidInv, ReviewedOutputsExist, LiveStatuses

\* A task under way is about a job of the log, ready or not.
LEMMA ActiveLogged ==
  ASSUME TypeInv
  PROVE  \A w \in Workers, o \in Offsets :
            /\ Active(w, o) => o \in DOMAIN log /\ log[o] \in Jobs
            /\ task[w][o].step = "ready" => Active(w, o)
  BY DEF TypeInv, InLog, Active, ActiveSteps, LockedSteps, UnlockedSteps

\* Steps that change no job keep what is shown.
LEMMA ShownIdles ==
  ASSUME TypeInv, ShownInv, Orderly, Idles
  PROVE  ShownInv'
<1>1. \A w \in Workers, o \in Offsets : Active(w, o)' =>
         /\ Active(w, o) /\ task'[w][o] = task[w][o]
         /\ log'[o] = log[o] /\ JobOf(o)' = JobOf(o)
  BY ActiveLogged DEF Idles, Rests, Active, JobOf
<1>2. \A w \in Workers, o \in Offsets : task'[w][o].step = "ready" => Active(w, o)'
  BY DEF Active, ActiveSteps, LockedSteps, UnlockedSteps
<1>3. RunInv'
  BY <1>1 DEF ShownInv, RunInv, Idles, Rests
<1>4. ReviewInv'
  BY <1>1, <1>2 DEF ShownInv, ReviewInv, Idles, Rests, ReviewedOutputsExist, Wiping
<1>5. PaidInv'
  BY <1>1, <1>2 DEF ShownInv, PaidInv, Idles, Rests
<1> QED
  BY <1>3, <1>4, <1>5 DEF ShownInv

\* A cleanup is on record and out of reach of the tasks.
LEMMA ShownWipes ==
  ASSUME TypeInv, SafeInv, ShownInv, Orderly, NEW j \in Jobs, Wipes(j)
  PROVE  ShownInv'
<1>1. \A w \in Workers, o \in Offsets : Active(w, o)' =>
         /\ Active(w, o) /\ task'[w][o] = task[w][o]
         /\ log'[o] = log[o] /\ JobOf(o)' = JobOf(o) /\ log[o] \in Jobs \ {j}
  BY ActiveLogged DEF Wipes, Rests, Active, JobOf, SafeInv
<1>2. \A w \in Workers, o \in Offsets : task'[w][o].step = "ready" => Active(w, o)'
  BY DEF Active, ActiveSteps, LockedSteps, UnlockedSteps
<1>3. RunInv'
  BY <1>1 DEF ShownInv, RunInv, Wipes, Rests
<1>4. ReviewInv'
  BY <1>1, <1>2 DEF ShownInv, ReviewInv, Wipes, Rests, ReviewedOutputsExist, Wiping
<1>5. PaidInv'
  BY <1>1, <1>2 DEF ShownInv, PaidInv, Wipes, Rests
<1> QED
  BY <1>3, <1>4, <1>5 DEF ShownInv

\* Waiting keeps what is shown.
LEMMA ShownWaits ==
  ASSUME TypeInv, ShownInv, Orderly, Waits
  PROVE  ShownInv'
<1>1. \A w \in Workers, o \in Offsets : Active(w, o)' => Active(w, o) /\ log[o] \in Jobs
  BY ActiveLogged DEF Waits
<1>2. \A w \in Workers, o \in Offsets : task'[w][o].step = "ready" =>
         task'[w][o] = task[w][o] /\ log[o] \in Jobs
  BY ActiveLogged DEF Waits
<1>3. RunInv'
  BY <1>1 DEF ShownInv, RunInv, Waits, JobOf, SameRun
<1>4. ReviewInv'
  BY <1>2 DEF ShownInv, ReviewInv, Waits, ReviewedOutputsExist, Wiping, JobOf, SameRun
<1>5. PaidInv'
  BY <1>2 DEF ShownInv, PaidInv, Waits, JobOf, SameRun
<1> QED
  BY <1>3, <1>4, <1>5 DEF ShownInv

\* A claim starts the same run over.
LEMMA ShownClaim ==
  ASSUME TypeInv, ShownInv, Orderly, NEW w \in Workers, NEW o \in Offsets, NEW j \in Jobs,
         Claimed(w, o, j)
  PROVE  ShownInv'
<1>1. \A v \in Workers, p \in Offsets : Active(v, p)' =>
         \/ v = w /\ p = o
         \/ /\ Active(v, p) /\ task'[v][p] = task[v][p]
            /\ log[p] \in Jobs /\ JobOf(p)' = JobOf(p)
  BY DEF Claimed, JobOf
<1>2. \A v \in Workers, p \in Offsets : task'[v][p].step = "ready" =>
         /\ task'[v][p] = task[v][p] /\ JobOf(p)' = JobOf(p)
  <2>1. \A v \in Workers, p \in Offsets : task'[v][p].step = "ready" => Active(v, p)'
    BY DEF Active, ActiveSteps, LockedSteps, UnlockedSteps
  <2> QED
    BY <1>1, <2>1 DEF Claimed
<1>3. RunInv'
  <2>1. JobOf(o)' = row'[j]
    BY DEF Claimed, JobOf
  <2>2. \A v \in Workers, p \in Offsets : Active(v, p)' =>
           task'[v][p].loaded.status = "PROCESSING" /\ SameRun(task'[v][p].loaded, JobOf(p)')
    BY <1>1, <2>1 DEF ShownInv, RunInv, Claimed, SameRun
  <2>4. \A v \in Workers, p \in Offsets : Active(v, p)' /\ task'[v][p].step = "givingup" =>
           SameRun(task'[v][p].record, JobOf(p)')
    BY <1>1 DEF ShownInv, RunInv, Claimed
  <2>3. \A k \in Jobs : /\ row'[k].sources # {} /\ row'[k].modes # {}
                        /\ row'[k].status \in LiveStatuses
    BY DEF ShownInv, RunInv, Claimed, SameRun, LiveStatuses
  <2> QED
    BY <2>2, <2>3, <2>4 DEF RunInv
<1>4. ReviewInv'
  <2>1. ReviewedOutputsExist'
    BY DEF ShownInv, ReviewInv, ReviewedOutputsExist, Claimed, Wiping
  <2> QED
    BY <1>2, <2>1 DEF ShownInv, ReviewInv, Claimed
<1>5. PaidInv'
  <2>1. \A k \in Jobs :
           row'[k].profile = "FINAL" \/ row'[k].status = "REVIEW_REQUIRED" => rounds'[k] >= 1
    BY DEF ShownInv, PaidInv, Claimed, SameRun
  <2> QED
    BY <1>2, <2>1 DEF ShownInv, PaidInv, Claimed
<1> QED
  BY <1>3, <1>4, <1>5 DEF ShownInv

\* What a completed job shows was ready; a failed one shows nothing.
LEMMA ShownClose ==
  ASSUME TypeInv, ShownInv, Orderly, NEW w \in Workers, NEW o \in Offsets, NEW j \in Jobs,
         Closed(w, o, j), \A k \in Jobs \ {j} : media'[k] = media[k]
  PROVE  ShownInv'
<1>1. \A v \in Workers, p \in Offsets : Active(v, p)' =>
         /\ Active(v, p) /\ task'[v][p] = task[v][p]
         /\ log[p] \in Jobs \ {j} /\ JobOf(p)' = JobOf(p)
  BY DEF Closed, JobOf
<1>2. \A v \in Workers, p \in Offsets : task'[v][p].step = "ready" => Active(v, p)'
  BY DEF Active, ActiveSteps, LockedSteps, UnlockedSteps
<1>3. RunInv'
  <2>1. \A k \in Jobs : /\ row'[k].sources # {} /\ row'[k].modes # {}
                        /\ row'[k].status \in LiveStatuses
    BY DEF ShownInv, RunInv, Closed, SameRun, LiveStatuses
  <2> QED
    BY <1>1, <2>1 DEF ShownInv, RunInv
<1>4. ReviewInv'
  <2>1. ASSUME row'[j].status = "REVIEW_REQUIRED"
        PROVE  /\ row'[j].outputs # {}
               /\ row'[j].outputs \subseteq media'[j]
               /\ \A a \in row'[j].outputs : a.profile = row'[j].profile /\ a.attempt = row'[j].attempt
    BY <2>1 DEF ShownInv, ReviewInv, Closed, JobOf, SameRun
  <2>2. ReviewedOutputsExist'
    BY <2>1 DEF ShownInv, ReviewInv, ReviewedOutputsExist, Closed, Wiping
  <2> QED
    BY <1>1, <1>2, <2>2 DEF ShownInv, ReviewInv, Closed
<1>5. PaidInv'
  <2>1. row'[j].status = "REVIEW_REQUIRED" \/ row'[j].profile = "FINAL" => rounds'[j] >= 1
    <3>1. rounds[j] \in Nat
      BY DEF TypeInv, TypeOK
    <3> QED
      BY <3>1 DEF ShownInv, PaidInv, Closed, JobOf, SameRun
  <2>2. \A k \in Jobs :
           row'[k].profile = "FINAL" \/ row'[k].status = "REVIEW_REQUIRED" => rounds'[k] >= 1
    BY <2>1 DEF ShownInv, PaidInv, Closed
  <2> QED
    BY <1>1, <1>2, <2>2 DEF ShownInv, PaidInv, Closed
<1> QED
  BY <1>3, <1>4, <1>5 DEF ShownInv

\* What is ready is paid for and stored.
LEMMA ShownPaid ==
  ASSUME TypeInv, SafeInv, ShownInv, Orderly, NEW w \in Workers, NEW o \in Offsets, NEW j \in Jobs,
         Paid(w, o, j)
  PROVE  ShownInv'
<1>1. \A v \in Workers, p \in Offsets :
         /\ JobOf(p)' = JobOf(p)
         /\ Active(v, p)' => /\ Active(v, p) /\ log[p] \in Jobs
                             /\ task'[v][p].loaded = task[v][p].loaded
  BY ActiveLogged DEF Paid, JobOf, Active
<1>2. \A v \in Workers, p \in Offsets : task'[v][p].step = "ready" =>
         (v = w /\ p = o) \/ (task'[v][p] = task[v][p] /\ log[p] \in Jobs)
  BY ActiveLogged DEF Paid
<1>3. RunInv'
  BY <1>1 DEF ShownInv, RunInv, Paid
<1>4. ReviewInv'
  <2>1. ReviewedOutputsExist'
    BY DEF ShownInv, ReviewInv, ReviewedOutputsExist, Paid, Wiping
  <2>2. ASSUME NEW v \in Workers, NEW p \in Offsets, task'[v][p].step = "ready"
        PROVE  /\ task'[v][p].made # {} /\ task'[v][p].made \subseteq media'[log'[p]]
               /\ \A a \in task'[v][p].made :
                      a.profile = JobOf(p)'.profile /\ a.attempt = JobOf(p)'.attempt
    <3>a. CASE v = w /\ p = o
      BY <1>1, <2>2, <3>a DEF Paid, JobOf
    <3>b. CASE task'[v][p] = task[v][p] /\ log[p] \in Jobs
      BY <1>1, <2>2, <3>b DEF Paid, ShownInv, ReviewInv
    <3> QED
      BY <1>2, <2>2, <3>a, <3>b
  <2> QED
    BY <2>1, <2>2 DEF ReviewInv
<1>5. PaidInv'
  <2>1. rounds \in [Jobs -> Nat]
    BY DEF TypeInv, TypeOK
  <2>2. \A k \in Jobs : rounds'[k] \in Nat /\ rounds'[k] >= rounds[k]
    BY <2>1 DEF Paid
  <2>3. \A k \in Jobs :
           row'[k].profile = "FINAL" \/ row'[k].status = "REVIEW_REQUIRED" => rounds'[k] >= 1
    BY <2>1, <2>2 DEF ShownInv, PaidInv, Paid
  <2>4. rounds'[j] >= IF row[j].profile = "FINAL" THEN 2 ELSE 1
    <3>1. rounds'[j] = rounds[j] + 1 /\ rounds[j] \in Nat
      BY <2>1 DEF Paid
    <3>2. row[j].profile = "FINAL" => rounds[j] >= 1
      BY DEF ShownInv, PaidInv
    <3> QED
      BY <3>1, <3>2
  <2>5. ASSUME NEW v \in Workers, NEW p \in Offsets, task'[v][p].step = "ready"
        PROVE  rounds'[log'[p]] >= IF JobOf(p)'.profile = "FINAL" THEN 2 ELSE 1
    <3>a. CASE v = w /\ p = o
      BY <1>1, <2>4, <3>a DEF Paid, JobOf
    <3>b. CASE task'[v][p] = task[v][p] /\ log[p] \in Jobs
      <4>1. rounds[log[p]] >= IF JobOf(p).profile = "FINAL" THEN 2 ELSE 1
        BY <2>5, <3>b DEF ShownInv, PaidInv
      <4>2. rounds'[log[p]] >= rounds[log[p]] /\ rounds'[log[p]] \in Nat /\ rounds[log[p]] \in Nat
        BY <2>1, <2>2, <3>b
      <4>3. log' = log /\ JobOf(p)' = JobOf(p)
        BY <1>1 DEF Paid
      <4> QED
        BY <4>1, <4>2, <4>3
    <3> QED
      BY <1>2, <2>5, <3>a, <3>b
  <2> QED
    BY <2>3, <2>5 DEF PaidInv
<1> QED
  BY <1>3, <1>4, <1>5 DEF ShownInv

\* An approved job starts a paid run over; a rejected one shows nothing.
LEMMA ShownSeller ==
  ASSUME TypeInv, ShownInv, Orderly, NEW j \in Jobs, Decided(j)
  PROVE  ShownInv'
<1>1. \A v \in Workers, p \in Offsets : Active(v, p)' =>
         Active(v, p) /\ log[p] \in Jobs \ {j} /\ JobOf(p)' = JobOf(p)
  BY DEF Decided, JobOf, Active
<1>2. \A v \in Workers, p \in Offsets : task'[v][p].step = "ready" => Active(v, p)'
  BY DEF Active, ActiveSteps, LockedSteps, UnlockedSteps
<1>3. RunInv'
  <2>1. \A k \in Jobs : /\ row'[k].sources # {} /\ row'[k].modes # {}
                        /\ row'[k].status \in LiveStatuses
    BY DEF ShownInv, RunInv, Decided, SameRun, LiveStatuses
  <2> QED
    BY <1>1, <2>1 DEF ShownInv, RunInv, Decided
<1>4. ReviewInv'
  <2>1. ReviewedOutputsExist'
    BY DEF ShownInv, ReviewInv, ReviewedOutputsExist, Decided, Wiping
  <2> QED
    BY <1>1, <1>2, <2>1 DEF ShownInv, ReviewInv, Decided
<1>5. PaidInv'
  <2>1. \A k \in Jobs :
           row'[k].profile = "FINAL" \/ row'[k].status = "REVIEW_REQUIRED" => rounds'[k] >= 1
    BY DEF ShownInv, PaidInv, Decided, SameRun
  <2> QED
    BY <1>1, <1>2, <2>1 DEF ShownInv, PaidInv, Decided
<1> QED
  BY <1>3, <1>4, <1>5 DEF ShownInv

\* A cleanup removes images of its own job only.
LEMMA CloseMedia ==
  ASSUME TypeInv, NEW w \in Workers, NEW o \in DOMAIN log, Closes(w, o)
  PROVE  \A k \in Jobs : k # log[o] => media'[k] = media[k]
  BY DEF TypeInv, TypeOK, Closes, SaveGivenUp, SaveCompleted, SaveCleanedUp, SaveFailed

\* ShownInv is preserved by every step.
LEMMA ShownStep ==
  ASSUME TypeInv, SafeInv, RequestInv, ShownInv, Orderly, AnyStep
  PROVE  ShownInv'
<1>1. JobStep /\ RunInv /\ DOMAIN log \subseteq Offsets
  BY StepKinds, LogOffsets DEF ShownInv, TypeInv
<1>a. CASE Idles
  BY <1>a, ShownIdles
<1>b. ASSUME NEW j \in Jobs, Saved(j) \/ Wipes(j) PROVE ShownInv'
  BY <1>1, <1>b, SellerTable, ShownSeller, ShownWipes
<1>c. ASSUME NEW w \in Workers, NEW o \in DOMAIN log, ClaimJob(w, o) PROVE ShownInv'
  BY <1>1, <1>c, ClaimTable, ShownClaim
<1>d. ASSUME NEW w \in Workers, NEW o \in DOMAIN log, StartGenerating(w, o) \/ GiveUp(w, o)
      PROVE  ShownInv'
  BY <1>d, StartWaits, ShownWaits
<1>e. ASSUME NEW w \in Workers, NEW o \in DOMAIN log, CallProviders(w, o) PROVE ShownInv'
  BY <1>1, <1>e, PayTable, ShownPaid
<1>f. ASSUME NEW w \in Workers, NEW o \in DOMAIN log, Closes(w, o) PROVE ShownInv'
  <2>1. PICK j \in Jobs : Closed(w, o, j)
    BY <1>1, <1>f, CloseTable
  <2>2. \A k \in Jobs \ {j} : media'[k] = media[k]
    BY <1>f, <2>1, CloseMedia DEF Closed
  <2> QED
    BY <1>1, <2>1, <2>2, ShownClose
<1>g. CASE Tick
  BY <1>g, TickWaits, ShownWaits
<1> QED
  BY <1>1, <1>a, <1>b, <1>c, <1>d, <1>e, <1>f, <1>g DEF JobStep
-----------------------------------------------------------------------------
(* The pipeline: the workers fed by the outbox.                            *)

\* What the outbox knows of: events of jobs, and nothing is recorded as
\* published or put on the topic that was not committed, and sent.
OutboxInv ==
    /\ pending \subseteq Events /\ published \subseteq Events /\ deadLettered \subseteq Events
    /\ published \subseteq topic
    /\ topic \subseteq Delivery!Known

\* The steps of Pipeline are those of ImageWorker and of its relay.
LEMMA PipelineSteps ==
  ASSUME TypeInv, OutboxInv, [PipelineNext]_pipelineVars
  PROVE  AnyStep /\ OutboxInv'
<1>1. owed \subseteq Jobs
  BY DEF TypeInv, TypeOK
<1>a. ASSUME NEW e \in Events, Deliver(e) PROVE Relays /\ OutboxInv'
  <2>1. /\ e \in Delivery!Known /\ topic' = topic \cup {e}
        /\ UNCHANGED <<pending, published, deadLettered>>
    BY <1>a DEF Deliver, Delivery!HandOver
  <2>2. Undelivered' \subseteq Jobs
    BY <2>1 DEF Undelivered, OutboxInv, Events
  <2>3. e[1] \in Jobs
    BY DEF Events
  <2>4. OutboxInv'
    BY <2>1 DEF OutboxInv, Delivery!Known
  <2> QED
    BY <1>a, <2>2, <2>3, <2>4 DEF Deliver, Relays
<1>b. ASSUME NEW e \in Events, RecordPublished(e) PROVE UNCHANGED vars /\ OutboxInv'
  BY <1>b DEF RecordPublished, Delivery!Publish, OutboxInv, Delivery!Known
<1>c. ASSUME NEW e \in Events, DeliverDead(e) PROVE UNCHANGED vars /\ OutboxInv'
  BY <1>c DEF DeliverDead, Delivery!HandOverDead, OutboxInv, Delivery!Known
<1>d. ASSUME NEW e \in Events, RecordDead(e) PROVE Relays /\ OutboxInv'
  <2>1. OutboxInv'
    BY <1>d DEF RecordDead, Delivery!DeadLetter, OutboxInv, Delivery!Known
  <2>2. Undelivered' \subseteq Jobs
    BY <2>1 DEF Undelivered, OutboxInv, Events
  <2> QED
    BY <1>d, <2>1, <2>2 DEF RecordDead, Relays, partition
<1>e. ASSUME NEW j \in Jobs, NEW q \in Requests, SellerApproves(j, q) PROVE Next /\ OutboxInv'
  <2>1. <<j, "FINAL">> \in Events
    BY DEF Events, Profiles
  <2>2. OutboxInv'
    BY <1>e, <2>1 DEF SellerApproves, Delivery!Enqueue, OutboxInv, Delivery!Known
  <2> QED
    BY <1>e, <2>2 DEF SellerApproves, Next
<1>f. ASSUME \/ \E j \in Jobs, q \in Requests : RequestStep(j, q)
             \/ \E w \in Workers : WorkerStep(w)
             \/ \E w \in Workers, o \in DOMAIN log : MessageStep(w, o)
             \/ TimeStep
      PROVE  Next /\ UNCHANGED outbox
  BY <1>f DEF RequestStep, WorkerStep, MessageStep, TimeStep, Next
<1>g. ASSUME UNCHANGED outbox PROVE OutboxInv'
  BY <1>g DEF outbox, OutboxInv, Delivery!Known
<1>h. ASSUME UNCHANGED pipelineVars PROVE UNCHANGED vars /\ UNCHANGED outbox
  BY <1>h DEF pipelineVars
<1> QED
  BY <1>a, <1>b, <1>c, <1>d, <1>e, <1>f, <1>g, <1>h DEF PipelineNext, RelayStep, AnyStep

\* At first the outbox holds the preview events.
LEMMA OutboxInit ==
  ASSUME PipelineInit
  PROVE  OutboxInv
  BY DEF PipelineInit, OutboxInv, Events, Profiles, Delivery!Known

\* The invariants of the workers, in the pipeline.
PipelineInv == TypeInv /\ SafeInv /\ RequestInv /\ HandledInv /\ ShownInv /\ OutboxInv

\* PipelineInv is preserved by every step of the pipeline.
LEMMA PipelineInvStep ==
  ASSUME PipelineInv, Orderly, [PipelineNext]_pipelineVars
  PROVE  PipelineInv' /\ AnyStep
<1>1. AnyStep /\ OutboxInv'
  BY PipelineSteps DEF PipelineInv
<1>2. TypeInv' /\ SafeInv' /\ RequestInv' /\ HandledInv' /\ ShownInv'
  BY <1>1, TypeStep, SafeStep, RequestStepKeeps, HandledStep, ShownStep DEF PipelineInv
<1> QED
  BY <1>1, <1>2 DEF PipelineInv

\* PipelineInv holds in every reachable state of every instance.
LEMMA PipelineInvariance ==
  ASSUME Prompt, OneByOne
  PROVE  PipelineSpec => []PipelineInv
<1>1. PipelineInit => PipelineInv
  BY TypeInit, SafeInit, RequestInit, HandledInit, ShownInit, OutboxInit DEF PipelineInit, PipelineInv
<1>2. PipelineInv /\ [PipelineNext]_pipelineVars => PipelineInv'
  BY PipelineInvStep DEF Orderly
<1> QED
  BY <1>1, <1>2, PTL DEF PipelineSpec

\* When downloads end before the lease does and the seller's requests on a job come
\* one by one, whatever a job under review shows is of the run it asks for and still
\* stored, whatever failed, was cleaned up, was repeated or died before, unless a
\* reject has removed it.
THEOREM ShownImagesExist ==
  ASSUME Prompt, OneByOne
  PROVE  PipelineSpec => []ReviewedOutputsExist
<1>1. PipelineInv => ReviewedOutputsExist
  BY DEF PipelineInv, ShownInv, ReviewInv, Orderly
<1> QED
  BY <1>1, PipelineInvariance, PTL

\* What was proved of the workers with a relay of their own holds of them behind
\* the outbox.
THEOREM PipelineKeepsWorkerPromises ==
  ASSUME Prompt, OneByOne
  PROVE  PipelineSpec => [](OneTaskPerJob /\ PaidRoundsCapped /\ CommittedWasHandled)
<1>1. PipelineInv => OneTaskPerJob /\ PaidRoundsCapped /\ CommittedWasHandled
  <2> SUFFICES ASSUME PipelineInv
               PROVE  OneTaskPerJob /\ PaidRoundsCapped /\ CommittedWasHandled
    OBVIOUS
  <2>1. OneTaskPerJob
    BY LogOffsets DEF PipelineInv, SafeInv, OneTaskPerJob, Active, TypeInv, Orderly
  <2>2. PaidRoundsCapped
    BY DEF PipelineInv, SafeInv, Orderly
  <2>3. CommittedWasHandled
    BY DEF PipelineInv, HandledInv, Done, CommittedWasHandled
  <2> QED
    BY <2>1, <2>2, <2>3
<1> QED
  BY <1>1, PipelineInvariance, PTL
-----------------------------------------------------------------------------
(* Refinement: what the seller sees is JobLifecycle.                       *)

phases == [j \in Jobs |-> Phase(j)]
finals == {j \in Jobs : row[j].profile = "FINAL"}

\* The phase of a job is a function of its status.
LEMMA PhaseOf ==
  ASSUME NEW j \in Jobs, row[j].status \in LiveStatuses
  PROVE  /\ row[j].status \in {"PENDING", "PROCESSING", "FINALIZING"} => Phase(j) = "waiting"
         /\ row[j].status = "REVIEW_REQUIRED" => Phase(j) = "review"
         /\ row[j].status = "FAILED" => Phase(j) = "failed"
         /\ row[j].status = "REJECTED" => Phase(j) = "rejected"
  BY DEF Phase, Open, LiveStatuses

\* So it is after a step.
LEMMA PhaseOfNext ==
  ASSUME NEW j \in Jobs, row'[j].status \in LiveStatuses
  PROVE  /\ row'[j].status \in {"PENDING", "PROCESSING", "FINALIZING"} => Phase(j)' = "waiting"
         /\ row'[j].status = "REVIEW_REQUIRED" => Phase(j)' = "review"
         /\ row'[j].status = "FAILED" => Phase(j)' = "failed"
         /\ row'[j].status = "REJECTED" => Phase(j)' = "rejected"
  BY DEF Phase, Open, LiveStatuses

\* A job keeps its phase when it keeps its status.
LEMMA PhaseKept ==
  ASSUME NEW j \in Jobs, row'[j].status = row[j].status
  PROVE  Phase(j)' = Phase(j)
  BY DEF Phase, Open

\* A change of one job's phase.
LEMMA PhaseMoves ==
  ASSUME NEW j \in Jobs, NEW from, NEW to, Phase(j) = from, Phase(j)' = to,
         \A k \in Jobs \ {j} : row'[k] = row[k]
  PROVE  Lifecycle!Move(j, from, to)
<1>1. \A k \in Jobs \ {j} : Phase(k)' = Phase(k)
  BY PhaseKept
<1> QED
  BY <1>1 DEF Lifecycle!Move

\* Where every job keeps its status the phases stand still.
LEMMA PhasesKept ==
  ASSUME \A j \in Jobs : row'[j].status = row[j].status
  PROVE  UNCHANGED phases
  BY PhaseKept DEF phases

\* The approved jobs are those whose row names the final profile.
LEMMA FinalsKept ==
  ASSUME \A j \in Jobs : row'[j].profile = row[j].profile
  PROVE  UNCHANGED finals
  BY DEF finals

\* Every step is one of JobLifecycle or does not show.
LEMMA LifecycleStep ==
  ASSUME PipelineInv, Orderly, [PipelineNext]_pipelineVars
  PROVE  [Lifecycle!Next]_(Lifecycle!vars)
<1>1. AnyStep /\ TypeInv /\ SafeInv /\ RequestInv /\ RunInv /\ PaidInv /\ RunInv' /\ SafeInv'
  BY PipelineInvStep DEF PipelineInv, ShownInv
<1>2. JobStep /\ DOMAIN log \subseteq Offsets
  BY <1>1, StepKinds, LogOffsets DEF TypeInv
<1>3. \A j \in Jobs : row[j].status \in LiveStatuses /\ row'[j].status \in LiveStatuses
  BY <1>1 DEF RunInv
<1> DEFINE Goal == Lifecycle!Next \/ UNCHANGED Lifecycle!vars
<1>4. ASSUME \A j \in Jobs : row'[j].status = row[j].status /\ row'[j].profile = row[j].profile,
             rounds' = rounds
      PROVE  UNCHANGED Lifecycle!vars
  BY <1>4, PhasesKept, FinalsKept DEF Lifecycle!vars, phases, finals
<1>a. ASSUME Idles \/ \E j \in Jobs : Wipes(j) PROVE UNCHANGED Lifecycle!vars
  BY <1>a, <1>4 DEF Idles, Wipes, Rests
<1>b. ASSUME Waits PROVE UNCHANGED Lifecycle!vars
  BY <1>b, <1>4 DEF Waits, SameRun
<1>c. ASSUME NEW j \in Jobs, Decided(j) PROVE Lifecycle!Next
  <2>1. Phase(j) = "review"
    BY <1>3, <1>c, PhaseOf DEF Decided
  <2>2. rounds' = rounds /\ \A k \in Jobs \ {j} : row'[k] = row[k]
    BY <1>c DEF Decided
  <2>a. CASE row'[j].status = "FINALIZING"
    <3>1. row[j].profile = "PREVIEW" /\ row'[j].profile = "FINAL"
      BY <1>c, <2>a DEF Decided
    <3>2. j \notin finals /\ finals' = finals \cup {j}
      BY <2>2, <3>1 DEF finals
    <3>3. Lifecycle!Move(j, "review", "waiting")
      BY <1>3, <2>1, <2>2, <2>a, PhaseOfNext, PhaseMoves
    <3>4. Lifecycle!Approve(j)
      BY <2>2, <3>2, <3>3 DEF Lifecycle!Approve, finals
    <3> QED
      BY <3>4 DEF Lifecycle!Next
  <2>b. CASE row'[j].status = "REJECTED" /\ SameRun(row'[j], row[j])
    <3>1. UNCHANGED finals
      BY <2>2, <2>b, FinalsKept DEF SameRun
    <3>2. Lifecycle!Move(j, "review", "rejected")
      BY <1>3, <2>1, <2>2, <2>b, PhaseOfNext, PhaseMoves
    <3>3. Lifecycle!Reject(j)
      BY <2>2, <3>1, <3>2 DEF Lifecycle!Reject, finals
    <3> QED
      BY <3>3 DEF Lifecycle!Next
  <2> QED
    BY <1>c, <2>a, <2>b DEF Decided
<1>d. ASSUME NEW w \in Workers, NEW o \in Offsets, NEW j \in Jobs, Claimed(w, o, j)
      PROVE  Goal
  <2>1. /\ rounds' = rounds /\ row'[j].status = "PROCESSING"
        /\ row[j].status \in {"PENDING", "FAILED", "PROCESSING", "FINALIZING"}
        /\ \A k \in Jobs \ {j} : row'[k] = row[k]
        /\ \A k \in Jobs : row'[k].profile = row[k].profile
    BY <1>d DEF Claimed, SameRun
  <2>2. UNCHANGED finals /\ Phase(j)' = "waiting"
    BY <1>3, <2>1, FinalsKept, PhaseOfNext
  <2>a. CASE row[j].status = "FAILED"
    <3>1. Lifecycle!Move(j, "failed", "waiting")
      BY <1>3, <2>1, <2>2, <2>a, PhaseOf, PhaseMoves
    <3>2. Lifecycle!Retry(j)
      BY <2>1, <2>2, <3>1 DEF Lifecycle!Retry, finals
    <3> QED
      BY <3>2 DEF Lifecycle!Next
  <2>b. CASE row[j].status # "FAILED"
    <3>1. Phase(j) = "waiting"
      BY <1>3, <2>1, <2>b, PhaseOf
    <3>2. \A k \in Jobs : Phase(k)' = Phase(k)
      BY <2>1, <2>2, <3>1, PhaseKept
    <3>3. UNCHANGED phases
      BY <3>2 DEF phases
    <3> QED
      BY <2>1, <2>2, <3>3 DEF Lifecycle!vars, phases, finals
  <2> QED
    BY <2>a, <2>b
<1>e. ASSUME NEW w \in Workers, NEW o \in Offsets, NEW j \in Jobs, Paid(w, o, j),
             task[w][o].step = "generate"
      PROVE  Lifecycle!Next
  <2>1. row' = row /\ rounds' = [rounds EXCEPT ![j] = @ + 1]
    BY <1>e DEF Paid
  <2>2. row[j].status = "PROCESSING" /\ rounds[j] < MaxRetry
    <3>1. /\ rounds[j] < row[j].attempt /\ row[j].status = "PROCESSING"
          /\ task[w][o].loaded.attempt = row[j].attempt /\ task[w][o].loaded.attempt <= MaxRetry
      BY <1>1, <1>e DEF SafeInv, Paid, JobOf, LockedSteps
    <3>2. rounds[j] \in Nat /\ row[j].attempt \in Nat /\ MaxRetry \in Nat
      BY <1>1, JobAssumption DEF TypeInv, TypeOK, Job
    <3> QED
      BY <3>1, <3>2
  <2>3. Phase(j) = "waiting"
    BY <1>3, <2>2, PhaseOf
  <2>4. UNCHANGED phases /\ UNCHANGED finals
    BY <2>1, PhasesKept, FinalsKept
  <2>5. Lifecycle!Pay(j)
    BY <2>1, <2>2, <2>3, <2>4 DEF Lifecycle!Pay, phases, finals
  <2> QED
    BY <2>5 DEF Lifecycle!Next
<1>f. ASSUME NEW w \in Workers, NEW o \in Offsets, NEW j \in Jobs, Closed(w, o, j)
      PROVE  Lifecycle!Next
  <2>1. /\ rounds' = rounds /\ \A k \in Jobs \ {j} : row'[k] = row[k]
        /\ row'[j].profile = row[j].profile
    BY <1>f DEF Closed, SameRun
  <2>2. row[j].status = "PROCESSING"
    BY <1>1, <1>f DEF Closed, SafeInv, JobOf
  <2>3. Phase(j) = "waiting" /\ UNCHANGED finals
    BY <1>3, <2>1, <2>2, PhaseOf, FinalsKept
  <2>a. CASE row'[j].status = "FAILED"
    <3>1. Lifecycle!Move(j, "waiting", "failed")
      BY <1>3, <2>1, <2>3, <2>a, PhaseOfNext, PhaseMoves
    <3>2. Lifecycle!Fail(j)
      BY <2>1, <2>3, <3>1 DEF Lifecycle!Fail, finals
    <3> QED
      BY <3>2 DEF Lifecycle!Next
  <2>b. CASE row'[j].status = "REVIEW_REQUIRED" /\ task[w][o].step = "ready"
    <3>1. Lifecycle!Move(j, "waiting", "review")
      BY <1>3, <2>1, <2>3, <2>b, PhaseOfNext, PhaseMoves
    <3>2. rounds[j] >= IF row[j].profile = "FINAL" THEN 2 ELSE 1
      BY <1>1, <1>f, <2>b DEF PaidInv, Closed, JobOf
    <3>3. Lifecycle!Present(j)
      BY <2>1, <2>3, <3>1, <3>2 DEF Lifecycle!Present, finals
    <3> QED
      BY <3>3 DEF Lifecycle!Next
  <2> QED
    BY <1>f, <2>a, <2>b DEF Closed
<1>g. ASSUME NEW j \in Jobs, Saved(j) PROVE Goal
  <2>1. Decided(j)
    BY <1>1, <1>g, SellerTable
  <2> QED
    BY <1>c, <2>1
<1>h. ASSUME NEW w \in Workers, NEW o \in DOMAIN log,
             \/ ClaimJob(w, o) \/ StartGenerating(w, o) \/ GiveUp(w, o)
             \/ CallProviders(w, o) \/ Closes(w, o)
      PROVE  Goal
  <2>a. CASE ClaimJob(w, o)
    BY <1>1, <1>2, <1>d, <2>a, ClaimTable
  <2>b. CASE StartGenerating(w, o) \/ GiveUp(w, o)
    BY <1>1, <1>b, <2>b, StartWaits
  <2>c. CASE CallProviders(w, o)
    <3>1. task[w][o].step = "generate"
      BY <2>c DEF CallProviders
    <3> QED
      BY <1>1, <1>2, <1>e, <2>c, <3>1, PayTable
  <2>d. CASE Closes(w, o)
    BY <1>1, <1>2, <1>f, <2>d, CloseTable
  <2> QED
    BY <1>h, <2>a, <2>b, <2>c, <2>d
<1>i. CASE Tick
  BY <1>1, <1>b, <1>i, TickWaits
<1> QED
  BY <1>2, <1>a, <1>g, <1>h, <1>i DEF JobStep

\* The jobs start waiting, unapproved and unpaid.
LEMMA LifecycleInit ==
  ASSUME PipelineInit
  PROVE  Lifecycle!Init
<1>1. \A j \in Jobs : row[j].status = "PENDING" /\ row[j].profile = "PREVIEW"
  BY DEF PipelineInit, Init, NewJob
<1>2. \A j \in Jobs : Phase(j) = "waiting"
  BY <1>1, PhaseOf DEF LiveStatuses
<1>3. phases = [j \in Jobs |-> "waiting"] /\ finals = {}
  BY <1>1, <1>2 DEF phases, finals
<1>4. rounds = [j \in Jobs |-> 0]
  BY DEF PipelineInit, Init
<1> QED
  BY <1>3, <1>4 DEF Lifecycle!Init, phases, finals

\* When downloads end before the lease does and the seller's requests on a job come
\* one by one, the pipeline of outbox, partition and workers implements the life
\* cycle the seller is promised: what they repeat, move, lose and take up again
\* never shows.
THEOREM PipelineImplementsLifecycle ==
  ASSUME Prompt, OneByOne
  PROVE  PipelineSpec => LifecycleRefined
<1>1. PipelineInit => Lifecycle!Init
  BY LifecycleInit
<1>2. PipelineInv /\ [PipelineNext]_pipelineVars => [Lifecycle!Next]_(Lifecycle!vars)
  BY LifecycleStep DEF Orderly
<1> QED
  BY <1>1, <1>2, PipelineInvariance, PTL DEF PipelineSpec, LifecycleRefined, Lifecycle!Spec
-----------------------------------------------------------------------------
(* No open job is forgotten.                                               *)

WaitingStatuses == {"PENDING", "FINALIZING"}
Unhandled(j) == \E o \in DOMAIN log : log[o] = j /\ o \notin handled

\* The event of a job that waits to be claimed is known to the outbox, and once
\* it was sent there is a message that nobody has handled.
WaitInv ==
    \A j \in Jobs : row[j].status \in WaitingStatuses =>
        /\ Event(j) \in Delivery!Known
        /\ Event(j) \in topic => Unhandled(j)

\* As long as nothing raised or died, a claimed job is being worked on.
WorkedInv == errors + crashes = 0 => \A j \in Jobs : row[j].status = "PROCESSING" => Worked(j)

\* At first every event is in the outbox.
LEMMA CarriedInit ==
  ASSUME PipelineInit
  PROVE  WaitInv /\ WorkedInv
<1>1. \A j \in Jobs : row[j].status = "PENDING" /\ row[j].profile = "PREVIEW"
  BY DEF PipelineInit, Init, NewJob
<1>2. pending = Jobs \X {"PREVIEW"} /\ topic = {}
  BY DEF PipelineInit
<1> QED
  BY <1>1, <1>2 DEF WaitInv, WorkedInv, Event, Delivery!Known

\* A task leaves the row of a job alone that waits for a claim afterwards.
LEMMA TaskKeepsWaiting ==
  ASSUME PipelineInv, Orderly, NEW w \in Workers, NEW o \in DOMAIN log, TaskStep(w, o),
         NEW j \in Jobs, row'[j].status \in WaitingStatuses
  PROVE  row'[j] = row[j]
<1>1. TypeInv /\ SafeInv /\ RunInv
  BY DEF PipelineInv, ShownInv
<1>a. CASE ClaimJob(w, o)
  <2>1. PICK k \in Jobs : Claimed(w, o, k)
    BY <1>1, <1>a, ClaimTable
  <2> QED
    BY <2>1 DEF Claimed, WaitingStatuses
<1>b. CASE Closes(w, o)
  <2>1. PICK k \in Jobs : Closed(w, o, k)
    BY <1>1, <1>b, CloseTable
  <2> QED
    BY <2>1 DEF Closed, WaitingStatuses
<1>c. CASE \/ SendDlq(w, o) \/ SkipMessage(w, o) \/ StartGenerating(w, o) \/ GiveUp(w, o)
           \/ CallProviders(w, o)
  BY <1>c DEF SendDlq, SkipMessage, StartGenerating, GiveUp, CallProviders
<1> QED
  BY <1>a, <1>b, <1>c DEF TaskStep, Closes

\* A job waits for a claim because it did so before, or because the seller has
\* just approved its preview.
LEMMA WhoWaits ==
  ASSUME PipelineInv, Orderly, [PipelineNext]_pipelineVars,
         NEW j \in Jobs, row'[j].status \in WaitingStatuses
  PROVE  \/ row'[j].status = row[j].status /\ row'[j].profile = row[j].profile
         \/ (\E q \in Requests : SellerApproves(j, q)) /\ row'[j].profile = "FINAL"
<1>1. TypeInv /\ SafeInv /\ RequestInv /\ RunInv /\ row \in [Jobs -> Job]
  BY DEF PipelineInv, ShownInv, TypeInv, TypeOK
<1>a. ASSUME NEW e \in Events, RelayStep(e) PROVE row' = row
  BY <1>a DEF RelayStep, Deliver, RecordPublished, DeliverDead, RecordDead, vars
<1>b. ASSUME NEW k \in Jobs, NEW q \in Requests, SellerApproves(k, q)
      PROVE  row'[j] = row[j] \/ (SellerApproves(j, q) /\ row'[j].profile = "FINAL")
  <2>1. Decided(k)
    BY <1>1, <1>b, RequestSaves, SellerTable DEF SellerApproves
  <2> QED
    BY <1>b, <2>1 DEF Decided, WaitingStatuses
<1>g. ASSUME NEW k \in Jobs, NEW q \in Requests, RequestStep(k, q) PROVE row'[j] = row[j]
  <2>a. CASE SaveRejected(k, q)
    <3>1. Commit(k, q) /\ request[k][q].step = "cleaned"
      BY <2>a DEF SaveRejected
    <3>2. row'[k] = request[k][q].result /\ \A i \in Jobs \ {k} : row'[i] = row[i]
      BY <1>1, <3>1, CommitSaves
    <3>3. row'[k].status = "REJECTED"
      BY <1>1, <3>1, <3>2 DEF RequestInv, Sound
    <3> QED
      BY <3>2, <3>3 DEF WaitingStatuses
  <2>b. CASE ~SaveRejected(k, q)
    BY <1>g, <2>b DEF RequestStep, SellerStep, ReadForApply, ReadForReject, LoadRecord, Flush,
                      CleanUp, Recleanup, EndRequest
  <2> QED
    BY <2>a, <2>b
<1>c. ASSUME NEW w \in Workers, WorkerStep(w) PROVE row' = row
  BY <1>c DEF WorkerStep, ConsumerStep, Poll, CommitOffset, StopAtError, CommitRejected,
              Rebalance, Crash
<1>d. ASSUME NEW w \in Workers, NEW o \in DOMAIN log, MessageStep(w, o) PROVE row'[j] = row[j]
  BY <1>d, TaskKeepsWaiting DEF MessageStep, TaskError
<1>e. CASE TimeStep
  BY <1>1, <1>e, TickWaits DEF TimeStep, Waits, SameRun
<1>f. CASE UNCHANGED pipelineVars
  BY <1>f DEF pipelineVars, vars
<1> QED
  BY <1>a, <1>b, <1>c, <1>d, <1>e, <1>f, <1>g DEF PipelineNext

\* No message of a job that waits for its claim before and after is used up.
LEMMA WaitingMessages ==
  ASSUME PipelineInv, Orderly, AnyStep, NEW j \in Jobs,
         row[j].status \in WaitingStatuses, row'[j].status \in WaitingStatuses,
         NEW o \in DOMAIN log, log[o] = j, o \notin handled
  PROVE  o \notin handled'
<1>1. /\ TypeInv /\ SafeInv /\ RequestInv /\ RunInv /\ o \in Offsets /\ j # Poison
  BY LogOffsets, WorkerAssumption DEF PipelineInv, ShownInv, TypeInv
<1>2. \A v \in Workers, p \in Offsets : Active(v, p) => log[p] # j
  BY <1>1 DEF SafeInv, JobOf, WaitingStatuses
<1>3. \A q \in Requests : request[j][q].step = "idle"
  <2>1. row[j] \in Job /\ \A q \in Requests : request[j][q] \in RequestType
    BY <1>1 DEF TypeInv, TypeOK, RequestType
  <2> QED
    BY <1>1, <2>1, SoundOpen DEF RequestInv, WaitingStatuses
<1>a. ASSUME NEW w \in Workers, NEW p \in DOMAIN log, TaskStep(w, p), p # o PROVE o \notin handled'
  BY <1>1, <1>a, StepEffect DEF Effect
<1>b. ASSUME NEW w \in Workers, TaskStep(w, o) PROVE FALSE
  <2>1. ~Active(w, o)
    BY <1>1, <1>2
  <2>2. SendDlq(w, o) \/ ClaimJob(w, o) \/ SkipMessage(w, o)
    BY <1>b, <2>1 DEF TaskStep, GiveUp, SaveGivenUp, StartGenerating, CallProviders, SaveCompleted,
                      SaveCleanedUp, SaveFailed, Active, ActiveSteps, LockedSteps, UnlockedSteps
  <2>3. ~SendDlq(w, o)
    BY <1>1 DEF SendDlq
  <2>4. ~ClaimJob(w, o)
    <3>1. ClaimJob(w, o) => \E k \in Jobs : Claimed(w, o, k)
      BY <1>1, ClaimTable
    <3> QED
      BY <3>1 DEF Claimed, WaitingStatuses
  <2>5. Unlocked(j) /\ CanClaim(row[j])
    <3>1. Unlocked(j)
      BY <1>1, <1>2, <1>3, LogOffsets DEF Unlocked, Holds, Active, ActiveSteps, TypeInv
    <3> QED
      BY <3>1 DEF CanClaim, WaitingStatuses
  <2> QED
    BY <2>2, <2>3, <2>4, <2>5 DEF SkipMessage
<1>c. ASSUME NEW w \in Workers, ConsumerStep(w) \/ Rebalance(w) \/ Crash(w) PROVE handled' = handled
  BY <1>c DEF ConsumerStep, Poll, CommitOffset, StopAtError, CommitRejected, Rebalance, Crash
<1>d. ASSUME NEW w \in Workers, NEW p \in DOMAIN log, TaskError(w, p) PROVE handled' = handled
  BY <1>d DEF TaskError
<1>e. ASSUME \/ \E k \in Jobs : Publish(k) \/ Republish(k)
             \/ \E k \in Jobs, q \in Requests : SaveFinalizing(k, q) \/ SellerStep(k, q)
             \/ PublishPoison \/ Tick \/ UNCHANGED vars \/ Relays
      PROVE  handled' = handled
  BY <1>e, SellerFrame DEF Publish, Republish, PublishPoison, Tick, vars, Relays
<1> QED
  BY <1>a, <1>b, <1>c, <1>d, <1>e DEF AnyStep, Next

\* The log only grows.
LEMMA LogKept ==
  ASSUME TypeInv, AnyStep
  PROVE  DOMAIN log \subseteq DOMAIN log' /\ \A o \in DOMAIN log : log'[o] = log[o]
<1>a. CASE Relays
  BY <1>a, RelaysKeepType
<1>b. ASSUME (\E j \in Jobs : Publish(j) \/ Republish(j)) \/ PublishPoison PROVE Relays
  BY <1>b, PublishRelays
<1>c. ASSUME NEW w \in Workers, ConsumerStep(w) \/ Rebalance(w) \/ Crash(w) PROVE log' = log
  BY <1>c DEF ConsumerStep, Poll, CommitOffset, StopAtError, CommitRejected, Rebalance, Crash, partition
<1>d. ASSUME NEW w \in Workers, NEW o \in DOMAIN log, TaskError(w, o) \/ TaskStep(w, o)
      PROVE  log' = log
  BY <1>d, StepEffect DEF TaskError, Effect, partition
<1>e. ASSUME \/ \E j \in Jobs, q \in Requests : SaveFinalizing(j, q) \/ SellerStep(j, q)
             \/ Tick \/ UNCHANGED vars
      PROVE  log' = log
  BY <1>e, SellerFrame DEF Tick, vars, partition
<1> QED
  BY <1>a, <1>b, <1>c, <1>d, <1>e, RelaysKeepType DEF AnyStep, Next

\* WaitInv is preserved: a message handed over late or again only adds to what
\* waits, and a message that is used up has claimed its job.
LEMMA WaitStep ==
  ASSUME PipelineInv, WaitInv, Orderly, [PipelineNext]_pipelineVars
  PROVE  WaitInv'
<1>1. /\ AnyStep /\ TypeInv /\ OutboxInv
      /\ DOMAIN log \subseteq DOMAIN log' /\ \A o \in DOMAIN log : log'[o] = log[o]
  BY PipelineInvStep, LogKept DEF PipelineInv
<1>2. Delivery!Known \subseteq Delivery!Known'
  BY DEF PipelineNext, RelayStep, Deliver, RecordPublished, DeliverDead, RecordDead,
         Delivery!HandOver, Delivery!Publish, Delivery!HandOverDead, Delivery!DeadLetter,
         SellerApproves, Delivery!Enqueue, RequestStep, WorkerStep, MessageStep, TimeStep,
         Delivery!Known, outbox, pipelineVars
<1>3. \/ topic' = topic
      \/ \E e \in Events : Deliver(e)
  BY DEF PipelineNext, RelayStep, RecordPublished, DeliverDead, RecordDead,
         Delivery!Publish, Delivery!HandOverDead, Delivery!DeadLetter,
         SellerApproves, Delivery!Enqueue, RequestStep, WorkerStep, MessageStep, TimeStep,
         outbox, pipelineVars
<1>4. SUFFICES ASSUME NEW j \in Jobs, row'[j].status \in WaitingStatuses
               PROVE  /\ Event(j)' \in Delivery!Known'
                      /\ Event(j)' \in topic' => Unhandled(j)'
  BY DEF WaitInv
<1>a. CASE row'[j].status = row[j].status /\ row'[j].profile = row[j].profile
  <2>1. Event(j)' = Event(j) /\ row[j].status \in WaitingStatuses
    BY <1>4, <1>a DEF Event
  <2>2. Event(j) \in Delivery!Known /\ (Event(j) \in topic => Unhandled(j))
    BY <2>1 DEF WaitInv
  <2>3. Unhandled(j) => Unhandled(j)'
    BY <1>1, <1>4, <2>1, WaitingMessages DEF Unhandled
  <2>4. ASSUME NEW e \in Events, Deliver(e), Event(j) = e PROVE Unhandled(j)'
    <3>1. /\ log' = Append(log, j) /\ handled' = handled
      BY <2>4 DEF Deliver, Send, Event
    <3>2. /\ log \in Seq(Jobs \cup {Poison}) /\ Len(log) \in Nat
          /\ DOMAIN log = 1..Len(log) /\ handled \subseteq DOMAIN log
      BY <1>1, LogOffsets DEF TypeInv, TypeOK, InLog
    <3>3. Len(log) + 1 \in DOMAIN log' /\ log'[Len(log) + 1] = j
      BY <3>1, <3>2, AppendProperties
    <3>4. Len(log) + 1 \notin handled'
      BY <3>1, <3>2
    <3> QED
      BY <3>3, <3>4 DEF Unhandled
  <2>5. ASSUME NEW e \in Events, Deliver(e) PROVE topic' = topic \cup {e}
    BY <2>5 DEF Deliver, Delivery!HandOver
  <2>6. Event(j) \in topic' => Unhandled(j)'
    BY <1>3, <2>2, <2>3, <2>4, <2>5
  <2> QED
    BY <1>2, <2>1, <2>2, <2>6
<1>b. CASE (\E q \in Requests : SellerApproves(j, q)) /\ row'[j].profile = "FINAL"
  <2>1. Event(j)' = <<j, "FINAL">>
    BY <1>b DEF Event
  <2>2. /\ <<j, "FINAL">> \notin Delivery!Known /\ topic' = topic
        /\ <<j, "FINAL">> \in Delivery!Known'
    BY <1>b DEF SellerApproves, Delivery!Enqueue, Delivery!Known
  <2> QED
    BY <1>1, <2>1, <2>2 DEF OutboxInv
<1> QED
  BY <1>4, <1>a, <1>b, WhoWaits

\* A task under way goes on or ends with a save, unless it raises or its worker dies.
LEMMA StaysActive ==
  ASSUME TypeInv, AnyStep, errors' = errors, crashes' = crashes,
         NEW v \in Workers, NEW p \in DOMAIN log, Active(v, p)
  PROVE  Active(v, p)' \/ Closes(v, p)
<1>1. /\ task \in Tasks /\ p \in Offsets /\ DOMAIN log \subseteq Offsets
      /\ errors \in Nat /\ crashes \in Nat
  BY LogOffsets DEF TypeInv, TypeOK, Tasks, Task
<1>2. task[v][p].step \notin {"none", "begin", "acked", "error"}
  BY DEF Active, ActiveSteps, LockedSteps, UnlockedSteps
<1>a. ASSUME task' = task PROVE Active(v, p)'
  BY <1>a DEF Active
<1>b. ASSUME NEW w \in Workers, ConsumerStep(w) PROVE Active(v, p)'
  <2>1. v = w => ~Idle(w) /\ ~Finished(w)
    BY <1>1, <1>2 DEF Idle, Finished
  <2>a. CASE Poll(w)
    BY <1>1, <2>1, <2>a DEF Poll, Active, Tasks
  <2>b. CASE CommitOffset(w)
    BY <1>1, <2>1, <2>b DEF CommitOffset, Active, Tasks
  <2>c. CASE StopAtError(w) \/ CommitRejected(w)
    BY <1>1, <2>1, <2>c, TaskDrop DEF StopAtError, CommitRejected, Active
  <2> QED
    BY <1>b, <2>a, <2>b, <2>c DEF ConsumerStep
<1>c. ASSUME NEW w \in Workers, NEW o \in DOMAIN log, TaskStep(w, o), v # w \/ p # o
      PROVE  Active(v, p)'
  <2>1. \E t \in Task : task' = [task EXCEPT ![w][o] = t]
    BY <1>c, StepEffect DEF Effect
  <2>2. task'[v][p] = task[v][p]
    BY <1>1, <1>c, <2>1 DEF Tasks
  <2> QED
    BY <2>2 DEF Active
<1>d. ASSUME TaskStep(v, p) PROVE Active(v, p)' \/ Closes(v, p)
  <2>1. ~SendDlq(v, p) /\ ~ClaimJob(v, p) /\ ~SkipMessage(v, p)
    BY <1>2 DEF SendDlq, ClaimJob, SkipMessage
  <2>a. CASE StartGenerating(v, p)
    <3>1. \E t \in Task : task' = [task EXCEPT ![v][p] = t] /\ t.step = "generate"
      BY <1>1, <2>a, GotoTask DEF StartGenerating, Steps, ActiveSteps, LockedSteps, UnlockedSteps
    <3> QED
      BY <1>1, <3>1 DEF Tasks, Active, ActiveSteps, LockedSteps, UnlockedSteps
  <2>b. CASE CallProviders(v, p)
    <3>1. PICK step \in {"ready", "cleanup", "failing"} :
             \E made : task' = [task EXCEPT ![v][p].step = step, ![v][p].made = made]
      BY <2>b DEF CallProviders, StepAfter
    <3>2. task'[v][p].step = step
      BY <1>1, <3>1 DEF Tasks, Task
    <3> QED
      BY <3>1, <3>2 DEF Active, ActiveSteps, LockedSteps, UnlockedSteps
  <2>c. CASE GiveUp(v, p)
    <3>1. row \in [Jobs -> Job] /\ log[p] \in Jobs
      BY <1>1 DEF TypeInv, TypeOK, InLog, Active
    <3>2. \E t \in Task : task' = [task EXCEPT ![v][p] = t] /\ t.step = "givingup"
      BY <1>1, <2>c, <3>1, GiveUpTask
    <3> QED
      BY <1>1, <3>2 DEF Tasks, Active, ActiveSteps, UnlockedSteps
  <2> QED
    BY <1>d, <2>1, <2>a, <2>b, <2>c DEF TaskStep, Closes
<1>e. ASSUME NEW w \in Workers, Rebalance(w) \/ Crash(w) PROVE Active(v, p)'
  BY <1>1, <1>a, <1>e DEF Rebalance, Crash
<1>f. ASSUME NEW w \in Workers, NEW o \in DOMAIN log, TaskError(w, o) PROVE FALSE
  BY <1>1, <1>f DEF TaskError
<1>g. ASSUME \/ \E k \in Jobs : Publish(k) \/ Republish(k)
             \/ \E k \in Jobs, q \in Requests : SaveFinalizing(k, q) \/ SellerStep(k, q)
             \/ PublishPoison \/ Tick \/ UNCHANGED vars \/ Relays
      PROVE  task' = task
  BY <1>g, SellerFrame DEF Publish, Republish, PublishPoison, Tick, vars, Relays
<1> QED
  BY <1>a, <1>b, <1>c, <1>d, <1>e, <1>f, <1>g DEF AnyStep, Next

\* A job is PROCESSING because it was, or because a task has claimed it.
LEMMA WhoProcesses ==
  ASSUME PipelineInv, Orderly, AnyStep, NEW j \in Jobs, row'[j].status = "PROCESSING"
  PROVE  row[j].status = "PROCESSING" \/ Worked(j)'
<1>1. TypeInv /\ SafeInv /\ RequestInv /\ RunInv /\ JobStep /\ DOMAIN log \subseteq Offsets
  BY StepKinds, LogOffsets DEF PipelineInv, ShownInv, TypeInv
<1>a. ASSUME Idles \/ \E k \in Jobs : Wipes(k) PROVE row'[j] = row[j]
  BY <1>a DEF Idles, Wipes, Rests
<1>b. ASSUME NEW k \in Jobs, Saved(k) PROVE row'[j] = row[j]
  BY <1>1, <1>b, SellerTable DEF Decided
<1>c. ASSUME NEW w \in Workers, NEW o \in DOMAIN log, ClaimJob(w, o)
      PROVE  row'[j] = row[j] \/ Worked(j)'
  <2>1. PICK k \in Jobs : Claimed(w, o, k)
    BY <1>1, <1>c, ClaimTable
  <2>a. CASE k = j
    BY <2>1, <2>a DEF Claimed, Worked, ActiveSteps, UnlockedSteps
  <2>b. CASE k # j
    BY <2>1, <2>b DEF Claimed
  <2> QED
    BY <2>a, <2>b
<1>d. ASSUME Waits PROVE row'[j].status = row[j].status
  BY <1>d DEF Waits
<1>e. ASSUME NEW w \in Workers, NEW o \in DOMAIN log, CallProviders(w, o) PROVE row'[j] = row[j]
  BY <1>e DEF CallProviders
<1>f. ASSUME NEW w \in Workers, NEW o \in DOMAIN log, Closes(w, o) PROVE row'[j] = row[j]
  <2>1. PICK k \in Jobs : Closed(w, o, k)
    BY <1>1, <1>f, CloseTable
  <2> QED
    BY <2>1 DEF Closed
<1> QED
  BY <1>1, <1>a, <1>b, <1>c, <1>d, <1>e, <1>f, TickWaits, StartWaits DEF JobStep

\* Faults are counted one at a time.
LEMMA FaultsCount ==
  ASSUME TypeInv, AnyStep
  PROVE  /\ errors' = errors \/ errors' = errors + 1
         /\ crashes' = crashes \/ crashes' = crashes + 1
<1>a. ASSUME \/ \E k \in Jobs, q \in Requests : SaveFinalizing(k, q) \/ SellerStep(k, q)
             \/ \E k \in Jobs : Publish(k) \/ Republish(k)
             \/ PublishPoison \/ Tick \/ UNCHANGED vars \/ Relays
      PROVE  errors' = errors /\ crashes' = crashes
  BY <1>a, SellerFrame DEF Relays, Publish, Republish, PublishPoison, Tick, faults, vars
<1>b. ASSUME NEW w \in Workers, ConsumerStep(w)
      PROVE  errors' = errors /\ crashes' = crashes
  BY <1>b DEF ConsumerStep, Poll, CommitOffset, StopAtError, CommitRejected, faults
<1>c. ASSUME NEW w \in Workers, NEW o \in DOMAIN log, TaskStep(w, o)
      PROVE  errors' = errors /\ crashes' = crashes
  BY <1>c, StepEffect DEF Effect, faults
<1>d. ASSUME NEW w \in Workers, NEW o \in DOMAIN log, TaskError(w, o)
      PROVE  errors' = errors + 1 /\ crashes' = crashes
  BY <1>d DEF TaskError
<1>e. ASSUME NEW w \in Workers, Rebalance(w) \/ Crash(w)
      PROVE  errors' = errors /\ (crashes' = crashes \/ crashes' = crashes + 1)
  BY <1>e DEF Rebalance, Crash
<1> QED
  BY <1>a, <1>b, <1>c, <1>d, <1>e DEF AnyStep, Next

\* WorkedInv is preserved.
LEMMA WorkedStep ==
  ASSUME PipelineInv, WorkedInv, Orderly, [PipelineNext]_pipelineVars
  PROVE  WorkedInv'
<1>1. /\ AnyStep /\ TypeInv /\ SafeInv /\ RunInv /\ errors \in Nat /\ crashes \in Nat
      /\ DOMAIN log \subseteq DOMAIN log' /\ \A o \in DOMAIN log : log'[o] = log[o]
  BY PipelineInvStep, LogKept DEF PipelineInv, ShownInv, TypeInv, TypeOK
<1>2. SUFFICES ASSUME errors' + crashes' = 0, NEW j \in Jobs, row'[j].status = "PROCESSING"
               PROVE  Worked(j)'
  BY DEF WorkedInv
<1>3. errors' = errors /\ crashes' = crashes /\ errors + crashes = 0
  <2>1. (errors' = errors \/ errors' = errors + 1) /\ (crashes' = crashes \/ crashes' = crashes + 1)
    BY FaultsCount, <1>1
  <2> QED
    BY <1>1, <1>2, <2>1
<1>a. CASE row[j].status = "PROCESSING"
  <2>1. PICK w \in Workers, o \in DOMAIN log : log[o] = j /\ Active(w, o)
    BY <1>3, <1>a DEF WorkedInv, Worked, Active
  <2>2. ~Closes(w, o)
    <3>1. Closes(w, o) => \E k \in Jobs : Closed(w, o, k)
      BY <1>1, CloseTable
    <3> QED
      BY <1>2, <2>1, <3>1 DEF Closed
  <2>3. Active(w, o)'
    BY <1>1, <1>3, <2>1, <2>2, StaysActive
  <2> QED
    BY <1>1, <2>1, <2>3 DEF Worked, Active
<1> QED
  BY <1>1, <1>2, <1>a, WhoProcesses

\* When downloads end before the lease does and the seller's requests on a job come
\* one by one, no open job is forgotten: whoever dies, wherever the partition goes and
\* whatever is sent again, a job that waits has its event in the outbox or a message
\* still to be consumed, unless the event was dead-lettered or a task raised; and a
\* claimed job is being worked on.
THEOREM NoJobIsForgotten ==
  ASSUME Prompt, OneByOne
  PROVE  PipelineSpec => []OpenJobsAreCarried
<1>1. PipelineInit => WaitInv /\ WorkedInv
  BY CarriedInit
<1>2. PipelineInv /\ WaitInv /\ WorkedInv /\ [PipelineNext]_pipelineVars => (WaitInv /\ WorkedInv)'
  BY WaitStep, WorkedStep DEF Orderly
<1>3. PipelineInv /\ WaitInv /\ WorkedInv => OpenJobsAreCarried
  <2> SUFFICES ASSUME PipelineInv, WaitInv, WorkedInv, NEW j \in Jobs
               PROVE  /\ errors = 0 /\ row[j].status \in {"PENDING", "FINALIZING"} =>
                             Event(j) \in pending \cup deadLettered \/ Waiting(j)
                      /\ errors + crashes = 0 /\ row[j].status = "PROCESSING" => Worked(j)
    BY DEF OpenJobsAreCarried
  <2>1. ASSUME errors = 0, row[j].status \in {"PENDING", "FINALIZING"},
               Event(j) \notin pending \cup deadLettered
        PROVE  Waiting(j)
    <3>1. Event(j) \in topic
      BY <2>1 DEF WaitInv, WaitingStatuses, Delivery!Known, PipelineInv, OutboxInv
    <3>2. PICK o \in DOMAIN log : log[o] = j /\ o \notin handled
      BY <2>1, <3>1 DEF WaitInv, WaitingStatuses, Unhandled
    <3>3. o \notin 1..committed
      BY <2>1, <3>2 DEF PipelineInv, HandledInv, Done
    <3>4. o \in committed + 1 .. Len(log)
      <4>1. DOMAIN log = 1..Len(log) /\ Len(log) \in Nat /\ committed \in 0..Len(log)
        BY LogOffsets DEF PipelineInv, TypeInv, TypeOK
      <4> QED
        BY <3>3, <4>1
    <3> QED
      BY <3>2, <3>4 DEF Waiting
  <2> QED
    BY <2>1 DEF WorkedInv
<1> QED
  BY <1>1, <1>2, <1>3, PipelineInvariance, PTL DEF PipelineSpec
=============================================================================
