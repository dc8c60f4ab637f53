---------------------------- MODULE ImageWorker ----------------------------
(***************************************************************************)
(* The worker processes that consume image requests from one Kafka         *)
(* partition (entrypoints/workers/image_optimization_worker.py) and the    *)
(* pipeline each message runs (application/orchestration/processor.py).    *)
(*                                                                         *)
(* The relay delivers at least once, so the log may hold a job twice.  A   *)
(* worker takes up to BatchSize messages and runs one task per message.  A *)
(* task first commits the claim and downloads without any lock; its first  *)
(* save then takes the row lock, which it holds over the paid provider     *)
(* calls until the final commit.                                           *)
(*                                                                         *)
(* The seller's requests on a job under review (apply_outputs.py on a      *)
(* preview, reject_job.py) read it without a lock, save what they made of  *)
(* it and commit after the response; Review.tla has the requests on final  *)
(* outputs and the Product Service.                                        *)
(***************************************************************************)
EXTENDS OptimizationJob, Sequences

CONSTANTS
    Jobs,           \* jobs, each created with its request event
    Poison,         \* a message that cannot be parsed
    Requests,       \* the seller's requests that can be open on one job
    Workers,        \* worker processes of the consumer group
    BatchSize,      \* AI_IMAGE_WORKER_CONCURRENCY: getmany(max_records)
    Prompt,         \* a task's first save ends before its lease does
    MaxLog,         \* bound: messages in the partition
    MaxRebalances,  \* bound: times the group moves the partition
    MaxErrors,      \* bound: exceptions the pipeline does not catch
    MaxCrashes      \* bound: worker processes that may die

ASSUME WorkerAssumption ==
    /\ IsFiniteSet(Jobs)
    /\ Poison \notin Jobs
    /\ BatchSize \in Nat \ {0}
    /\ Prompt \in BOOLEAN
    /\ {MaxLog, MaxRebalances, MaxErrors, MaxCrashes} \subseteq Nat

VARIABLES
    row,         \* committed job row
    owed,        \* jobs whose event the outbox still holds
    log,         \* the partition
    committed,   \* offset the group has committed: messages consumed for good
    position,    \* offset the owner of the partition has fetched up to
    owner,       \* worker the partition is assigned to
    task,        \* what each worker does for each message
    request,     \* open requests of the seller, by job
    media,       \* output assets the Media Service stores, by job
    wiped,       \* jobs whose reject was rolled back after its cleanup
    rounds,      \* rounds of provider calls paid for, by job
    dlq,         \* offsets sent to the dead-letter topic
    handled,     \* offsets some worker finished without an error
    rebalances, errors, crashes

partition == <<log, committed, position, owner>>
faults == <<rebalances, errors, crashes>>
images == <<media, wiped>>
vars == <<row, owed, partition, task, request, images, rounds, dlq, handled, faults>>

Offsets == 1..MaxLog
Blank == NewJob({}, {})
NoTask == [step |-> "none", loaded |-> Blank, made |-> {}, record |-> Blank]
NoRequest == [step |-> "idle", result |-> Blank, record |-> Blank]

\* Between its first save and its commit a task holds the row lock.
LockedSteps == {"generate", "ready", "cleanup", "failing"}
UnlockedSteps == {"claimed", "givingup"}
ActiveSteps == LockedSteps \cup UnlockedSteps
Steps == ActiveSteps \cup {"none", "begin", "acked", "error"}

TypeOK ==
    /\ row \in [Jobs -> Job]
    /\ owed \subseteq Jobs
    /\ log \in Seq(Jobs \cup {Poison}) /\ Len(log) <= MaxLog
    /\ committed \in 0..Len(log)
    /\ position \in 0..Len(log)
    /\ owner \in Workers
    /\ task \in [Workers -> [Offsets ->
                   [step : Steps, loaded : Job, made : SUBSET Asset, record : Job]]]
    /\ request \in [Jobs -> [Requests ->
           [step : {"idle", "decided", "loaded", "flushed", "cleaned", "recleanup"},
            result : Job, record : Job]]]
    /\ media \in [Jobs -> SUBSET Asset]
    /\ wiped \subseteq Jobs
    /\ rounds \in [Jobs -> Nat]
    /\ dlq \subseteq Offsets
    /\ handled \subseteq Offsets
    /\ {rebalances, errors, crashes} \subseteq Nat

Init ==
    /\ row = [j \in Jobs |-> NewJob(Sources, Modes)]
    /\ owed = Jobs
    /\ log = <<>>
    /\ committed = 0
    /\ position = 0
    /\ owner \in Workers
    /\ task = [w \in Workers |-> [o \in Offsets |-> NoTask]]
    /\ request = [j \in Jobs |-> [q \in Requests |-> NoRequest]]
    /\ media = [j \in Jobs |-> {}]
    /\ wiped = {}
    /\ rounds = [j \in Jobs |-> 0]
    /\ dlq = {}
    /\ handled = {}
    /\ rebalances = 0
    /\ errors = 0
    /\ crashes = 0

-----------------------------------------------------------------------------
(* The outbox relay, a step of the environment here.                       *)

Send(message) == log' = Append(log, message)
Room == Len(log) + Cardinality(owed) < MaxLog

Publish(j) ==
    /\ j \in owed
    /\ Len(log) < MaxLog
    /\ Send(j)
    /\ owed' = owed \ {j}
    /\ UNCHANGED <<row, committed, position, owner, task, request, images, rounds, dlq, handled, faults>>

\* A relay that lost its claim, or a producer retry, delivers an event again.
Republish(j) ==
    /\ \E o \in DOMAIN log : log[o] = j
    /\ Room
    /\ Send(j)
    /\ UNCHANGED <<row, owed, committed, position, owner, task, request, images, rounds, dlq, handled, faults>>

PublishPoison ==
    /\ \A o \in DOMAIN log : log[o] # Poison
    /\ Room
    /\ Send(Poison)
    /\ UNCHANGED <<row, owed, committed, position, owner, task, request, images, rounds, dlq, handled, faults>>

-----------------------------------------------------------------------------
(* The seller's requests.  save() reads the row a second time ("loaded"),  *)
(* its UPDATE takes the row lock ("flushed"), which ends with the commit   *)
(* after the response.  result is the aggregate that the request saves.    *)

Holds(w, o, j) == task[w][o].step \in LockedSteps /\ log[o] = j
Unlocked(j) ==
    /\ \A w \in Workers, o \in DOMAIN log : ~Holds(w, o, j)
    /\ \A q \in Requests : request[j][q].step \notin {"flushed", "cleaned"}

Pass(j, q, step) == request' = [request EXCEPT ![j][q].step = step]
Close(j, q) == request' = [request EXCEPT ![j][q] = NoRequest]

Decide(j, q, result) ==
    request' = [request EXCEPT ![j][q] = [NoRequest EXCEPT !.step = "decided", !.result = result]]

\* The seller approves preview outputs ...
ReadForApply(j, q) ==
    /\ request[j][q].step = "idle"
    /\ row[j].profile = "PREVIEW"
    /\ \E ids \in SUBSET row[j].outputs :
           CanFinalize(row[j], ids) /\ Decide(j, q, RequestFinalization(row[j], ids))
    /\ UNCHANGED <<row, owed, partition, task, images, rounds, dlq, handled, faults>>

\* ... or rejects outputs; on a rejected job that repeats the cleanup.
ReadForReject(j, q) ==
    /\ request[j][q].step = "idle"
    /\ \/ /\ CanMove(row[j], "REJECTED")
          /\ Decide(j, q, ReleaseLease(Transition(row[j], "REJECTED")))
       \/ row[j].status = "REJECTED" /\ Pass(j, q, "recleanup")
    /\ UNCHANGED <<row, owed, partition, task, images, rounds, dlq, handled, faults>>

LoadRecord(j, q) ==
    /\ request[j][q].step = "decided"
    /\ request' = [request EXCEPT ![j][q].step = "loaded", ![j][q].record = row[j]]
    /\ UNCHANGED <<row, owed, partition, task, images, rounds, dlq, handled, faults>>

Flush(j, q) ==
    /\ request[j][q].step = "loaded"
    /\ Unlocked(j)
    /\ Pass(j, q, "flushed")
    /\ UNCHANGED <<row, owed, partition, task, images, rounds, dlq, handled, faults>>

Commit(j, q) ==
    /\ row' = [row EXCEPT ![j] = WriteBack(@, request[j][q].record, request[j][q].result)]
    /\ wiped' = wiped \ {j}
    /\ Close(j, q)

\* The job goes back to the workers, committed together with its event.
SaveFinalizing(j, q) ==
    /\ request[j][q].step = "flushed"
    /\ request[j][q].result.status = "FINALIZING"
    /\ Room
    /\ Commit(j, q)
    /\ owed' = owed \cup {j}
    /\ UNCHANGED <<partition, task, media, rounds, dlq, handled, faults>>

\* The Media Service drops the job's prefix before REJECTED is committed.
CleanUp(j, q) ==
    /\ request[j][q].step = "flushed"
    /\ request[j][q].result.status = "REJECTED"
    /\ media' = [media EXCEPT ![j] = {}]
    /\ Pass(j, q, "cleaned")
    /\ UNCHANGED <<row, owed, partition, task, wiped, rounds, dlq, handled, faults>>

SaveRejected(j, q) ==
    /\ request[j][q].step = "cleaned"
    /\ Commit(j, q)
    /\ UNCHANGED <<owed, partition, task, media, rounds, dlq, handled, faults>>

Recleanup(j, q) ==
    /\ request[j][q].step = "recleanup"
    /\ media' = [media EXCEPT ![j] = {}]
    /\ Close(j, q)
    /\ UNCHANGED <<row, owed, partition, task, wiped, rounds, dlq, handled, faults>>

\* A refusal, a lost answer or a lost connection rolls the transaction back,
\* REJECTED included; what was cleaned up is gone.
EndRequest(j, q) ==
    /\ request[j][q].step # "idle"
    /\ Close(j, q)
    /\ wiped' = wiped \cup {k \in {j} : request[j][q].step = "cleaned"}
    /\ UNCHANGED <<row, owed, partition, task, media, rounds, dlq, handled, faults>>

\* Every step of a request but the commit that writes an event.
SellerStep(j, q) ==
    \/ ReadForApply(j, q)
    \/ ReadForReject(j, q)
    \/ LoadRecord(j, q)
    \/ Flush(j, q)
    \/ CleanUp(j, q)
    \/ SaveRejected(j, q)
    \/ Recleanup(j, q)
    \/ EndRequest(j, q)

-----------------------------------------------------------------------------
(* The consumer loop: run_worker and _process_partition.                   *)

Idle(w) == \A o \in Offsets : task[w][o].step = "none"
Finished(w) == \A o \in Offsets : task[w][o].step \in {"none", "acked", "error"}
FirstOf(w, o) ==
    /\ task[w][o].step # "none"
    /\ \A p \in Offsets : task[w][p].step # "none" => o <= p
Drop(w) == task' = [task EXCEPT ![w] = [o \in Offsets |-> NoTask]]

\* getmany: the next messages after the fetch position, whatever is committed.
Poll(w) ==
    /\ owner = w
    /\ Idle(w)
    /\ \E last \in position + 1 .. Len(log) :
           /\ last <= position + BatchSize
           /\ task' = [task EXCEPT ![w] = [o \in Offsets |->
                  IF o \in position + 1 .. last THEN [NoTask EXCEPT !.step = "begin"]
                  ELSE NoTask]]
           /\ position' = last
    /\ UNCHANGED <<row, owed, log, committed, owner, request, images, rounds, dlq, handled, faults>>

\* Seeded fault: the offset after the next one is committed.
CommitOffsetTooFar(w) ==
    /\ Finished(w)
    /\ owner = w
    /\ \E o \in Offsets :
           /\ FirstOf(w, o)
           /\ task[w][o].step = "acked"
           /\ committed' = o + 1
           /\ task' = [task EXCEPT ![w][o] = NoTask]
    /\ UNCHANGED <<row, owed, log, position, owner, request, images, rounds, dlq, handled, faults>>

\* Seeded fault: offsets are committed as soon as messages are fetched.
CommitOffsetEarly(w) ==
    /\ owner = w
    /\ committed < position
    /\ committed' = position
    /\ UNCHANGED <<row, owed, log, position, owner, task, request, images, rounds, dlq, handled, faults>>

\* Once the whole batch has ended the offsets are committed in order ...
CommitOffset(w) ==
    /\ Finished(w)
    /\ owner = w
    /\ \E o \in Offsets :
           /\ FirstOf(w, o)
           /\ task[w][o].step = "acked"
           /\ committed' = o
           /\ task' = [task EXCEPT ![w][o] = NoTask]
    /\ UNCHANGED <<row, owed, log, position, owner, request, images, rounds, dlq, handled, faults>>

\* ... up to the first error; the fetch position is not moved back.
StopAtError(w) ==
    /\ Finished(w)
    /\ \E o \in Offsets : FirstOf(w, o) /\ task[w][o].step = "error"
    /\ Drop(w)
    /\ UNCHANGED <<row, owed, partition, request, images, rounds, dlq, handled, faults>>

\* The partition is assigned elsewhere: commit raises, the process ends and a
\* supervisor restarts it.
CommitRejected(w) ==
    /\ Finished(w)
    /\ owner # w
    /\ \E o \in Offsets : FirstOf(w, o) /\ task[w][o].step = "acked"
    /\ Drop(w)
    /\ UNCHANGED <<row, owed, partition, request, images, rounds, dlq, handled, faults>>

ConsumerStep(w) == Poll(w) \/ CommitOffset(w) \/ StopAtError(w) \/ CommitRejected(w)

-----------------------------------------------------------------------------
(* One message: process_message and ImageOptimizationJobProcessor.execute. *)

Goto(w, o, step) == task' = [task EXCEPT ![w][o].step = step]
Ack(w, o) == task' = [task EXCEPT ![w][o] = [NoTask EXCEPT !.step = "acked"]] /\ handled' = handled \cup {o}

\* Payloads that do not parse go to the dead-letter topic and count as done.
SendDlq(w, o) ==
    /\ task[w][o].step = "begin"
    /\ log[o] = Poison
    /\ dlq' = dlq \cup {o}
    /\ Ack(w, o)
    /\ UNCHANGED <<row, owed, partition, request, images, rounds, faults>>

\* claim_for_processing: the claim is committed before any external call.
ClaimJob(w, o) ==
    LET j == log[o] IN
    /\ task[w][o].step = "begin"
    /\ j \in Jobs
    /\ Unlocked(j)
    /\ CanClaim(row[j])
    /\ row' = [row EXCEPT ![j] = Claim(@)]
    /\ task' = [task EXCEPT ![w][o] =
                   [NoTask EXCEPT !.step = "claimed", !.loaded = Claim(row[j])]]
    /\ UNCHANGED <<owed, partition, request, images, rounds, dlq, handled, faults>>

\* SKIP LOCKED or a job that cannot be claimed: redelivery is a no-op.
SkipMessage(w, o) ==
    LET j == log[o] IN
    /\ task[w][o].step = "begin"
    /\ j \in Jobs
    /\ ~(Unlocked(j) /\ CanClaim(row[j]))
    /\ Ack(w, o)
    /\ UNCHANGED <<row, owed, partition, request, images, rounds, dlq, faults>>

\* The claim was one too many, or a download failed: the job fails at once, in
\* the only save of its transaction.
GiveUp(w, o) ==
    /\ task[w][o].step = "claimed"
    /\ task' = [task EXCEPT ![w][o].step = "givingup", ![w][o].record = row[log[o]]]
    /\ UNCHANGED <<row, owed, partition, request, images, rounds, dlq, handled, faults>>

SaveGivenUp(w, o) ==
    LET j == log[o]
        job == task[w][o].loaded
    IN
    /\ task[w][o].step = "givingup"
    /\ Unlocked(j)
    /\ row' = [row EXCEPT ![j] = WriteBack(@, task[w][o].record, Failed(job, FailureOf(job)))]
    /\ Ack(w, o)
    /\ UNCHANGED <<owed, partition, request, images, rounds, dlq, faults>>

\* Seeded fault: the attempt budget is not checked.
StartGeneratingUncapped(w, o) ==
    /\ task[w][o].step = "claimed"
    /\ Unlocked(log[o])
    /\ Goto(w, o, "generate")
    /\ UNCHANGED <<row, owed, partition, request, images, rounds, dlq, handled, faults>>

\* Sources downloaded: saving PREPARING_IMAGE and GENERATING takes the lock.
StartGenerating(w, o) ==
    /\ task[w][o].step = "claimed"
    /\ task[w][o].loaded.attempt <= MaxRetry
    /\ Unlocked(log[o])
    /\ Goto(w, o, "generate")
    /\ UNCHANGED <<row, owed, partition, request, images, rounds, dlq, handled, faults>>

\* The last of several saves of a transaction: the row is locked since the first,
\* and all its columns become those of the aggregate.
Save(j, job) == row' = [row EXCEPT ![j] = WriteBack(@, @, job)]

\* A preview is made of one source only.
Targets(job) ==
    LET chosen == IF job.profile = "PREVIEW" THEN {{s} : s \in job.sources} ELSE {job.sources}
    IN  {{[source |-> s, mode |-> m, profile |-> job.profile, attempt |-> job.attempt] :
             s \in sources, m \in job.modes} : sources \in chosen}

\* The mode of every target is called and paid once, never again after a timeout.
PayRound(j) == rounds' = [rounds EXCEPT ![j] = @ + 1]

\* What the uploads of a round can come to.  One whose answer is lost leaves an
\* asset behind that the job does not know of.
Uploads(targets) ==
    {u \in [stored : SUBSET targets, reported : SUBSET targets] : u.reported \subseteq u.stored}

\* Only results in front of the first failure count as outputs, and without any
\* there is nothing to clean up.
StepAfter(targets, reported) ==
    IF reported = targets THEN {"ready"}
    ELSE IF reported = {} THEN {"failing"} ELSE {"cleanup", "failing"}

\* One call and one upload per source and mode, all at once.
CallProviders(w, o) ==
    LET j == log[o] IN
    /\ task[w][o].step = "generate"
    /\ PayRound(j)
    /\ \E targets \in Targets(task[w][o].loaded) : \E u \in Uploads(targets) :
           /\ media' = [media EXCEPT ![j] = @ \cup u.stored]
           /\ \E step \in StepAfter(targets, u.reported) :
                  task' = [task EXCEPT ![w][o].step = step, ![w][o].made = u.reported]
    /\ UNCHANGED <<row, owed, partition, request, wiped, dlq, handled, faults>>

SaveCompleted(w, o) ==
    LET j == log[o] IN
    /\ task[w][o].step = "ready"
    /\ Save(j, Completed(task[w][o].loaded, task[w][o].made))
    /\ Ack(w, o)
    /\ UNCHANGED <<owed, partition, request, images, rounds, dlq, faults>>

\* Cleanup removes everything under the job's prefix, or fails and is recorded.
SaveCleanedUp(w, o) ==
    LET j == log[o] IN
    /\ task[w][o].step = "cleanup"
    /\ \/ /\ media' = [media EXCEPT ![j] = {}]
          /\ Save(j, Failed(Generating(task[w][o].loaded), "PIPELINE"))
       \/ /\ media' \in {media, [media EXCEPT ![j] = {}]}
          /\ Save(j, Failed(Generating(task[w][o].loaded), "CLEANUP_PENDING"))
    /\ Ack(w, o)
    /\ UNCHANGED <<owed, partition, request, wiped, rounds, dlq, faults>>

SaveFailed(w, o) ==
    /\ task[w][o].step = "failing"
    /\ Save(log[o], Failed(Generating(task[w][o].loaded), "PIPELINE"))
    /\ Ack(w, o)
    /\ UNCHANGED <<owed, partition, request, images, rounds, dlq, faults>>

TaskStep(w, o) ==
    \/ SendDlq(w, o)
    \/ ClaimJob(w, o)
    \/ SkipMessage(w, o)
    \/ GiveUp(w, o)
    \/ SaveGivenUp(w, o)
    \/ StartGenerating(w, o)
    \/ CallProviders(w, o)
    \/ SaveCompleted(w, o)
    \/ SaveCleanedUp(w, o)
    \/ SaveFailed(w, o)

-----------------------------------------------------------------------------
(* Faults and time.                                                        *)

\* An exception execute() does not catch, such as a lost database connection:
\* the open transaction rolls back and the message counts as failed.
TaskError(w, o) ==
    /\ task[w][o].step \in ActiveSteps \cup {"begin"}
    /\ log[o] # Poison
    /\ errors < MaxErrors
    /\ errors' = errors + 1
    /\ task' = [task EXCEPT ![w][o] = [NoTask EXCEPT !.step = "error"]]
    /\ UNCHANGED <<row, owed, partition, request, images, rounds, dlq, handled, rebalances, crashes>>

\* The group takes the partition away from a worker that may still be busy.
Rebalance(w) ==
    /\ owner # w
    /\ rebalances < MaxRebalances
    /\ rebalances' = rebalances + 1
    /\ owner' = w
    /\ position' = committed
    /\ UNCHANGED <<row, owed, log, committed, task, request, images, rounds, dlq, handled, errors, crashes>>

\* The process dies, its transactions roll back and its partition is reassigned.
Crash(w) ==
    /\ ~Idle(w)
    /\ crashes < MaxCrashes
    /\ crashes' = crashes + 1
    /\ Drop(w)
    /\ IF owner = w THEN owner' \in Workers /\ position' = committed
       ELSE UNCHANGED <<owner, position>>
    /\ UNCHANGED <<row, owed, log, committed, request, images, rounds, dlq, handled, rebalances, errors>>

\* Time runs the leases down; a Prompt task has its first save by then.
Tick ==
    /\ Prompt => \A w \in Workers, o \in DOMAIN log :
                     task[w][o].step \in UnlockedSteps => row[log[o]].lease > 1
    /\ row' = [j \in Jobs |-> [row[j] EXCEPT !.lease = IF @ > 0 THEN @ - 1 ELSE 0]]
    /\ UNCHANGED <<owed, partition, task, request, images, rounds, dlq, handled, faults>>

Next ==
    \/ \E j \in Jobs : Publish(j) \/ Republish(j)
    \/ \E j \in Jobs, q \in Requests : SaveFinalizing(j, q) \/ SellerStep(j, q)
    \/ PublishPoison
    \/ \E w \in Workers : ConsumerStep(w) \/ Rebalance(w) \/ Crash(w)
    \/ \E w \in Workers, o \in DOMAIN log : TaskStep(w, o) \/ TaskError(w, o)
    \/ Tick

Spec == Init /\ [][Next]_vars

\* A request that was read has its answer, or none, within the time-outs of HTTP.
Answer(j, q) == request[j][q].step # "idle" /\ (SaveFinalizing(j, q) \/ SellerStep(j, q))

\* The relay publishes what it holds, time passes, requests end, and every worker
\* process keeps polling and driving each of its tasks.
Fairness ==
    /\ WF_vars(Tick)
    /\ \A j \in Jobs : WF_vars(Publish(j))
    /\ \A j \in Jobs, q \in Requests : WF_vars(Answer(j, q))
    /\ \A w \in Workers : WF_vars(ConsumerStep(w))
    /\ \A w \in Workers, o \in Offsets : WF_vars(o \in DOMAIN log /\ TaskStep(w, o))
FairSpec == Spec /\ Fairness

-----------------------------------------------------------------------------
(* Properties.  Those of the pipeline hold on two conditions: Prompt, and   *)
(* OneByOne.  A second finalization that read the job before the first one  *)
(* was committed puts FINALIZING and the old attempt back over the row of a *)
(* worker, and a third claim goes through: save() compares no versions.     *)

\* A job has one request at a time: none is read before the transaction of the
\* last one has ended, which is after its response.
OneByOne == \A q, r \in Requests : q = r

\* claim_for_processing: under Prompt and OneByOne one worker at a time has the
\* aggregate.  The lease covers the download and the row lock the provider calls.
OneTaskPerJob ==
    \A v, w \in Workers : \A o, p \in DOMAIN log :
        /\ task[v][o].step \in ActiveSteps
        /\ task[w][p].step \in ActiveSteps
        /\ log[o] = log[p]
        => v = w /\ o = p

\* Under Prompt and OneByOne provider calls are paid at most once per claim, and
\* AI_IMAGE_MAX_RETRY_ATTEMPTS caps them for the whole life of a job, previews and
\* finals together, whatever is redelivered and whoever crashes.
PaidRoundsCapped == \A j \in Jobs : rounds[j] <= MaxRetry /\ rounds[j] <= row[j].attempt

\* image_optimization_worker.py:3: as long as no task raised an error, an offset
\* is only committed past messages that were handled; a crash or a rebalance
\* redelivers the others.
CommittedWasHandled == errors = 0 => \A o \in 1..committed : o \in handled

\* The Media Service has answered the cleanup of a reject that is not committed.
BeingRejected(j) == \E q \in Requests : request[j][q].step = "cleaned"

\* Under Prompt and OneByOne a job shown to the seller has outputs of the profile
\* its row names, although earlier attempts failed and cleaned up.  All of them
\* are still stored unless a reject has removed them: one about to be committed,
\* or one that was rolled back after its cleanup (reject_job.py:38).
ReviewedOutputsExist ==
    \A j \in Jobs : row[j].status = "REVIEW_REQUIRED" =>
        /\ row[j].outputs # {}
        /\ row[j].outputs \subseteq media[j] \/ BeingRejected(j) \/ j \in wiped
        /\ \A a \in row[j].outputs : a.profile = row[j].profile /\ a.attempt = row[j].attempt

\* sqlalchemy_repository.py:124 says an expired lease lets another worker
\* recover the job: no job stays PENDING, PROCESSING or FINALIZING for ever.
Open(j) == row[j].status \in {"PENDING", "PROCESSING", "FINALIZING"}
LeaseAllowsRecovery == \A j \in Jobs : Open(j) ~> ~Open(j)

\* image_optimization_worker.py:85 says a later message is never committed past
\* a failed one.
NeverCommittedPastFailure == \A o \in 1..committed : o \in handled
=============================================================================
