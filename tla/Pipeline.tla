------------------------------ MODULE Pipeline ------------------------------
(***************************************************************************)
(* The way of a job from its commit to the seller: the transactional       *)
(* outbox composed with the image workers.  The outbox is the abstract     *)
(* EventDelivery, which Outbox.tla implements; the partition, the workers  *)
(* and the pipeline are ImageWorker, whose relay steps are replaced here.  *)
(*                                                                         *)
(* An event is a job and the profile of the run it asks for: PREVIEW comes *)
(* from the creation of the batch, which lies behind the initial state,    *)
(* FINAL from the seller's approval.  Messages that do not parse are left  *)
(* to ImageWorker.                                                         *)
(***************************************************************************)
EXTENDS ImageWorker

CONSTANT MaxDead   \* bound: events whose attempts are spent

ASSUME PipelineAssumption == MaxDead \in Nat

VARIABLES
    pending,        \* events in the outbox that have no verdict yet
    published,      \* events recorded as published
    deadLettered,   \* events recorded as dead-lettered
    topic,          \* events the request topic was given at least once
    deadTopic       \* events the dead-letter topic of the relay holds

Events == Jobs \X Profiles
Delivery == INSTANCE EventDelivery WITH dlq <- deadTopic

outbox == <<pending, published, deadLettered, topic, deadTopic>>
pipelineVars == <<vars, outbox>>

Undelivered == {e[1] : e \in pending \ topic}

PipelineInit ==
    /\ Init
    /\ pending = Jobs \X {"PREVIEW"}
    /\ published = {}
    /\ deadLettered = {}
    /\ topic = {}
    /\ deadTopic = {}

-----------------------------------------------------------------------------
(* Steps of the relay.                                                     *)

\* A relay sends an event, for the first time, again, or after all.
Deliver(e) ==
    /\ Delivery!HandOver(e)
    /\ e \in pending \ topic \/ Room
    /\ Len(log) < MaxLog
    /\ Send(e[1])
    /\ owed' = Undelivered'
    /\ UNCHANGED <<row, committed, position, owner, task, request, images, rounds, dlq, handled, faults>>

RecordPublished(e) == Delivery!Publish(e) /\ UNCHANGED vars

\* Its attempts are spent: the event goes to the dead-letter topic ...
DeliverDead(e) ==
    /\ Cardinality(deadTopic) < MaxDead
    /\ Delivery!HandOverDead(e)
    /\ UNCHANGED vars

\* ... and is closed in the outbox.  Nobody tells the job.
RecordDead(e) ==
    /\ Delivery!DeadLetter(e)
    /\ owed' = Undelivered'
    /\ UNCHANGED <<row, partition, task, request, images, rounds, dlq, handled, faults>>

RelayStep(e) == Deliver(e) \/ RecordPublished(e) \/ DeliverDead(e) \/ RecordDead(e)

-----------------------------------------------------------------------------
(* Steps of the others.                                                    *)

\* Seeded fault: the job is saved without an event.
SellerApprovesUnsent(j, q) == SaveFinalizing(j, q) /\ UNCHANGED outbox

\* The job and the event of its final run are committed together.  A bound: the
\* outbox is given one such event per job.
SellerApproves(j, q) == SaveFinalizing(j, q) /\ Delivery!Enqueue(<<j, "FINAL">>)
RequestStep(j, q) == SellerStep(j, q) /\ UNCHANGED outbox

WorkerStep(w) == (ConsumerStep(w) \/ Rebalance(w) \/ Crash(w)) /\ UNCHANGED outbox
MessageStep(w, o) == (TaskStep(w, o) \/ TaskError(w, o)) /\ UNCHANGED outbox
TimeStep == Tick /\ UNCHANGED outbox

PipelineNext ==
    \/ \E e \in Events : RelayStep(e)
    \/ \E j \in Jobs, q \in Requests : SellerApproves(j, q) \/ RequestStep(j, q)
    \/ \E w \in Workers : WorkerStep(w)
    \/ \E w \in Workers, o \in DOMAIN log : MessageStep(w, o)
    \/ TimeStep

PipelineSpec == PipelineInit /\ [][PipelineNext]_pipelineVars

\* As in ImageWorker; of the relay, that every event it holds gets a verdict,
\* which Outbox shows of the relays (EveryEventSettles).
PipelineFairness ==
    /\ WF_pipelineVars(TimeStep)
    /\ \A e \in Events : WF_pipelineVars(e \in pending /\ RelayStep(e))
    /\ \A j \in Jobs, q \in Requests : WF_pipelineVars(
           request[j][q].step # "idle" /\ (SellerApproves(j, q) \/ RequestStep(j, q)))
    /\ \A w \in Workers : WF_pipelineVars(ConsumerStep(w) /\ UNCHANGED outbox)
    /\ \A w \in Workers, o \in Offsets :
           WF_pipelineVars(o \in DOMAIN log /\ TaskStep(w, o) /\ UNCHANGED outbox)
PipelineFairSpec == PipelineSpec /\ PipelineFairness

-----------------------------------------------------------------------------
(* Properties.                                                             *)

\* What still carries a job on: its event in the outbox, a message that is not
\* consumed, or a task at work on it.
Event(j) == <<j, row[j].profile>>
Waiting(j) == \E o \in committed + 1 .. Len(log) : log[o] = j /\ o \notin handled
Worked(j) == \E w \in Workers, o \in DOMAIN log : log[o] = j /\ task[w][o].step \in ActiveSteps

\* README.md's outbox promise seen from the job, under Prompt and OneByOne (SKIP
\* LOCKED drops a message that meets an overlapping save): as long as no task raised
\* an error, a job that waits to be claimed has its event in the outbox or an
\* unconsumed message, unless its event was dead-lettered, and this also when
\* workers die and partitions move.  A claimed job is being worked on as long as
\* no worker died.
OpenJobsAreCarried ==
    \A j \in Jobs :
        /\ errors = 0 /\ row[j].status \in {"PENDING", "FINALIZING"} =>
               Event(j) \in pending \cup deadLettered \/ Waiting(j)
        /\ errors + crashes = 0 /\ row[j].status = "PROCESSING" => Worked(j)

\* outbox_relay.py:174: where no worker dies, no task raises an error and requests
\* on a job come one by one, it stays open for ever only if its event was dead-lettered, however slow downloads
\* are, however often messages are repeated and wherever the partition goes.
SettlesUnlessDead ==
    \A j \in Jobs :
        Open(j) ~> \/ ~Open(j)
                   \/ Event(j) \in deadLettered
                   \/ errors + crashes > 0 \/ ~OneByOne

\* The pipeline as the seller sees it.
Phase(j) ==
    CASE Open(j) -> "waiting"
      [] row[j].status = "REVIEW_REQUIRED" -> "review"
      [] row[j].status = "FAILED" -> "failed"
      [] OTHER -> "rejected"
Lifecycle == INSTANCE JobLifecycle WITH
    Budget <- MaxRetry,
    phase  <- [j \in Jobs |-> Phase(j)],
    final  <- {j \in Jobs : row[j].profile = "FINAL"},
    spent  <- rounds

\* Under Prompt and OneByOne repeated messages, moving partitions, dying workers,
\* failing tasks and lost requests never show: every step is one of JobLifecycle
\* or invisible.
LifecycleRefined == Lifecycle!Spec
=============================================================================
