------------------------------- MODULE Outbox -------------------------------
(***************************************************************************)
(* The outbox table and the relay processes that move it to Kafka:         *)
(* infrastructure/persistence/outbox_publisher.py and outbox_relay.py of   *)
(* image_optimization, and the loop of entrypoints/workers/outbox_relay.py.*)
(*                                                                         *)
(* An event is a natural number: its rank in the event_id order the claim  *)
(* query uses.  Wall-clock columns are kept as distances from the present, *)
(* which keeps time unbounded and the state finite: lockAge is the age of  *)
(* locked_at, wait the time left to next_attempt_at, and the elapsed field *)
(* of a relay the age of the `now` it read when its batch started.  Each   *)
(* saturates where the code can no longer tell larger values apart.        *)
(***************************************************************************)
EXTENDS Naturals, FiniteSets

CONSTANTS
    Events,        \* outbox rows the run may create, by event_id rank
    Relays,        \* relay processes
    NoRelay,       \* locked_by IS NULL
    GoneRelay,     \* locked_by holds the id of a process that no longer runs
    NoEvent,       \* a relay that is not working on an event
    MaxAttempts,   \* max_attempts of the relay
    LockTTL,       \* the five minutes after which a claim is stale, in ticks
    DelayCap,      \* the 300 seconds that cap the backoff, in ticks
    BatchSize,     \* batch_size of relay_once
    MaxFailures,   \* bound: sends the brokers may fail
    MaxCrashes     \* bound: relay processes that may die

ASSUME OutboxAssumption ==
    /\ Events \subseteq Nat
    /\ NoEvent \notin Events
    /\ NoRelay \notin Relays
    /\ GoneRelay \notin Relays
    /\ NoRelay # GoneRelay
    /\ MaxAttempts \in Nat \ {0}
    /\ LockTTL \in Nat
    /\ DelayCap \in Nat
    /\ BatchSize \in Nat \ {0}
    /\ MaxFailures \in Nat
    /\ MaxCrashes \in Nat

VARIABLES
    committed,     \* rows the API transactions have inserted
    published,     \* rows with published_at
    deadLettered,  \* rows with dead_lettered_at
    attempts,      \* attempts column
    wait,          \* ticks until next_attempt_at, 0 when due or NULL
    lockedBy,      \* locked_by column
    lockAge,       \* ticks since locked_at
    rowLock,       \* relay whose open transaction holds the row FOR UPDATE
    relay,         \* what each relay process is doing
    topic,         \* events the image request topic holds
    dlq,           \* events the dead-letter topic holds
    failures,      \* failed sends so far
    crashes        \* dead relay processes so far

rowVars == <<committed, published, deadLettered, attempts, wait, lockedBy, lockAge, rowLock>>
brokerVars == <<topic, dlq, failures>>
vars == <<rowVars, relay, brokerVars, crashes>>

Idle == [step |-> "poll", event |-> NoEvent, queue |-> {}, elapsed |-> 0]
Busy == [step : {"send", "ack", "fail", "dlq", "dead"}, event : Events,
         queue : SUBSET Events, elapsed : Nat]

TypeOK ==
    /\ committed \subseteq Events
    /\ published \subseteq Events
    /\ deadLettered \subseteq Events
    /\ attempts \in [Events -> Nat]
    /\ wait \in [Events -> Nat]
    /\ lockedBy \in [Events -> Relays \cup {NoRelay, GoneRelay}]
    /\ lockAge \in [Events -> Nat]
    /\ rowLock \in [Events -> Relays \cup {NoRelay}]
    /\ relay \in [Relays -> {Idle} \cup Busy]
    /\ topic \subseteq Events
    /\ dlq \subseteq Events
    /\ failures \in Nat
    /\ crashes \in Nat

Init ==
    /\ committed = {}
    /\ published = {}
    /\ deadLettered = {}
    /\ attempts = [e \in Events |-> 0]
    /\ wait = [e \in Events |-> 0]
    /\ lockedBy = [e \in Events |-> NoRelay]
    /\ lockAge = [e \in Events |-> 0]
    /\ rowLock = [e \in Events |-> NoRelay]
    /\ relay = [r \in Relays |-> Idle]
    /\ topic = {}
    /\ dlq = {}
    /\ failures = 0
    /\ crashes = 0

-----------------------------------------------------------------------------
(* Helpers.                                                                *)

Least(a, b) == IF a < b THEN a ELSE b
\* Variants marked "Seeded fault" are not part of the model: each states what one
\* plausible bug would turn the next definition into, to test the properties.

\* Seeded fault: a due time in the past is not clamped.
LeftUnclamped(duration, passed) == duration - passed
Left(duration, passed) == IF passed < duration THEN duration - passed ELSE 0

\* 2 ** min(attempts, 8), whose first value belongs to the first failure.
Backoff == <<2, 4, 8, 16, 32, 64, 128, 256>>
Delay(n) == Least(DelayCap, Backoff[Least(n, 8)])

\* Seeded fault: claims of dead relays are never taken over.
ClaimableNeverStale ==
    {e \in committed \ (published \cup deadLettered) :
        wait[e] = 0 /\ lockedBy[e] = NoRelay /\ rowLock[e] = NoRelay}

\* Seeded fault: the claim query forgets the rows that have a verdict.
ClaimableAgain ==
    {e \in committed : /\ wait[e] = 0
                       /\ lockedBy[e] = NoRelay \/ lockAge[e] > LockTTL
                       /\ rowLock[e] = NoRelay}

\* Rows the claim query of relay_once returns before its LIMIT.
Claimable ==
    {e \in committed \ (published \cup deadLettered) :
        /\ wait[e] = 0
        /\ \/ lockedBy[e] = NoRelay
           \/ lockAge[e] > LockTTL
        /\ rowLock[e] = NoRelay}

\* The first BatchSize rows of a set in event_id order.
FirstRows(rows) ==
    {e \in rows : Cardinality({f \in rows : f < e}) < BatchSize}

\* The relay starts the first send of a batch it claimed, in event_id order.
Start(r, rows, elapsed) ==
    \E e \in rows :
        /\ \A f \in rows : e <= f
        /\ relay' = [relay EXCEPT ![r] =
                [step |-> "send", event |-> e, queue |-> rows \ {e}, elapsed |-> elapsed]]

\* The relay turns to the next event of its batch, or leaves relay_once.
Advance(r) ==
    IF relay[r].queue = {} THEN relay' = [relay EXCEPT ![r] = Idle]
    ELSE Start(r, relay[r].queue, relay[r].elapsed)
Goto(r, step) == relay' = [relay EXCEPT ![r].step = step]

Current(r) == relay[r].event
\* Seeded fault: the marks do not compare locked_by.
OwnsUnchecked(r, e) == r \in Relays /\ e \in committed
Owns(r, e) == lockedBy[e] = r

-----------------------------------------------------------------------------
(* The API side: publish_requested inside the transaction of the job.      *)

Enqueue(e) ==
    /\ e \notin committed
    /\ committed' = committed \cup {e}
    /\ UNCHANGED <<published, deadLettered, attempts, wait, lockedBy, lockAge, rowLock>>
    /\ UNCHANGED <<relay, brokerVars, crashes>>

-----------------------------------------------------------------------------
(* The relay.                                                              *)

\* First transaction of relay_once: claim a batch and commit before sending.
ClaimBatch(r) ==
    LET rows == FirstRows(Claimable) IN
    /\ relay[r].step = "poll"
    /\ rows # {}
    /\ lockedBy' = [e \in Events |-> IF e \in rows THEN r ELSE lockedBy[e]]
    /\ lockAge' = [e \in Events |-> IF e \in rows THEN 0 ELSE lockAge[e]]
    /\ Start(r, rows, 0)
    /\ UNCHANGED <<committed, published, deadLettered, attempts, wait, rowLock>>
    /\ UNCHANGED <<brokerVars, crashes>>

\* send_and_wait returned: the broker has the event.
SendAccepted(r) ==
    /\ relay[r].step = "send"
    /\ topic' = topic \cup {Current(r)}
    /\ Goto(r, "ack")
    /\ UNCHANGED <<rowVars, dlq, failures, crashes>>

\* send_and_wait raised KafkaError; after a timeout the broker may hold the
\* event all the same.
SendFailed(r) ==
    /\ relay[r].step = "send"
    /\ failures < MaxFailures
    /\ failures' = failures + 1
    /\ topic' \in {topic, topic \cup {Current(r)}}
    /\ Goto(r, "fail")
    /\ UNCHANGED <<rowVars, dlq, crashes>>

\* _mark_published: the row is only written by the relay it is locked by.
MarkPublished(r) ==
    LET e == Current(r) IN
    /\ relay[r].step = "ack"
    /\ Owns(r, e)
    /\ rowLock[e] = NoRelay
    /\ published' = published \cup {e}
    /\ attempts' = [attempts EXCEPT ![e] = @ + 1]
    /\ wait' = [wait EXCEPT ![e] = 0]
    /\ lockedBy' = [lockedBy EXCEPT ![e] = NoRelay]
    /\ lockAge' = [lockAge EXCEPT ![e] = 0]
    /\ Advance(r)
    /\ UNCHANGED <<committed, deadLettered, rowLock, brokerVars, crashes>>

\* Both marks return early when the claim went to another relay meanwhile.
SkipLost(r) ==
    /\ relay[r].step \in {"ack", "fail"}
    /\ ~Owns(r, Current(r))
    /\ Advance(r)
    /\ UNCHANGED <<rowVars, brokerVars, crashes>>

\* The columns a failed attempt writes; next_attempt_at counts from the `now`
\* the batch started with, not from the failure.
RecordFailure(r, e, delay) ==
    /\ attempts' = [attempts EXCEPT ![e] = @ + 1]
    /\ lockedBy' = [lockedBy EXCEPT ![e] = NoRelay]
    /\ lockAge' = [lockAge EXCEPT ![e] = 0]
    /\ wait' = [wait EXCEPT ![e] = Left(delay, relay[r].elapsed)]

\* _mark_retry_or_dlq with attempts left.
ScheduleRetry(r) ==
    LET e == Current(r) IN
    /\ relay[r].step = "fail"
    /\ rowLock[e] = NoRelay
    /\ Owns(r, e)
    /\ attempts[e] + 1 < MaxAttempts
    /\ RecordFailure(r, e, Delay(attempts[e] + 1))
    /\ Advance(r)
    /\ UNCHANGED <<committed, published, deadLettered, rowLock, brokerVars, crashes>>

\* _mark_retry_or_dlq on the last attempt: the transaction that holds the row
\* stays open while the dead-letter message is sent.
OpenDlqTransaction(r) ==
    LET e == Current(r) IN
    /\ relay[r].step = "fail"
    /\ rowLock[e] = NoRelay
    /\ Owns(r, e)
    /\ attempts[e] + 1 >= MaxAttempts
    /\ rowLock' = [rowLock EXCEPT ![e] = r]
    /\ Goto(r, "dlq")
    /\ UNCHANGED <<committed, published, deadLettered, attempts, wait, lockedBy, lockAge>>
    /\ UNCHANGED <<brokerVars, crashes>>

DlqAccepted(r) ==
    /\ relay[r].step = "dlq"
    /\ dlq' = dlq \cup {Current(r)}
    /\ Goto(r, "dead")
    /\ UNCHANGED <<rowVars, topic, failures, crashes>>

\* KafkaError from the dead-letter send: the row is retried five minutes after
\* the start of the batch.
DlqFailed(r) ==
    LET e == Current(r) IN
    /\ relay[r].step = "dlq"
    /\ failures < MaxFailures
    /\ failures' = failures + 1
    /\ dlq' \in {dlq, dlq \cup {e}}
    /\ RecordFailure(r, e, LockTTL)
    /\ rowLock' = [rowLock EXCEPT ![e] = NoRelay]
    /\ Advance(r)
    /\ UNCHANGED <<committed, published, deadLettered, topic, crashes>>

CommitDeadLetter(r) ==
    LET e == Current(r) IN
    /\ relay[r].step = "dead"
    /\ deadLettered' = deadLettered \cup {e}
    /\ RecordFailure(r, e, 0)
    /\ rowLock' = [rowLock EXCEPT ![e] = NoRelay]
    /\ Advance(r)
    /\ UNCHANGED <<committed, published, brokerVars, crashes>>

\* The process dies and a supervisor starts another one, whose relay_id is a
\* fresh uuid: the open transaction is rolled back, the claims stay.
Crash(r) ==
    /\ crashes < MaxCrashes
    /\ relay[r].step # "poll"
    /\ crashes' = crashes + 1
    /\ relay' = [relay EXCEPT ![r] = Idle]
    /\ rowLock' = [e \in Events |-> IF rowLock[e] = r THEN NoRelay ELSE rowLock[e]]
    /\ lockedBy' = [e \in Events |-> IF lockedBy[e] = r THEN GoneRelay ELSE lockedBy[e]]
    /\ UNCHANGED <<committed, published, deadLettered, attempts, wait, lockAge, brokerVars>>

\* One unit of time: every distance moves, up to where it stops mattering.
Tick ==
    /\ lockAge' = [e \in Events |->
            IF lockedBy[e] = NoRelay THEN 0 ELSE Least(lockAge[e] + 1, LockTTL + 1)]
    /\ wait' = [e \in Events |-> Left(wait[e], 1)]
    /\ relay' = [r \in Relays |->
            IF relay[r].step = "poll" THEN relay[r]
            ELSE [relay[r] EXCEPT !.elapsed = Least(@ + 1, LockTTL + DelayCap)]]
    /\ UNCHANGED <<committed, published, deadLettered, attempts, lockedBy, rowLock>>
    /\ UNCHANGED <<brokerVars, crashes>>

RelayStep(r) ==
    \/ ClaimBatch(r)
    \/ SendAccepted(r)
    \/ SendFailed(r)
    \/ MarkPublished(r)
    \/ SkipLost(r)
    \/ ScheduleRetry(r)
    \/ OpenDlqTransaction(r)
    \/ DlqAccepted(r)
    \/ DlqFailed(r)
    \/ CommitDeadLetter(r)

Next ==
    \/ \E e \in Events : Enqueue(e)
    \/ \E r \in Relays : RelayStep(r)
    \/ \E r \in Relays : Crash(r)
    \/ Tick

Spec == Init /\ [][Next]_vars

\* The supervisor keeps every relay running and time passes; the API may stop
\* creating events and crashes are bounded by MaxCrashes.
Fairness ==
    /\ WF_vars(Tick)
    /\ \A r \in Relays : WF_vars(RelayStep(r))
FairSpec == Spec /\ Fairness

-----------------------------------------------------------------------------
(* Properties.                                                             *)

\* The outbox implements the hand-off it promises.
Delivery == INSTANCE EventDelivery WITH
    pending <- committed \ (published \cup deadLettered)
HandOffRefined == Delivery!Spec

\* A claim (locked_by) only ever sits on a row that still awaits a verdict, so a
\* relay that wakes up late with a row in its batch can overwrite neither
\* published_at nor dead_lettered_at.
ClaimsAwaitVerdict ==
    \A e \in Events : lockedBy[e] # NoRelay => e \in committed \ (published \cup deadLettered)

\* max_attempts: no row is given up before the configured number of attempts,
\* whichever relays made them and whatever crashed in between.
DeadOnlyAfterAttempts == \A e \in deadLettered : attempts[e] >= MaxAttempts

\* What a relay believes about its current event is still true when it acts on
\* it: after a successful send the topic holds it, inside a dead-letter
\* transaction the relay owns both the claim and the row and the attempts are
\* spent, and it is recorded dead only once the dead-letter topic holds it.
RelaysBelieveTruth ==
    \A r \in Relays :
        /\ relay[r].step # "poll" => {Current(r)} \cup relay[r].queue \subseteq committed
        /\ relay[r].step = "ack" => Current(r) \in topic
        /\ relay[r].step \in {"dlq", "dead"} =>
               /\ lockedBy[Current(r)] = r
               /\ rowLock[Current(r)] = r
               /\ attempts[Current(r)] + 1 >= MaxAttempts
        /\ relay[r].step = "dead" => Current(r) \in dlq

\* A verdict is backed by the broker, and no row has two.
VerdictsBacked ==
    /\ published \subseteq committed \cap topic
    /\ deadLettered \subseteq committed \cap dlq
    /\ published \cap deadLettered = {}

\* The inductive invariant: its parts need one another.
Inv ==
    /\ TypeOK
    /\ ClaimsAwaitVerdict
    /\ DeadOnlyAfterAttempts
    /\ RelaysBelieveTruth
    /\ VerdictsBacked

\* One element for every attempt the table counts.
Counted == UNION {{e} \X (1..attempts[e]) : e \in Events}

\* The attempts column only counts sends that were really made: over all rows
\* it never exceeds the failed sends plus one success per published row,
\* although claims change hands while sends are in flight.
AttemptsAreSends == Cardinality(Counted) <= failures + Cardinality(published)

\* From some point on, a running relay marks an event before its claim on it is
\* five minutes old: a single send_and_wait gives up much earlier.
PromptRelays == <>[](\A e \in Events : lockedBy[e] \in Relays => lockAge[e] <= LockTTL)

\* Every event that was committed with its job eventually gets its verdict,
\* although relays die holding claims and brokers fail, as long as relays that
\* keep running are prompt (two relays that are both slower than LockTTL on
\* each send would take the row from one another for ever).
EveryEventSettles ==
    PromptRelays => \A e \in Events : e \in committed ~> e \in published \cup deadLettered
=============================================================================
