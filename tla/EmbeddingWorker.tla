-------------------------- MODULE EmbeddingWorker --------------------------
(***************************************************************************)
(* The product embedding worker: modules/embeddings/infrastructure/        *)
(* messaging/worker.py and openai_provider.py, one message at a time from  *)
(* one Kafka partition.  A generated payload is cached in Redis before it  *)
(* is published, so that a redelivered request need not be paid again.     *)
(***************************************************************************)
EXTENDS Naturals, FiniteSets, Sequences

CONSTANTS
    Items,          \* job id, content hash and model version: the cache key
    Malformed,      \* a message _parse or the model version check refuses
    Workers,        \* worker processes of the consumer group
    Nothing,        \* a worker without a message
    MaxLog,         \* bound: messages in the partition
    MaxRebalances,  \* bound: times the group moves the partition
    MaxCrashes,     \* bound: worker processes that may die
    MaxSendErrors,  \* bound: publishes of generated events that fail
    MaxCacheFaults  \* bound: Redis reads and writes that fail or expire

ASSUME EmbeddingAssumption ==
    /\ Malformed \notin Items
    /\ Nothing \notin Nat
    /\ {MaxLog, MaxRebalances, MaxCrashes, MaxSendErrors, MaxCacheFaults} \subseteq Nat

VARIABLES
    log,         \* the partition
    committed,   \* committed offset: messages consumed for good
    position,    \* offset the owner has fetched up to
    owner,       \* worker the partition is assigned to
    worker,      \* the message each worker has and what it does with it
    joined,      \* the group has committed an offset in the partition
    skipped,     \* offsets an offset reset jumped over
    cache,       \* cache keys Redis holds
    paid,        \* successful provider calls, by item
    generated,   \* items on the generated topic
    dlq,         \* offsets on the dead-letter topic
    rebalances, crashes, sendErrors, cacheFaults

partition == <<log, committed, position, owner, joined, skipped>>
outputs == <<paid, generated, dlq>>
faults == <<rebalances, crashes, sendErrors, cacheFaults>>
vars == <<partition, worker, cache, outputs, faults>>

Free == [step |-> "next", at |-> Nothing]

TypeOK ==
    /\ log \in Seq(Items \cup {Malformed})
    /\ committed \in 0..Len(log)
    /\ position \in 0..Len(log)
    /\ owner \in Workers
    /\ worker \in [Workers ->
           [step : {"next", "parse", "call", "store", "publish", "reject", "commit"},
            at : (1..MaxLog) \cup {Nothing}]]
    /\ \A w \in Workers : worker[w].step = "next" <=> worker[w].at = Nothing
    /\ joined \in BOOLEAN
    /\ skipped \subseteq 1..MaxLog
    /\ cache \subseteq Items
    /\ paid \in [Items -> Nat]
    /\ generated \subseteq Items
    /\ dlq \subseteq 1..MaxLog
    /\ {rebalances, crashes, sendErrors, cacheFaults} \subseteq Nat

Init ==
    /\ log = <<>>
    /\ committed = 0
    /\ position = 0
    /\ owner \in Workers
    /\ worker = [w \in Workers |-> Free]
    /\ joined \in BOOLEAN
    /\ skipped = {}
    /\ cache = {}
    /\ paid = [i \in Items |-> 0]
    /\ generated = {}
    /\ dlq = {}
    /\ rebalances = 0
    /\ crashes = 0
    /\ sendErrors = 0
    /\ cacheFaults = 0

At(w, step) == worker[w].step = step
Message(w) == log[worker[w].at]
Goto(w, step) == worker' = [worker EXCEPT ![w].step = step]
Release(w) == worker' = [worker EXCEPT ![w] = Free]

-----------------------------------------------------------------------------

\* The Recommendation Service requests an embedding, possibly more than once.
Request(message) ==
    /\ Len(log) < MaxLog
    /\ log' = Append(log, message)
    /\ UNCHANGED <<committed, position, owner, joined, skipped, worker, cache, outputs, faults>>

\* The consumer hands out messages by fetch position, not by committed offset.
Fetch(w) ==
    /\ At(w, "next")
    /\ owner = w
    /\ position < Len(log)
    /\ position' = position + 1
    /\ worker' = [worker EXCEPT ![w] = [step |-> "parse", at |-> position + 1]]
    /\ UNCHANGED <<log, committed, owner, joined, skipped, cache, outputs, faults>>

\* Seeded fault, not part of the model: a refused message is only logged.
RefuseSilently(w) ==
    /\ At(w, "parse")
    /\ Message(w) = Malformed
    /\ Goto(w, "commit")
    /\ UNCHANGED <<partition, cache, outputs, faults>>

Refuse(w) ==
    /\ At(w, "parse")
    /\ Message(w) = Malformed
    /\ Goto(w, "reject")
    /\ UNCHANGED <<partition, cache, outputs, faults>>

\* Seeded fault, not part of the model: the cache is not looked at.
LookUpNever(w) ==
    /\ At(w, "parse")
    /\ Message(w) # Malformed
    /\ Goto(w, "call")
    /\ UNCHANGED <<partition, cache, outputs, faults>>

LookUp(w) ==
    /\ At(w, "parse")
    /\ Message(w) # Malformed
    /\ Goto(w, IF Message(w) \in cache THEN "publish" ELSE "call")
    /\ UNCHANGED <<partition, cache, outputs, faults>>

\* A Redis error on the read counts as a miss.
LookUpFails(w) ==
    /\ At(w, "parse")
    /\ Message(w) \in cache
    /\ cacheFaults < MaxCacheFaults
    /\ cacheFaults' = cacheFaults + 1
    /\ Goto(w, "call")
    /\ UNCHANGED <<partition, cache, outputs, rebalances, crashes, sendErrors>>

\* provider.generate returned a vector of the right length.
CallSucceeds(w) ==
    /\ At(w, "call")
    /\ paid' = [paid EXCEPT ![Message(w)] = @ + 1]
    /\ Goto(w, "store")
    /\ UNCHANGED <<partition, cache, generated, dlq, faults>>

\* The provider stays unavailable over its retries, or answers a wrong vector.
CallFails(w) ==
    /\ At(w, "call")
    /\ Goto(w, "reject")
    /\ UNCHANGED <<partition, cache, outputs, faults>>

Store(w) ==
    /\ At(w, "store")
    /\ cache' = cache \cup {Message(w)}
    /\ Goto(w, "publish")
    /\ UNCHANGED <<partition, outputs, faults>>

\* A Redis error on the write is logged and ignored.
StoreFails(w) ==
    /\ At(w, "store")
    /\ cacheFaults < MaxCacheFaults
    /\ cacheFaults' = cacheFaults + 1
    /\ Goto(w, "publish")
    /\ UNCHANGED <<partition, cache, outputs, rebalances, crashes, sendErrors>>

Publish(w) ==
    /\ At(w, "publish")
    /\ generated' = generated \cup {Message(w)}
    /\ Goto(w, "commit")
    /\ UNCHANGED <<partition, cache, paid, dlq, faults>>

\* The broker refuses or does not confirm: the message is left uncommitted and
\* the loop goes on with the next one.
PublishFails(w) ==
    /\ At(w, "publish")
    /\ sendErrors < MaxSendErrors
    /\ sendErrors' = sendErrors + 1
    /\ generated' \in {generated, generated \cup {Message(w)}}
    /\ Release(w)
    /\ UNCHANGED <<partition, cache, paid, dlq, rebalances, crashes, cacheFaults>>

SendDlq(w) ==
    /\ At(w, "reject")
    /\ dlq' = dlq \cup {worker[w].at}
    /\ Goto(w, "commit")
    /\ UNCHANGED <<partition, cache, paid, generated, faults>>

\* Seeded fault, not part of the model: one offset too many is committed.
CommitTooFar(w) ==
    /\ At(w, "commit")
    /\ owner = w
    /\ committed' = worker[w].at + 1
    /\ joined' = TRUE
    /\ Release(w)
    /\ UNCHANGED <<log, position, owner, skipped, cache, outputs, faults>>

\* Seeded fault, not part of the model: messages are committed when fetched.
CommitEarly(w) ==
    /\ At(w, "parse")
    /\ owner = w
    /\ committed' = worker[w].at
    /\ joined' = TRUE
    /\ UNCHANGED <<log, position, owner, skipped, worker, cache, outputs, faults>>

Commit(w) ==
    /\ At(w, "commit")
    /\ owner = w
    /\ committed' = worker[w].at
    /\ joined' = TRUE
    /\ Release(w)
    /\ UNCHANGED <<log, position, owner, skipped, cache, outputs, faults>>

\* The partition went to another worker: commit raises and the process ends.
CommitRejected(w) ==
    /\ At(w, "commit")
    /\ owner # w
    /\ Release(w)
    /\ UNCHANGED <<partition, cache, outputs, faults>>

Step(w) ==
    \/ Fetch(w)
    \/ Refuse(w)
    \/ LookUp(w)
    \/ LookUpFails(w)
    \/ CallSucceeds(w)
    \/ CallFails(w)
    \/ Store(w)
    \/ StoreFails(w)
    \/ Publish(w)
    \/ PublishFails(w)
    \/ SendDlq(w)
    \/ Commit(w)
    \/ CommitRejected(w)

\* The result's TTL, at most an hour, passes before the message is redelivered.
Expire(i) ==
    /\ i \in cache
    /\ cacheFaults < MaxCacheFaults
    /\ cacheFaults' = cacheFaults + 1
    /\ cache' = cache \ {i}
    /\ UNCHANGED <<partition, worker, outputs, rebalances, crashes, sendErrors>>

\* A new owner starts at the committed offset.  The consumer leaves
\* auto_offset_reset at its default, so without one it starts at the end.
Resume ==
    IF joined THEN position' = committed /\ UNCHANGED skipped
    ELSE position' = Len(log) /\ skipped' = skipped \cup (committed + 1 .. Len(log))

\* The group moves the partition away from a worker that may be busy.
Rebalance(w) ==
    /\ owner # w
    /\ rebalances < MaxRebalances
    /\ rebalances' = rebalances + 1
    /\ owner' = w
    /\ Resume
    /\ UNCHANGED <<log, committed, joined, worker, cache, outputs, crashes, sendErrors, cacheFaults>>

\* The process dies, also when the dead-letter topic refuses a message; its
\* partition is assigned again.
Crash(w) ==
    /\ ~At(w, "next")
    /\ crashes < MaxCrashes
    /\ crashes' = crashes + 1
    /\ Release(w)
    /\ IF owner = w THEN owner' \in Workers /\ Resume
       ELSE UNCHANGED <<owner, position, skipped>>
    /\ UNCHANGED <<log, committed, joined, cache, outputs, rebalances, sendErrors, cacheFaults>>

Next ==
    \/ \E message \in Items \cup {Malformed} : Request(message)
    \/ \E w \in Workers : Step(w) \/ Rebalance(w) \/ Crash(w)
    \/ \E i \in Items : Expire(i)

Spec == Init /\ [][Next]_vars

\* Every worker process keeps consuming.
FairSpec == Spec /\ \A w \in Workers : WF_vars(Step(w))

-----------------------------------------------------------------------------
(* Properties.                                                             *)

Answered(o) == o \in DOMAIN log /\ (log[o] \in generated \/ o \in dlq)

\* worker.py:97 commits only after the broker confirmed the generated event or
\* the dead letter: through crashes, rebalances and a failing Redis no request is
\* committed unanswered.  Failed publishes and offset resets are excluded here.
CommittedWasAnswered ==
    sendErrors = 0 => \A o \in 1..committed : Answered(o) \/ o \in skipped

\* The cache in front of the publish: a second paid call for one result is always
\* due to a crash, a rebalance under a busy worker, or Redis failing or expiring,
\* never to a redelivery or a failed publish alone.
PaidCalls == UNION {{i} \X (1..paid[i]) : i \in Items}
PaidItems == {i \in Items : paid[i] > 0}
RepeatsHaveCauses ==
    Cardinality(PaidCalls) <= Cardinality(PaidItems) + crashes + rebalances + cacheFaults

\* Every requested embedding is eventually generated or dead-lettered, unless a
\* publish fails or an offset reset jumps over it.
EveryRequestAnswered ==
    \A o \in 1..MaxLog :
        (o \in DOMAIN log) ~> (Answered(o) \/ o \in skipped \/ sendErrors > 0)
=============================================================================
