---------------------------- MODULE CreateBatch ----------------------------
(***************************************************************************)
(* Idempotent creation of optimisation jobs: create_batch.py with          *)
(* save_batch and find_batch of the repository, for the requests of one    *)
(* seller.  Each request runs in a transaction of its own; the quota lives *)
(* in Redis, outside of it, and is spent for good.  The transaction is     *)
(* closed by a FastAPI dependency with yield (dependencies.py:117), which  *)
(* FastAPI leaves after the response has been sent (since 0.118;           *)
(* requirements.txt has a later one): a caller hears of a batch before it  *)
(* is committed.                                                           *)
(*                                                                         *)
(* A payload is what the request hash covers; one product per request is   *)
(* all the use case accepts, so a batch is its one job and its one event.  *)
(*                                                                         *)
(* Two conditions of this model: it is one window of the quota, whose      *)
(* entries do not leave it (ContentSuggestions has the sliding window),    *)
(* and the environment is production: elsewhere dependencies.py:99 sets    *)
(* no limiter, and there is no quota to cover anything.                    *)
(***************************************************************************)
EXTENDS Naturals, FiniteSets

CONSTANTS
    Keys,         \* Idempotency-Key values
    ShortKeys,    \* those the router takes but ImageOptimizationBatch.create does not
    Payloads,     \* request hashes
    Requests,     \* requests that can be open at the same time
    NoBatch,      \* the key has no committed batch
    Limit,        \* quota of the window
    MaxRequests,  \* bound: requests in total
    MaxLost       \* bound: requests that die or lose their answer

ASSUME CreateAssumption ==
    /\ Limit \in Nat \ {0}
    /\ ShortKeys \subseteq Keys
    /\ {MaxRequests, MaxLost} \subseteq Nat
    /\ NoBatch \notin [id : Nat, payload : Payloads]

VARIABLES
    batch,     \* committed batch, by key
    used,      \* quota entries in Redis
    request,   \* open requests
    answers,   \* what callers have been told
    unkept,    \* ghost: batches whose transaction died after the response had left
    started, lost

vars == <<batch, used, request, answers, unkept, started, lost>>

Batch == [id : Nat, payload : Payloads]

\* limited and conflict remember the batch their key had at the time.
Answer ==
    [kind : {"created", "returned", "conflict", "limited"},
     key : Keys, payload : Payloads, batch : Batch \cup {NoBatch}]

TypeOK ==
    /\ batch \in [Keys -> Batch \cup {NoBatch}]
    /\ used \in 0..Limit
    /\ \A q \in Requests :
           request[q].step \in {"idle", "resolve", "quota", "insert", "jobs", "commit"}
    /\ answers \subseteq Answer
    /\ unkept \subseteq Batch
    /\ started \in 0..MaxRequests
    /\ lost \in 0..MaxLost

Closed == [step |-> "idle"]

Init ==
    /\ batch = [k \in Keys |-> NoBatch]
    /\ used = 0
    /\ request = [q \in Requests |-> Closed]
    /\ answers = {}
    /\ unkept = {}
    /\ started = 0
    /\ lost = 0

At(q, step) == request[q].step = step
Goto(q, step) == request' = [request EXCEPT ![q].step = step]

Tell(kind, key, payload, found) ==
    answers' = answers \cup {[kind |-> kind, key |-> key, payload |-> payload, batch |-> found]}

\* A batch of the key exists: the same payload gets it back, another one a 409.
AnswerWith(found, key, payload) ==
    Tell(IF found.payload = payload THEN "returned" ELSE "conflict", key, payload, found)

-----------------------------------------------------------------------------

\* find_batch comes first: an exact retry of a finished request stops here.
ReadKey(q, k, p) ==
    /\ At(q, "idle")
    /\ started < MaxRequests
    /\ started' = started + 1
    /\ IF batch[k] # NoBatch
       THEN AnswerWith(batch[k], k, p) /\ UNCHANGED request
       ELSE /\ request' = [request EXCEPT ![q] =
                    [step |-> "resolve", key |-> k, payload |-> p, id |-> started]]
            /\ UNCHANGED answers
    /\ UNCHANGED <<batch, used, unkept, lost>>

\* Definitions marked "Seeded fault" are not part of the model: each states what
\* one plausible bug would turn the next definition into, to test the properties.

\* Seeded fault: the request writes without having taken quota.
ResolveUnmetered(q) ==
    /\ At(q, "resolve")
    /\ Goto(q, "insert")
    /\ UNCHANGED <<batch, used, answers, unkept, started, lost>>

\* Product Service confirms owner and source asset, before any quota is spent ...
Resolve(q) ==
    /\ At(q, "resolve")
    /\ Goto(q, "quota")
    /\ UNCHANGED <<batch, used, answers, unkept, started, lost>>

\* ... or refuses: the request ends without a trace.
ResolveRefused(q) ==
    /\ At(q, "resolve")
    /\ request' = [request EXCEPT ![q] = Closed]
    /\ UNCHANGED <<batch, used, answers, unkept, started, lost>>

\* Seeded fault: the entry at the limit is let through.
TakeQuotaOneMore(q) ==
    /\ At(q, "quota")
    /\ used <= Limit
    /\ used' = used + 1
    /\ Goto(q, "insert")
    /\ UNCHANGED <<batch, answers, unkept, started, lost>>

\* The limiter counts atomically in Redis; nothing gives an entry back.
TakeQuota(q) ==
    /\ At(q, "quota")
    /\ used < Limit
    /\ used' = used + 1
    /\ Goto(q, "insert")
    /\ UNCHANGED <<batch, answers, unkept, started, lost>>

OverQuota(q) ==
    LET r == request[q] IN
    /\ At(q, "quota")
    /\ used >= Limit
    /\ Tell("limited", r.key, r.payload, batch[r.key])
    /\ request' = [request EXCEPT ![q] = Closed]
    /\ UNCHANGED <<batch, used, unkept, started, lost>>

\* A key of less than eight characters is refused only now, by the batch itself:
\* the caller gets an error of the server, and the quota entry is gone.
RefuseKey(q) ==
    /\ At(q, "insert")
    /\ request[q].key \in ShortKeys
    /\ request' = [request EXCEPT ![q] = Closed]
    /\ UNCHANGED <<batch, used, answers, unkept, started, lost>>

\* Seeded fault: no unique constraint makes a second insert wait.
InsertWaitsNever(q) == At(q, "idle")
\* INSERT ... ON CONFLICT DO NOTHING waits while another transaction holds an
\* uncommitted row of the key.
InsertWaits(q) ==
    \E r \in Requests \ {q} :
        request[r].step \in {"jobs", "commit"} /\ request[r].key = request[q].key

InsertBatch(q) ==
    /\ At(q, "insert")
    /\ request[q].key \notin ShortKeys
    /\ ~InsertWaits(q)
    /\ batch[request[q].key] = NoBatch
    /\ Goto(q, "jobs")
    /\ UNCHANGED <<batch, used, answers, unkept, started, lost>>

\* The insert found a batch committed since the first read.
InsertConflicts(q) ==
    LET r == request[q] IN
    /\ At(q, "insert")
    /\ ~InsertWaits(q)
    /\ batch[r.key] # NoBatch
    /\ AnswerWith(batch[r.key], r.key, r.payload)
    /\ request' = [request EXCEPT ![q] = Closed]
    /\ UNCHANGED <<batch, used, unkept, started, lost>>

\* What the transaction of a request writes: batch, job and outbox event.
Made(q) == [id |-> request[q].id, payload |-> request[q].payload]

\* Batch, job and event are flushed, and the response is on its way ...
AnswerCreated(q) ==
    /\ At(q, "jobs")
    /\ Tell("created", request[q].key, request[q].payload, Made(q))
    /\ Goto(q, "commit")
    /\ UNCHANGED <<batch, used, unkept, started, lost>>

\* ... before all three are committed together.
CommitBatch(q) ==
    /\ At(q, "commit")
    /\ batch' = [batch EXCEPT ![request[q].key] = Made(q)]
    /\ request' = [request EXCEPT ![q] = Closed]
    /\ UNCHANGED <<used, answers, unkept, started, lost>>

\* The request dies: its transaction rolls back, its quota entry stays.
Die(q) ==
    /\ ~At(q, "idle")
    /\ lost < MaxLost
    /\ lost' = lost + 1
    /\ unkept' = unkept \cup {b \in {Made(q)} : At(q, "commit")}
    /\ request' = [request EXCEPT ![q] = Closed]
    /\ UNCHANGED <<batch, used, answers, started>>

\* The response does not reach the caller; the transaction commits all the same.
AnswerLost(q) ==
    /\ At(q, "jobs")
    /\ lost < MaxLost
    /\ lost' = lost + 1
    /\ Goto(q, "commit")
    /\ UNCHANGED <<batch, used, answers, unkept, started>>

RequestStep(q) ==
    \/ \E k \in Keys, p \in Payloads : ReadKey(q, k, p)
    \/ Resolve(q)
    \/ ResolveRefused(q)
    \/ TakeQuota(q)
    \/ OverQuota(q)
    \/ RefuseKey(q)
    \/ InsertBatch(q)
    \/ InsertConflicts(q)
    \/ AnswerCreated(q)
    \/ CommitBatch(q)
    \/ Die(q)
    \/ AnswerLost(q)

Next == \E q \in Requests : RequestStep(q)

Spec == Init /\ [][Next]_vars

-----------------------------------------------------------------------------
(* Properties.                                                             *)

\* Whatever races and retries, every caller of a key is told of one batch: the
\* one that is committed, returned only for its own payload, and refused only for
\* another one.  Who is told that its own batch was created is told early: the
\* promise is good once the request has ended, unless it died in between.
CallersAgree ==
    \A a \in answers :
        /\ a.kind = "returned" => batch[a.key] = a.batch
        /\ a.kind \in {"created", "returned"} => a.batch.payload = a.payload
        /\ a.kind = "created" =>
               \/ batch[a.key] = a.batch
               \/ a.batch \in unkept
               \/ \E q \in Requests : At(q, "commit") /\ Made(q) = a.batch
        /\ a.kind = "conflict" =>
               batch[a.key] # NoBatch /\ batch[a.key].payload # a.payload

\* The quota caps the paid work: in production (dependencies.py:99), within one
\* window, every committed batch has an entry of its own, besides those of the
\* requests that are about to write.
QuotaCoversBatches ==
    Cardinality({k \in Keys : batch[k] # NoBatch})
        + Cardinality({q \in Requests : request[q].step \in {"insert", "jobs", "commit"}}) <= used
=============================================================================
