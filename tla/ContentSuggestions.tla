------------------------- MODULE ContentSuggestions -------------------------
(***************************************************************************)
(* Paid product names and descriptions: modules/product_content with the   *)
(* Redis result cache and the Redis sliding-window limiter both use cases  *)
(* share.  GenerateProductNames and GenerateProductDescription run the     *)
(* same steps: cache, quota of the seller, provider, sanitizing, cache.    *)
(*                                                                         *)
(* The quota script is atomic in Redis but decides by a clock the API      *)
(* process read before it sent the script; up to MaxLag passes in between. *)
(* The clocks of the API processes agree.  One seller, one quota key.      *)
(*                                                                         *)
(* Around every request, middleware of bootstrap/api.py keeps the gauge    *)
(* http_requests_in_flight (summed over the processes here).  Redis errors *)
(* are no AppError: no handler turns them into a response, so they leave   *)
(* through the middleware and answer 500.                                  *)
(***************************************************************************)
EXTENDS Integers, FiniteSets, FiniteSetsExt

CONSTANTS
    Requests,   \* HTTP requests of one seller, each of which may be retried
    Keys,       \* fingerprints of a command: names and descriptions differ
    None,       \* no key, no time
    Limit,      \* AI_RATE_LIMIT_REQUESTS
    Window,     \* the window, in clock ticks
    Second,     \* clock ticks in a second, the unit of Retry-After
    TTL,        \* AI_CACHE_TTL_SECONDS, in clock ticks
    MaxLag,     \* bound: ticks between reading the clock and the script
    MaxNow,     \* bound: clock ticks
    MaxArrivals,\* bound: times requests arrive
    MaxFaults   \* bound: Redis calls that raise

ASSUME ContentAssumption ==
    /\ {Limit, Window, Second, TTL} \subseteq Nat \ {0}
    /\ {MaxLag, MaxNow, MaxArrivals, MaxFaults} \subseteq Nat
    /\ Window % Second = 0
    /\ None \notin Keys \cup Int

VARIABLES
    now,       \* real time
    request,   \* where each request is
    window,    \* the sorted set of the quota key: stamps and members
    expires,   \* when Redis drops the quota key
    cache,     \* when Redis drops the result of each key, None if absent
    arrivals,  \* requests that have arrived
    inFlight,  \* http_requests_in_flight
    faults,    \* Redis calls that raised
    admitted   \* ghost: number and real time of every admission

quota == <<window, expires>>
gauge == <<inFlight, faults>>
vars == <<now, request, quota, cache, arrivals, gauge, admitted>>

\* until and seen: the earliest retry a denied request was told, and the
\* admissions there were by then.
Fresh == [step |-> "idle", key |-> None, stamp |-> None, until |-> None, seen |-> 0]
Steps == {"idle", "lookup", "clock", "script", "call", "store"}

TypeOK ==
    /\ now \in 0..MaxNow
    /\ request \in [Requests -> [step : Steps, key : Keys \cup {None}, stamp : Nat \cup {None},
                                 until : Nat \cup {None}, seen : Nat]]
    /\ window \subseteq [at : Nat, member : 1..MaxArrivals]
    /\ Cardinality(window) <= Limit
    /\ expires \in Nat
    /\ cache \in [Keys -> Nat \cup {None}]
    /\ arrivals \in 0..MaxArrivals
    /\ inFlight \in 0..MaxArrivals
    /\ faults \in 0..MaxFaults
    /\ admitted \subseteq [member : 1..MaxArrivals, at : 0..MaxNow]

Init ==
    /\ now = 0
    /\ request = [r \in Requests |-> Fresh]
    /\ window = {}
    /\ expires = 0
    /\ cache = [k \in Keys |-> None]
    /\ arrivals = 0
    /\ inFlight = 0
    /\ faults = 0
    /\ admitted = {}

At(r, step) == request[r].step = step
Goto(r, step) == request' = [request EXCEPT ![r].step = step]

\* add_gauge never goes below zero.
AddGauge(amount) == inFlight' = Max({0, inFlight + amount})

\* Seeded fault, not part of the model: the error handler counts down as well.
RespondTwice(r, next) ==
    /\ request' = [request EXCEPT ![r] = next]
    /\ AddGauge(-2)
    /\ UNCHANGED faults

\* call_next returned a response, of the use case or of the AppError handler.
Respond(r, next) ==
    /\ request' = [request EXCEPT ![r] = next]
    /\ AddGauge(-1)
    /\ UNCHANGED faults

\* call_next raised: the counting behind it is skipped.
Raise(r) ==
    /\ faults < MaxFaults
    /\ faults' = faults + 1
    /\ request' = [request EXCEPT ![r] = Fresh]
    /\ UNCHANGED inFlight

-----------------------------------------------------------------------------
(* One request.                                                            *)

\* The fingerprint of a command: a retry of it has the same one.
Fingerprints(r) == IF request[r].key = None THEN Keys ELSE {request[r].key}

\* A first call, or a retry of one that was told 429.  Input that breaks the
\* size limits or names foreign images is refused here and leaves no trace.
Arrive(r) ==
    /\ At(r, "idle")
    /\ arrivals < MaxArrivals
    /\ arrivals' = arrivals + 1
    /\ \E k \in Fingerprints(r) :
           request' = [request EXCEPT ![r].step = "lookup", ![r].key = k]
    /\ AddGauge(1)
    /\ UNCHANGED <<now, quota, cache, faults, admitted>>

Cached(k) == cache[k] # None /\ now < cache[k]

\* A hit costs no quota and no provider call.
AnswerFromCache(r) ==
    /\ At(r, "lookup")
    /\ Cached(request[r].key)
    /\ Respond(r, Fresh)
    /\ UNCHANGED <<now, quota, cache, arrivals, admitted>>

Miss(r) ==
    /\ At(r, "lookup")
    /\ ~Cached(request[r].key)
    /\ Goto(r, "clock")
    /\ UNCHANGED <<now, quota, cache, arrivals, gauge, admitted>>

\* RedisRateLimiter.check reads time.time() before it sends the script.
ReadClock(r) ==
    /\ At(r, "clock")
    /\ request' = [request EXCEPT ![r].step = "script", ![r].stamp = now]
    /\ UNCHANGED <<now, quota, cache, arrivals, gauge, admitted>>

\* Redis drops the whole key a window after the last admission.
Live == IF expires <= now THEN {} ELSE window

\* Seeded fault, not part of the model: entries are pruned one tick early.
PrunedEarly(stamp) == {e \in Live : e.at > stamp - Window + 1}

Pruned(stamp) == {e \in Live : e.at > stamp - Window}

\* Seeded fault, not part of the model: the set may grow past the limit.
AdmitOneMore(r) ==
    LET kept == Pruned(request[r].stamp)
        member == Cardinality(admitted) + 1
    IN
    /\ At(r, "script")
    /\ Cardinality(kept) <= Limit
    /\ window' = kept \cup {[at |-> request[r].stamp, member |-> member]}
    /\ expires' = now + Window
    /\ admitted' = admitted \cup {[member |-> member, at |-> now]}

\* The script found room and recorded the request under its stamp.
Admit(r) ==
    LET kept == Pruned(request[r].stamp)
        member == Cardinality(admitted) + 1
    IN
    /\ At(r, "script")
    /\ Cardinality(kept) < Limit
    /\ window' = kept \cup {[at |-> request[r].stamp, member |-> member]}
    /\ expires' = now + Window
    /\ admitted' = admitted \cup {[member |-> member, at |-> now]}

\* The script found the window full.
Deny(r) ==
    /\ At(r, "script")
    /\ Cardinality(Pruned(request[r].stamp)) >= Limit
    /\ window' = Pruned(request[r].stamp)
    /\ UNCHANGED <<expires, admitted>>

PassQuota(r) ==
    /\ Admit(r)
    /\ Goto(r, "call")
    /\ UNCHANGED <<now, cache, arrivals, gauge>>

\* Seeded fault, not part of the model: whole seconds are rounded down, as
\* MemoryRateLimiter of the local runtime mode does.
RetryAfterFloor(stamp, oldest) ==
    LET ticks == Max({1, Window - (stamp - oldest)}) IN Max({1, ticks \div Second})

\* Seconds until the oldest entry leaves the window, rounded up.
RetryAfter(stamp, oldest) ==
    LET ticks == Max({1, Window - (stamp - oldest)})
    IN  Max({1, (ticks + Second - 1) \div Second})

\* 429 with Retry-After, counted from the oldest entry that is left.
ExceedQuota(r) ==
    LET stamp == request[r].stamp
        oldest == Min({e.at : e \in Pruned(stamp)})
    IN
    /\ Deny(r)
    /\ Respond(r, [Fresh EXCEPT !.key = request[r].key, !.seen = Cardinality(admitted),
                                !.until = now + Second * RetryAfter(stamp, oldest)])
    /\ UNCHANGED <<now, cache, arrivals>>

\* The provider answered and the answer survived sanitizing.
Generate(r) ==
    /\ At(r, "call")
    /\ Goto(r, "store")
    /\ UNCHANGED <<now, quota, cache, arrivals, gauge, admitted>>

\* The provider is unavailable or its answer does not survive sanitizing: the
\* request fails with its quota spent.
GenerateFails(r) ==
    /\ At(r, "call")
    /\ Respond(r, Fresh)
    /\ UNCHANGED <<now, quota, cache, arrivals, admitted>>

Write(r) == cache' = [cache EXCEPT ![request[r].key] = now + TTL]

Store(r) ==
    /\ At(r, "store")
    /\ Write(r)
    /\ Respond(r, Fresh)
    /\ UNCHANGED <<now, quota, arrivals, admitted>>

\* A call to Redis raises, before it had its effect or after.
RedisFails(r) ==
    /\ \/ request[r].step \in {"lookup", "script", "store"} /\ UNCHANGED <<quota, cache, admitted>>
       \/ (Admit(r) \/ Deny(r)) /\ UNCHANGED cache
       \/ At(r, "store") /\ Write(r) /\ UNCHANGED <<quota, admitted>>
    /\ Raise(r)
    /\ UNCHANGED <<now, arrivals>>

\* The dashboard reads the usage of a key, which prunes it by its own clock.
ReadUsage ==
    /\ \E lag \in 0..MaxLag : lag <= now /\ window' = Pruned(now - lag)
    /\ UNCHANGED <<now, request, expires, cache, arrivals, gauge, admitted>>

Step(r) ==
    \/ Arrive(r)
    \/ AnswerFromCache(r)
    \/ Miss(r)
    \/ ReadClock(r)
    \/ PassQuota(r)
    \/ ExceedQuota(r)
    \/ Generate(r)
    \/ GenerateFails(r)
    \/ Store(r)
    \/ RedisFails(r)

\* A script is on its way for at most MaxLag ticks.
Tick ==
    /\ now < MaxNow
    /\ \A r \in Requests : At(r, "script") => now < request[r].stamp + MaxLag
    /\ now' = now + 1
    /\ UNCHANGED <<request, quota, cache, arrivals, gauge, admitted>>

Next ==
    \/ \E r \in Requests : Step(r)
    \/ ReadUsage
    \/ Tick

Spec == Init /\ [][Next]_vars

-----------------------------------------------------------------------------
(* Properties.                                                             *)

\* The quota in real time, with several API processes and delayed scripts: any
\* stretch as long as the window less the delay admits at most Limit paid calls.
AdmittedSince(t) == {a \in admitted : a.at > t}
QuotaHolds ==
    Window > MaxLag =>
        Cardinality(AdmittedSince(now - (Window - MaxLag))) <= Limit

\* http_requests_in_flight never shows fewer requests than are open, whichever
\* way they end.  It shows more only by those that Redis failed, for ever.
GaugeCoversRequests ==
    LET open == Cardinality({r \in Requests : ~At(r, "idle")}) IN
    open <= inFlight /\ inFlight <= open + faults

\* The 429 a seller got is honest: a retry after the announced seconds passes
\* the quota, unless another request took the room in between.
Turned(r) == At(r, "script") /\ request'[r].until # None /\ request'[r].step = "idle"
RetryAfterSuffices ==
    [][\A r \in Requests :
           Turned(r) /\ request[r].until # None /\ request[r].stamp >= request[r].until
               => Cardinality(admitted) > request[r].seen]_vars
=============================================================================
