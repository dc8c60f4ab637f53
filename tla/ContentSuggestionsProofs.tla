---------------------- MODULE ContentSuggestionsProofs ----------------------
(***************************************************************************)
(* Theorems about ContentSuggestions, for every number of requests and     *)
(* faults, every quota, window and delay.                                  *)
(***************************************************************************)
EXTENDS ContentSuggestions, FiniteSetTheorems, WellFoundedInduction, TLAPS

-----------------------------------------------------------------------------
(* Numbers.                                                                *)

\* A set of naturals has a least element, and Min finds it.
LEMMA LeastIs ==
  ASSUME NEW S \in SUBSET Nat, S # {}
  PROVE  Min(S) \in S /\ \A n \in S : Min(S) <= n
<1>1. PICK m \in S : \A n \in S : <<n, m>> \notin OpToRel(<, Nat)
  BY NatLessThanWellFounded, WFMin
<1>2. ASSUME NEW n \in S, n < m PROVE FALSE
  <2> DEFINE pair == <<n, m>>
  <2>1. pair \in Nat \X Nat /\ pair[1] = n /\ pair[2] = m
    OBVIOUS
  <2>2. pair[1] < pair[2]
    BY <1>2, <2>1
  <2> HIDE DEF pair
  <2>3. pair \in OpToRel(<, Nat)
    BY <2>1, <2>2, Zenon DEF OpToRel
  <2> QED
    BY <1>1, <2>3 DEF pair
<1>3. \A n \in S : m <= n
  BY <1>2
<1> QED
  BY <1>3 DEF Min

LEMMA LargerIs == \A a, b \in Int : Max({a, b}) = IF a >= b THEN a ELSE b
<1> SUFFICES ASSUME NEW a \in Int, NEW b \in Int PROVE Max({a, b}) = IF a >= b THEN a ELSE b
  OBVIOUS
<1> DEFINE m == IF a >= b THEN a ELSE b
<1>1. m \in {a, b} /\ \A y \in {a, b} : m >= y
  OBVIOUS
<1>2. \A x \in {a, b} : (\A y \in {a, b} : x >= y) => x = m
  OBVIOUS
<1> QED
  BY <1>1, <1>2 DEF Max

\* Rounded up to whole seconds, a delay is not shortened.
LEMMA RoundedUp ==
  ASSUME NEW t \in Nat, NEW s \in Nat \ {0}
  PROVE  (t + s - 1) \div s \in Nat /\ s * ((t + s - 1) \div s) >= t
  OBVIOUS

LEMMA RetryAfterIs ==
  ASSUME NEW stamp \in Nat, NEW oldest \in Nat
  PROVE  /\ RetryAfter(stamp, oldest) \in Nat
         /\ Second * RetryAfter(stamp, oldest) >= Window - (stamp - oldest)
<1> DEFINE ticks == Max({1, Window - (stamp - oldest)})
           seconds == (ticks + Second - 1) \div Second
<1>1. /\ Window \in Nat /\ Second \in Nat \ {0}
      /\ Window - (stamp - oldest) \in Int
  BY ContentAssumption
<1>2. ticks \in Nat /\ ticks >= 1 /\ ticks >= Window - (stamp - oldest)
  BY <1>1, LargerIs
<1> HIDE DEF ticks
<1>3. seconds \in Nat /\ Second * seconds >= ticks
  BY <1>1, <1>2, RoundedUp
<1> HIDE DEF seconds
<1>4. seconds >= 1
  BY <1>1, <1>2, <1>3
<1>5. Max({1, seconds}) = seconds
  BY <1>3, <1>4, LargerIs
<1>6. RetryAfter(stamp, oldest) = seconds
  BY <1>5 DEF RetryAfter, ticks, seconds
<1>7. Second * seconds \in Nat
  BY <1>1, <1>3
<1> QED
  BY <1>1, <1>2, <1>3, <1>6, <1>7

-----------------------------------------------------------------------------
(* What is counted.  A request that waits for the quota is one arrival that *)
(* is not admitted yet, so members never run out; and a request under way   *)
(* is counted in the gauge.  Requests need not be finite: both sets start   *)
(* empty and change by one request.                                         *)

Before == {"lookup", "clock", "script"}
Waiting == {r \in Requests : request[r].step \in Before}
UnderWay == {r \in Requests : ~At(r, "idle")}

Request == [step : Steps, key : Keys \cup {None}, stamp : Nat \cup {None},
            until : Nat \cup {None}, seen : Nat]
Entry == [at : Nat, member : 1..MaxArrivals]

TypeInv ==
    /\ now \in 0..MaxNow
    /\ request \in [Requests -> Request]
    /\ \A r \in Requests : At(r, "script") =>
           request[r].stamp \in Nat /\ request[r].stamp <= now /\ now <= request[r].stamp + MaxLag
    /\ window \subseteq Entry /\ IsFiniteSet(window) /\ Cardinality(window) <= Limit
    /\ expires \in Nat
    /\ cache \in [Keys -> Nat \cup {None}]
    /\ arrivals \in 0..MaxArrivals
    /\ faults \in 0..MaxFaults

CountInv ==
    /\ admitted \subseteq [member : 1..MaxArrivals, at : 0..MaxNow]
    /\ IsFiniteSet(admitted) /\ IsFiniteSet(Waiting) /\ IsFiniteSet(UnderWay)
    /\ Cardinality(admitted) + Cardinality(Waiting) <= arrivals
    /\ inFlight \in Nat /\ inFlight <= arrivals
    /\ Cardinality(UnderWay) <= inFlight /\ inFlight <= Cardinality(UnderWay) + faults
    /\ \A a \in admitted : a.member <= Cardinality(admitted)
    /\ \A a, b \in admitted : a.member = b.member => a = b

\* A step of one request.
Moves(r) == \A q \in Requests \ {r} : request'[q] = request[q]

LEMMA MovesIs ==
  ASSUME NEW r \in Requests, Moves(r)
  PROVE  /\ Waiting' = IF request'[r].step \in Before THEN Waiting \cup {r} ELSE Waiting \ {r}
         /\ UnderWay' = IF request'[r].step = "idle" THEN UnderWay \ {r} ELSE UnderWay \cup {r}
  BY DEF Moves, Waiting, UnderWay, At

LEMMA CountNats ==
  ASSUME CountInv
  PROVE  /\ Cardinality(admitted) \in Nat /\ Cardinality(Waiting) \in Nat
         /\ Cardinality(UnderWay) \in Nat
  BY FS_CardinalityType DEF CountInv

LEMMA InOrOut ==
  ASSUME NEW S, IsFiniteSet(S), NEW T, NEW x, NEW p \in BOOLEAN,
         T = IF p THEN S \cup {x} ELSE S \ {x}
  PROVE  /\ IsFiniteSet(T)
         /\ Cardinality(T) = Cardinality(S) + (IF p THEN 1 ELSE 0) - (IF x \in S THEN 1 ELSE 0)
<1>1. Cardinality(S) \in Nat
  BY FS_CardinalityType
<1>2. CASE p
  <2>1. T = S \cup {x}
    BY <1>2
  <2>2. /\ IsFiniteSet(S \cup {x})
        /\ Cardinality(S \cup {x}) = IF x \in S THEN Cardinality(S) ELSE Cardinality(S) + 1
    BY FS_AddElement
  <2> QED
    BY <1>1, <1>2, <2>1, <2>2
<1>3. CASE ~p
  <2>1. T = S \ {x}
    BY <1>3
  <2>2. /\ IsFiniteSet(S \ {x})
        /\ Cardinality(S \ {x}) = IF x \in S THEN Cardinality(S) - 1 ELSE Cardinality(S)
    BY FS_RemoveElement
  <2> QED
    BY <1>1, <1>3, <2>1, <2>2
<1> QED
  BY <1>2, <1>3

\* Both sets after a step of r, in numbers.
LEMMA CountMoves ==
  ASSUME CountInv, NEW r \in Requests, Moves(r)
  PROVE  /\ IsFiniteSet(Waiting') /\ IsFiniteSet(UnderWay')
         /\ Cardinality(Waiting') =
               Cardinality(Waiting) + (IF request'[r].step \in Before THEN 1 ELSE 0)
                                    - (IF request[r].step \in Before THEN 1 ELSE 0)
         /\ Cardinality(UnderWay') =
               Cardinality(UnderWay) + (IF request'[r].step # "idle" THEN 1 ELSE 0)
                                     - (IF request[r].step # "idle" THEN 1 ELSE 0)
<1> DEFINE waits == request'[r].step \in Before
           open == request'[r].step # "idle"
<1>1. (r \in Waiting <=> request[r].step \in Before) /\ (r \in UnderWay <=> request[r].step # "idle")
  BY DEF Waiting, UnderWay, At
<1>2. /\ Waiting' = IF waits THEN Waiting \cup {r} ELSE Waiting \ {r}
      /\ UnderWay' = IF open THEN UnderWay \cup {r} ELSE UnderWay \ {r}
      /\ IsFiniteSet(Waiting) /\ IsFiniteSet(UnderWay)
      /\ waits \in BOOLEAN /\ open \in BOOLEAN
  BY MovesIs DEF CountInv, Before
<1> HIDE DEF waits, open
<1>3. /\ IsFiniteSet(Waiting')
      /\ Cardinality(Waiting') =
            Cardinality(Waiting) + (IF waits THEN 1 ELSE 0) - (IF r \in Waiting THEN 1 ELSE 0)
  BY <1>2, InOrOut
<1>4. /\ IsFiniteSet(UnderWay')
      /\ Cardinality(UnderWay') =
            Cardinality(UnderWay) + (IF open THEN 1 ELSE 0) - (IF r \in UnderWay THEN 1 ELSE 0)
  BY <1>2, InOrOut
<1> QED
  BY <1>1, <1>3, <1>4 DEF waits, open

-----------------------------------------------------------------------------
(* The quota: a step leaves it alone, prunes it by a clock of the past, or  *)
(* admits a request.                                                        *)

Untouched == UNCHANGED <<quota, admitted>>
Prunes == UNCHANGED <<expires, admitted>> /\ \E s \in Nat : s <= now /\ window' = Pruned(s)

LEMMA PrunedIs ==
  ASSUME TypeInv, NEW s \in Nat
  PROVE  /\ Pruned(s) \subseteq window /\ IsFiniteSet(Pruned(s))
         /\ Cardinality(Pruned(s)) \in Nat /\ Cardinality(Pruned(s)) <= Cardinality(window)
<1>1. Pruned(s) \subseteq window
  BY DEF Pruned, Live
<1> QED
  BY <1>1, FS_Subset, FS_CardinalityType DEF TypeInv

\* The script is run for a request that waits, so there is a member left for it,
\* which nobody has.
LEMMA AdmitIs ==
  ASSUME TypeInv, CountInv, NEW r \in Requests, Admit(r)
  PROVE  /\ request[r].stamp \in Nat /\ request[r].stamp <= now /\ now <= request[r].stamp + MaxLag
         /\ window' \subseteq Entry /\ IsFiniteSet(window') /\ Cardinality(window') <= Limit
         /\ expires' \in Nat
         /\ \E m \in 1..MaxArrivals :
                /\ m = Cardinality(admitted) + 1
                /\ window' = Pruned(request[r].stamp) \cup {[at |-> request[r].stamp, member |-> m]}
                /\ admitted' = admitted \cup {[member |-> m, at |-> now]}
                /\ [member |-> m, at |-> now] \notin admitted
         /\ IsFiniteSet(admitted') /\ Cardinality(admitted') = Cardinality(admitted) + 1
<1> DEFINE stamp == request[r].stamp
           m == Cardinality(admitted) + 1
           kept == Pruned(stamp)
           entry == [at |-> stamp, member |-> m]
           new == [member |-> m, at |-> now]
<1>1. stamp \in Nat /\ stamp <= now /\ now <= stamp + MaxLag /\ At(r, "script")
  BY DEF Admit, TypeInv
<1>2. /\ Cardinality(kept) < Limit /\ window' = kept \cup {entry}
      /\ expires' = now + Window /\ admitted' = admitted \cup {new}
  BY DEF Admit
<1>3. m \in 1..MaxArrivals
  <2>1. r \in Waiting
    BY <1>1 DEF Waiting, Before, At
  <2>2. Cardinality(Waiting) >= 1
    BY <2>1, CountNats, FS_EmptySet DEF CountInv
  <2> QED
    BY <2>2, CountNats, ContentAssumption DEF CountInv, TypeInv
<1>4. entry \in Entry /\ new \notin admitted
  <2>1. entry \in Entry
    BY <1>1, <1>3 DEF Entry
  <2>2. new \notin admitted
    BY CountNats DEF CountInv
  <2> QED
    BY <2>1, <2>2
<1>5. kept \subseteq window /\ IsFiniteSet(kept) /\ Cardinality(kept) \in Nat
  BY <1>1, PrunedIs
<1> HIDE DEF entry, new, m, kept
<1>6. IsFiniteSet(window') /\ Cardinality(window') <= Limit
  <2>1. /\ IsFiniteSet(kept \cup {entry})
        /\ Cardinality(kept \cup {entry}) = IF entry \in kept THEN Cardinality(kept) ELSE Cardinality(kept) + 1
    BY <1>5, FS_AddElement
  <2> QED
    BY <1>2, <1>5, <2>1, ContentAssumption
<1>7. IsFiniteSet(admitted') /\ Cardinality(admitted') = Cardinality(admitted) + 1
  BY <1>2, <1>4, FS_AddElement DEF CountInv
<1>8. expires' \in Nat
  BY <1>2, ContentAssumption DEF TypeInv
<1>9. window' \subseteq Entry
  BY <1>2, <1>4, <1>5 DEF TypeInv
<1> QED
  BY <1>1, <1>2, <1>3, <1>4, <1>6, <1>7, <1>8, <1>9 DEF entry, new, m, kept

-----------------------------------------------------------------------------
(* What a step of a request comes to: where the request goes, what becomes  *)
(* of the quota, how it is counted, and what a denied one was told.         *)

\* The script is run on the clock it was sent with, and soon.
Dated(next) ==
    next.step = "script" =>
        next.stamp \in Nat /\ next.stamp <= now /\ now <= next.stamp + MaxLag

Came(r, next) ==
    /\ request[r].step = "idle" /\ next.step = "lookup"
    /\ arrivals < MaxArrivals /\ arrivals' = arrivals + 1
    /\ inFlight' = inFlight + 1 /\ faults' = faults
Moved(r, next) ==
    /\ request[r].step # "idle" /\ next.step # "idle"
    /\ next.step \in Before => request[r].step \in Before
    /\ UNCHANGED <<arrivals, inFlight, faults>>
Answered(r, next) ==
    /\ request[r].step # "idle" /\ next.step = "idle"
    /\ inFlight' = inFlight - 1 /\ UNCHANGED <<arrivals, faults>>
Raised(r, next) ==
    /\ request[r].step # "idle" /\ next.step = "idle"
    /\ faults < MaxFaults /\ faults' = faults + 1 /\ UNCHANGED <<arrivals, inFlight>>

KeepsPromise(r, next) ==
    next.until # None => /\ next.step # "idle"
                         /\ next.until = request[r].until /\ next.seen = request[r].seen

Effect(r, next) ==
    /\ request' = [request EXCEPT ![r] = next]
    /\ Dated(next)
    /\ now' = now
    /\ cache' \in [Keys -> Nat \cup {None}]
    /\ (Admit(r) /\ next.step \notin Before) \/ Untouched \/ Prunes
    /\ Came(r, next) \/ Moved(r, next) \/ Answered(r, next) \/ Raised(r, next)
    /\ KeepsPromise(r, next) \/ ExceedQuota(r)

LEMMA FreshIs == Fresh \in Request /\ Fresh.step = "idle" /\ Fresh.until = None
  BY DEF Fresh, Request, Steps

\* A step along the way changes nothing else of the request.
LEMMA GotoIs ==
  ASSUME TypeInv, NEW r \in Requests, NEW s \in Steps \ {"idle"}, Goto(r, s)
  PROVE  \E next \in Request :
             /\ request' = [request EXCEPT ![r] = next]
             /\ next.step = s /\ KeepsPromise(r, next)
<1> DEFINE next == [request[r] EXCEPT !.step = s]
<1>1. request[r] \in Request
  BY DEF TypeInv
<1>2. next \in Request /\ next.step = s /\ next.until = request[r].until /\ next.seen = request[r].seen
  BY <1>1 DEF Request
<1>3. request' = [request EXCEPT ![r] = next]
  BY DEF Goto
<1> HIDE DEF next
<1> QED
  BY <1>2, <1>3 DEF KeepsPromise

LEMMA GaugeIs ==
  ASSUME NEW n \in Int, AddGauge(n), inFlight \in Nat
  PROVE  inFlight + n >= 0 => inFlight' = inFlight + n
<1>1. inFlight' = Max({0, inFlight + n})
  BY DEF AddGauge
<1> QED
  BY <1>1, LargerIs

Base == TypeInv /\ CountInv

\* The numbers of the counts.
LEMMA BaseNats ==
  ASSUME Base
  PROVE  /\ Cardinality(admitted) \in Nat /\ Cardinality(Waiting) \in Nat /\ Cardinality(UnderWay) \in Nat
         /\ inFlight \in Nat /\ arrivals \in 0..MaxArrivals /\ faults \in 0..MaxFaults
         /\ Cardinality(admitted) + Cardinality(Waiting) <= arrivals /\ inFlight <= arrivals
         /\ Cardinality(UnderWay) <= inFlight /\ inFlight <= Cardinality(UnderWay) + faults
         /\ \A r \in Requests : request[r].step # "idle" => Cardinality(UnderWay) >= 1
         /\ MaxArrivals \in Nat /\ MaxFaults \in Nat
<1>1. ASSUME NEW r \in Requests, request[r].step # "idle" PROVE Cardinality(UnderWay) >= 1
  <2>1. r \in UnderWay /\ IsFiniteSet(UnderWay)
    BY <1>1 DEF UnderWay, At, Base, CountInv
  <2>2. Cardinality(UnderWay) # 0
    BY <2>1, FS_EmptySet
  <2> QED
    BY <2>2, CountNats DEF Base
<1> QED
  BY <1>1, CountNats, ContentAssumption DEF Base, TypeInv, CountInv

\* A request that gets its answer is counted out.
LEMMA RespondIs ==
  ASSUME Base, NEW r \in Requests, ~At(r, "idle"), NEW next, next.step = "idle", Respond(r, next),
         arrivals' = arrivals
  PROVE  Answered(r, next) /\ request' = [request EXCEPT ![r] = next] /\ Dated(next)
<1>1. /\ faults' = faults /\ AddGauge(-1) /\ request' = [request EXCEPT ![r] = next]
  BY DEF Respond
<1>2. inFlight >= 1 /\ inFlight \in Nat
  BY BaseNats DEF At
<1> QED
  BY <1>1, <1>2, GaugeIs DEF Answered, At, Dated

LEMMA ArriveEffect ==
  ASSUME Base, NEW r \in Requests, Arrive(r)
  PROVE  \E next \in Request : Effect(r, next)
<1>1. PICK k \in Fingerprints(r) :
          request' = [request EXCEPT ![r].step = "lookup", ![r].key = k]
  BY DEF Arrive
<1> DEFINE next == [[request[r] EXCEPT !.step = "lookup"] EXCEPT !.key = k]
<1>2. request[r] \in Request /\ k \in Keys \cup {None}
  BY DEF Base, TypeInv, Fingerprints, Request
<1>3. /\ next \in Request /\ next.step = "lookup" /\ request' = [request EXCEPT ![r] = next]
      /\ next.until = request[r].until /\ next.seen = request[r].seen
  BY <1>1, <1>2 DEF Request, Steps, Base, TypeInv
<1>4. /\ request[r].step = "idle" /\ arrivals < MaxArrivals /\ arrivals' = arrivals + 1
      /\ inFlight' = inFlight + 1
      /\ now' = now /\ cache' = cache /\ faults' = faults /\ Untouched
  BY GaugeIs, BaseNats DEF Arrive, At, Untouched
<1> HIDE DEF next
<1>5. Dated(next) /\ Came(r, next) /\ KeepsPromise(r, next)
  BY <1>3, <1>4 DEF Dated, Came, KeepsPromise
<1>6. cache' \in [Keys -> Nat \cup {None}]
  BY <1>4 DEF Base, TypeInv
<1> QED
  BY <1>3, <1>4, <1>5, <1>6 DEF Effect

LEMMA MoveEffect ==
  ASSUME Base, NEW r \in Requests, Miss(r) \/ ReadClock(r) \/ PassQuota(r) \/ Generate(r)
  PROVE  \E next \in Request : Effect(r, next)
<1>a. TypeInv /\ cache \in [Keys -> Nat \cup {None}]
  BY DEF Base, TypeInv
<1>1. CASE Miss(r)
  <2>1. Goto(r, "clock") /\ At(r, "lookup") /\ UNCHANGED <<now, quota, cache, arrivals, gauge, admitted>>
    BY <1>1 DEF Miss
  <2>2. PICK next \in Request :
            request' = [request EXCEPT ![r] = next] /\ next.step = "clock" /\ KeepsPromise(r, next)
    BY <1>a, <2>1, GotoIs DEF Steps
  <2>3. Moved(r, next) /\ Dated(next) /\ Untouched /\ now' = now /\ cache' \in [Keys -> Nat \cup {None}]
    BY <1>a, <2>1, <2>2 DEF Moved, Dated, Untouched, At, Before, gauge
  <2> QED
    BY <2>2, <2>3 DEF Effect
<1>2. CASE ReadClock(r)
  <2> DEFINE next == [[request[r] EXCEPT !.step = "script"] EXCEPT !.stamp = now]
  <2>1. At(r, "clock") /\ UNCHANGED <<now, quota, cache, arrivals, gauge, admitted>>
    BY <1>2 DEF ReadClock
  <2>2. request[r] \in Request /\ now \in Nat
    BY <1>a, ContentAssumption DEF TypeInv
  <2>3. /\ next \in Request /\ next.step = "script" /\ next.stamp = now
        /\ next.until = request[r].until /\ next.seen = request[r].seen
    BY <2>2 DEF Request, Steps
  <2>4. request' = [request EXCEPT ![r] = next]
    BY <1>2 DEF ReadClock
  <2> HIDE DEF next
  <2>5. Moved(r, next) /\ Untouched /\ KeepsPromise(r, next) /\ cache' \in [Keys -> Nat \cup {None}]
    BY <1>a, <2>1, <2>3 DEF Moved, Untouched, At, Before, KeepsPromise, gauge
  <2>6. Dated(next)
    BY <2>2, <2>3, ContentAssumption DEF Dated
  <2> QED
    BY <2>1, <2>3, <2>4, <2>5, <2>6 DEF Effect
<1>3. CASE PassQuota(r)
  <2>1. Admit(r) /\ Goto(r, "call") /\ UNCHANGED <<now, cache, arrivals, gauge>>
    BY <1>3 DEF PassQuota
  <2>2. PICK next \in Request :
            request' = [request EXCEPT ![r] = next] /\ next.step = "call" /\ KeepsPromise(r, next)
    BY <1>a, <2>1, GotoIs DEF Steps
  <2>3. Moved(r, next) /\ Dated(next) /\ next.step \notin Before /\ cache' \in [Keys -> Nat \cup {None}]
    BY <1>a, <2>1, <2>2 DEF Moved, Dated, At, Before, Admit, gauge
  <2> QED
    BY <2>1, <2>2, <2>3 DEF Effect
<1>4. CASE Generate(r)
  <2>1. Goto(r, "store") /\ At(r, "call") /\ UNCHANGED <<now, quota, cache, arrivals, gauge, admitted>>
    BY <1>4 DEF Generate
  <2>2. PICK next \in Request :
            request' = [request EXCEPT ![r] = next] /\ next.step = "store" /\ KeepsPromise(r, next)
    BY <1>a, <2>1, GotoIs DEF Steps
  <2>3. Moved(r, next) /\ Dated(next) /\ Untouched /\ now' = now /\ cache' \in [Keys -> Nat \cup {None}]
    BY <1>a, <2>1, <2>2 DEF Moved, Dated, Untouched, At, Before, gauge
  <2> QED
    BY <2>2, <2>3 DEF Effect
<1> QED
  BY <1>1, <1>2, <1>3, <1>4

\* What is pruned, is pruned by a clock of the past.
LEMMA DenyIs ==
  ASSUME TypeInv, NEW r \in Requests, Deny(r)
  PROVE  /\ request[r].stamp \in Nat /\ request[r].stamp <= now /\ At(r, "script")
         /\ window' = Pruned(request[r].stamp) /\ Cardinality(Pruned(request[r].stamp)) >= Limit
         /\ Prunes
  BY DEF Deny, Prunes, TypeInv

LEMMA RetryIs ==
  ASSUME TypeInv, NEW r \in Requests, Deny(r)
  PROVE  LET stamp == request[r].stamp
             oldest == Min({e.at : e \in Pruned(stamp)})
         IN  /\ oldest \in Nat
             /\ \E e \in Pruned(stamp) : e.at = oldest
             /\ now + Second * RetryAfter(stamp, oldest) \in Nat
             /\ now + Second * RetryAfter(stamp, oldest) >= oldest + Window
<1> DEFINE stamp == request[r].stamp
           stamps == {e.at : e \in Pruned(stamp)}
           oldest == Min(stamps)
           wait == Second * RetryAfter(stamp, oldest)
<1>1. stamp \in Nat /\ stamp <= now /\ Cardinality(Pruned(stamp)) >= Limit
  BY DenyIs
<1>2. Pruned(stamp) \subseteq window /\ window \subseteq Entry
  BY <1>1, PrunedIs DEF TypeInv
<1>3. Pruned(stamp) # {}
  BY <1>1, FS_EmptySet, ContentAssumption
<1>4. stamps \subseteq Nat /\ stamps # {}
  BY <1>2, <1>3 DEF Entry
<1>5. oldest \in stamps
  BY <1>4, LeastIs
<1>6. oldest \in Nat
  BY <1>4, <1>5
<1> HIDE DEF oldest
<1>7. RetryAfter(stamp, oldest) \in Nat /\ wait >= Window - (stamp - oldest)
  BY <1>1, <1>6, RetryAfterIs
<1>8. Second \in Nat /\ Window \in Nat /\ now \in Nat
  BY ContentAssumption DEF TypeInv
<1>9. wait \in Nat
  BY <1>7, <1>8
<1>10. \E e \in Pruned(stamp) : e.at = oldest
  BY <1>5
<1> HIDE DEF wait, stamp
<1>11. now + wait \in Nat /\ now + wait >= oldest + Window
  BY <1>1, <1>6, <1>7, <1>8, <1>9
<1> QED
  BY <1>6, <1>10, <1>11 DEF oldest, wait, stamp

\* What a denied request is told.
Denial(r) ==
    LET stamp == request[r].stamp
        oldest == Min({e.at : e \in Pruned(stamp)})
    IN  [Fresh EXCEPT !.key = request[r].key, !.seen = Cardinality(admitted),
                      !.until = now + Second * RetryAfter(stamp, oldest)]

LEMMA DenialIs ==
  ASSUME Base, NEW r \in Requests, Deny(r)
  PROVE  /\ Denial(r) \in Request /\ Denial(r).step = "idle"
         /\ Denial(r).seen = Cardinality(admitted)
         /\ Denial(r).until \in Nat
         /\ \E e \in Pruned(request[r].stamp) : Denial(r).until >= e.at + Window
<1> DEFINE stamp == request[r].stamp
           oldest == Min({e.at : e \in Pruned(stamp)})
           until == now + Second * RetryAfter(stamp, oldest)
<1>1. /\ \E e \in Pruned(stamp) : e.at = oldest
      /\ until \in Nat /\ until >= oldest + Window
  BY RetryIs DEF Base
<1>2. Denial(r) = [Fresh EXCEPT !.key = request[r].key, !.seen = Cardinality(admitted), !.until = until]
  BY DEF Denial
<1> HIDE DEF until
<1>3. request[r].key \in Keys \cup {None} /\ Cardinality(admitted) \in Nat
  BY CountNats DEF Base, TypeInv, Request
<1>4. /\ Denial(r) \in Request /\ Denial(r).step = "idle"
      /\ Denial(r).seen = Cardinality(admitted) /\ Denial(r).until = until
  BY <1>1, <1>2, <1>3, FreshIs DEF Request
<1> HIDE DEF oldest, stamp
<1> QED
  BY <1>1, <1>4 DEF stamp

LEMMA WriteIs ==
  ASSUME TypeInv, NEW r \in Requests, Write(r)
  PROVE  cache' \in [Keys -> Nat \cup {None}]
<1> DEFINE until == now + TTL
<1>1. until \in Nat
  BY ContentAssumption DEF TypeInv
<1>2. cache' = [cache EXCEPT ![request[r].key] = until]
  BY DEF Write
<1> HIDE DEF until
<1> QED
  BY <1>1, <1>2 DEF TypeInv

LEMMA AnswerEffect ==
  ASSUME Base, NEW r \in Requests,
         AnswerFromCache(r) \/ ExceedQuota(r) \/ GenerateFails(r) \/ Store(r)
  PROVE  \E next \in Request : Effect(r, next)
<1>a. TypeInv /\ cache \in [Keys -> Nat \cup {None}]
  BY DEF Base, TypeInv
<1>b. KeepsPromise(r, Fresh)
  BY FreshIs DEF KeepsPromise
<1>1. CASE AnswerFromCache(r) \/ GenerateFails(r)
  <2>1. /\ ~At(r, "idle") /\ Respond(r, Fresh)
        /\ UNCHANGED <<now, quota, cache, arrivals, admitted>>
    BY <1>1 DEF AnswerFromCache, GenerateFails, At
  <2>2. Answered(r, Fresh) /\ request' = [request EXCEPT ![r] = Fresh] /\ Dated(Fresh)
    BY <2>1, FreshIs, RespondIs
  <2> QED
    BY <1>a, <1>b, <2>1, <2>2, FreshIs DEF Effect, Untouched
<1>2. CASE Store(r)
  <2>1. /\ At(r, "store") /\ ~At(r, "idle") /\ Write(r) /\ Respond(r, Fresh)
        /\ UNCHANGED <<now, quota, arrivals, admitted>>
    BY <1>2 DEF Store, At
  <2>2. Answered(r, Fresh) /\ request' = [request EXCEPT ![r] = Fresh] /\ Dated(Fresh)
    BY <2>1, FreshIs, RespondIs
  <2>3. cache' \in [Keys -> Nat \cup {None}]
    BY <1>a, <2>1, WriteIs
  <2> QED
    BY <1>b, <2>1, <2>2, <2>3, FreshIs DEF Effect, Untouched
<1>3. CASE ExceedQuota(r)
  <2>1. Deny(r) /\ Respond(r, Denial(r)) /\ UNCHANGED <<now, cache, arrivals>>
    BY <1>3 DEF ExceedQuota, Denial
  <2>2. ~At(r, "idle") /\ Prunes
    BY <1>a, <2>1, DenyIs DEF At
  <2>3. Answered(r, Denial(r)) /\ request' = [request EXCEPT ![r] = Denial(r)] /\ Dated(Denial(r))
    BY <2>1, <2>2, DenialIs, RespondIs
  <2> QED
    BY <1>a, <1>3, <2>1, <2>2, <2>3, DenialIs DEF Effect
<1> QED
  BY <1>1, <1>2, <1>3

LEMMA RaiseEffect ==
  ASSUME Base, NEW r \in Requests, RedisFails(r)
  PROVE  Effect(r, Fresh)
<1>a. TypeInv /\ cache \in [Keys -> Nat \cup {None}]
  BY DEF Base, TypeInv
<1>1. /\ request' = [request EXCEPT ![r] = Fresh] /\ faults < MaxFaults /\ faults' = faults + 1
      /\ UNCHANGED <<now, arrivals, inFlight>>
  BY DEF RedisFails, Raise
<1>2. /\ request[r].step # "idle"
      /\ Admit(r) \/ Untouched \/ Prunes
      /\ cache' \in [Keys -> Nat \cup {None}]
  <2>1. CASE request[r].step \in {"lookup", "script", "store"} /\ UNCHANGED <<quota, cache, admitted>>
    BY <1>a, <2>1 DEF Untouched
  <2>2. CASE Admit(r) /\ UNCHANGED cache
    BY <1>a, <2>2 DEF Admit, At
  <2>3. CASE Deny(r) /\ UNCHANGED cache
    BY <1>a, <2>3, DenyIs DEF At
  <2>4. CASE At(r, "store") /\ Write(r) /\ UNCHANGED <<quota, admitted>>
    BY <1>a, <2>4, WriteIs DEF Untouched, At
  <2> QED
    BY <2>1, <2>2, <2>3, <2>4 DEF RedisFails
<1>3. Raised(r, Fresh) /\ Dated(Fresh) /\ KeepsPromise(r, Fresh) /\ Fresh.step \notin Before
  BY <1>1, <1>2, FreshIs DEF Raised, Dated, KeepsPromise, Before
<1> QED
  BY <1>1, <1>2, <1>3 DEF Effect

LEMMA StepEffect ==
  ASSUME Base, NEW r \in Requests, Step(r)
  PROVE  \E next \in Request : Effect(r, next)
  BY ArriveEffect, MoveEffect, AnswerEffect, RaiseEffect, FreshIs DEF Step

-----------------------------------------------------------------------------
(* Types and counts hold.                                                  *)

LEMMA EffectMoves ==
  ASSUME TypeInv, NEW r \in Requests, NEW next \in Request, Effect(r, next)
  PROVE  /\ Moves(r) /\ request'[r] = next /\ request' \in [Requests -> Request]
         /\ \A q \in Requests : At(q, "script")' =>
                request'[q].stamp \in Nat /\ request'[q].stamp <= now' /\ now' <= request'[q].stamp + MaxLag
<1>1. /\ request \in [Requests -> Request] /\ request' = [request EXCEPT ![r] = next]
      /\ Dated(next) /\ now' = now
  BY DEF Effect, TypeInv
<1> QED
  BY <1>1 DEF TypeInv, Moves, At, Dated

\* The window, as a step of a request leaves it.
LEMMA WindowIs ==
  ASSUME Base, NEW r \in Requests, Admit(r) \/ Untouched \/ Prunes
  PROVE  /\ window' \subseteq Entry /\ IsFiniteSet(window') /\ Cardinality(window') <= Limit
         /\ expires' \in Nat
<1>a. TypeInv /\ CountInv
  BY DEF Base
<1>1. CASE Admit(r)
  BY <1>a, <1>1, AdmitIs
<1>2. CASE Untouched
  BY <1>a, <1>2 DEF Untouched, TypeInv, quota
<1>3. CASE Prunes
  <2>1. PICK s \in Nat : s <= now /\ window' = Pruned(s)
    BY <1>3 DEF Prunes
  <2>2. /\ Pruned(s) \subseteq window /\ IsFiniteSet(Pruned(s))
        /\ Cardinality(Pruned(s)) \in Nat /\ Cardinality(Pruned(s)) <= Cardinality(window)
    BY <1>a, PrunedIs
  <2>3. Cardinality(window) \in Nat /\ Limit \in Nat
    BY <1>a, FS_CardinalityType, ContentAssumption DEF TypeInv
  <2> QED
    BY <1>a, <1>3, <2>1, <2>2, <2>3 DEF Prunes, TypeInv
<1> QED
  BY <1>1, <1>2, <1>3

LEMMA TypeEffect ==
  ASSUME Base, NEW r \in Requests, NEW next \in Request, Effect(r, next)
  PROVE  TypeInv'
<1>a. TypeInv
  BY DEF Base
<1>1. /\ request' \in [Requests -> Request]
      /\ \A q \in Requests : At(q, "script")' =>
             request'[q].stamp \in Nat /\ request'[q].stamp <= now' /\ now' <= request'[q].stamp + MaxLag
  BY <1>a, EffectMoves
<1>2. /\ window' \subseteq Entry /\ IsFiniteSet(window') /\ Cardinality(window') <= Limit
      /\ expires' \in Nat
  BY WindowIs DEF Effect
<1>3. arrivals' \in 0..MaxArrivals /\ faults' \in 0..MaxFaults
  BY BaseNats DEF Effect, Came, Moved, Answered, Raised
<1>4. now' \in 0..MaxNow /\ cache' \in [Keys -> Nat \cup {None}]
  BY <1>a DEF TypeInv, Effect
<1> QED
  BY <1>1, <1>2, <1>3, <1>4 DEF TypeInv

\* However a step of a request is counted, the counts agree after it.
LEMMA CountEffect ==
  ASSUME Base, NEW r \in Requests, NEW next \in Request, Effect(r, next)
  PROVE  CountInv'
<1>a. TypeInv /\ CountInv
  BY DEF Base
<1>1. Moves(r) /\ request'[r] = next
  BY <1>a, EffectMoves
<1>2. /\ IsFiniteSet(Waiting') /\ IsFiniteSet(UnderWay')
      /\ Cardinality(Waiting') =
            Cardinality(Waiting) + (IF next.step \in Before THEN 1 ELSE 0)
                                 - (IF request[r].step \in Before THEN 1 ELSE 0)
      /\ Cardinality(UnderWay') =
            Cardinality(UnderWay) + (IF next.step # "idle" THEN 1 ELSE 0)
                                  - (IF request[r].step # "idle" THEN 1 ELSE 0)
  BY <1>a, <1>1, CountMoves
<1>3. "idle" \notin Before /\ "lookup" \in Before
  BY DEF Before
<1>4. /\ inFlight' \in Nat /\ inFlight' <= arrivals'
      /\ Cardinality(UnderWay') <= inFlight' /\ inFlight' <= Cardinality(UnderWay') + faults'
  <2>1. CASE Came(r, next)
    BY <1>2, <2>1, BaseNats DEF Came
  <2>2. CASE Moved(r, next)
    BY <1>2, <2>2, BaseNats DEF Moved
  <2>3. CASE Answered(r, next)
    BY <1>2, <2>3, BaseNats DEF Answered
  <2>4. CASE Raised(r, next)
    BY <1>2, <2>4, BaseNats DEF Raised
  <2> QED
    BY <2>1, <2>2, <2>3, <2>4 DEF Effect
<1>5. Cardinality(Waiting') - Cardinality(Waiting) <= arrivals' - arrivals
      /\ Cardinality(Waiting') \in Nat /\ arrivals' \in Nat
  <2>1. Cardinality(Waiting') \in Nat
    BY <1>2, FS_CardinalityType
  <2> QED
    BY <1>2, <1>3, <2>1, BaseNats DEF Effect, Came, Moved, Answered, Raised
<1>6. CASE Admit(r) /\ next.step \notin Before
  <2>1. PICK m \in 1..MaxArrivals :
            /\ m = Cardinality(admitted) + 1
            /\ admitted' = admitted \cup {[member |-> m, at |-> now]}
    BY <1>a, <1>6, AdmitIs
  <2>2. IsFiniteSet(admitted') /\ Cardinality(admitted') = Cardinality(admitted) + 1
    BY <1>a, <1>6, AdmitIs
  <2>3. request[r].step = "script"
    BY <1>6 DEF Admit, At
  <2>4. /\ Cardinality(Waiting') = Cardinality(Waiting) - 1 /\ arrivals' >= arrivals
    BY <1>2, <1>3, <1>6, <2>3, BaseNats DEF Effect, Came, Moved, Answered, Raised, Before
  <2>5. Cardinality(admitted') + Cardinality(Waiting') <= arrivals'
    BY <1>5, <2>2, <2>4, BaseNats
  <2>6. admitted' \subseteq [member : 1..MaxArrivals, at : 0..MaxNow]
    BY <1>a, <2>1 DEF CountInv, TypeInv
  <2>7. /\ \A a \in admitted' : a.member <= Cardinality(admitted')
        /\ \A a, b \in admitted' : a.member = b.member => a = b
    <3>1. \A a \in admitted : a.member \in Nat /\ a.member <= Cardinality(admitted)
      BY <1>a DEF CountInv
    <3> QED
      BY <1>a, <2>1, <2>2, <3>1, CountNats DEF CountInv
  <2> QED
    BY <1>2, <1>4, <2>2, <2>5, <2>6, <2>7 DEF CountInv
<1>7. CASE admitted' = admitted
  BY <1>a, <1>2, <1>4, <1>5, <1>7, BaseNats DEF CountInv
<1> QED
  BY <1>6, <1>7 DEF Effect, Untouched, Prunes

LEMMA BaseInit == Init => Base
<1> SUFFICES ASSUME Init PROVE Base
  OBVIOUS
<1>2. Waiting = {} /\ UnderWay = {}
  BY FreshIs DEF Init, Waiting, UnderWay, At, Before
<1>3. IsFiniteSet({}) /\ Cardinality({}) = 0
  BY FS_EmptySet
<1>4. /\ MaxNow \in Nat /\ MaxArrivals \in Nat /\ MaxFaults \in Nat /\ Limit \in Nat
  BY ContentAssumption
<1>5. \A r \in Requests : request[r] = Fresh
  BY DEF Init
<1>6. TypeInv
  BY <1>3, <1>4, <1>5, FreshIs DEF Init, TypeInv, At
<1>7. CountInv
  BY <1>2, <1>3, <1>4 DEF Init, CountInv
<1> QED
  BY <1>6, <1>7 DEF Base

LEMMA BaseStep == Base /\ [Next]_vars => Base'
<1> SUFFICES ASSUME Base, [Next]_vars PROVE Base'
  OBVIOUS
<1>a. TypeInv /\ CountInv
  BY DEF Base
<1>1. ASSUME NEW r \in Requests, Step(r) PROVE Base'
  BY <1>1, StepEffect, TypeEffect, CountEffect DEF Base
<1>2. CASE ReadUsage
  <2>1. PICK lag \in 0..MaxLag : lag <= now /\ window' = Pruned(now - lag)
    BY <1>2 DEF ReadUsage
  <2>2. now - lag \in Nat
    BY <1>a, <2>1, ContentAssumption DEF TypeInv
  <2>3. /\ Pruned(now - lag) \subseteq window /\ IsFiniteSet(Pruned(now - lag))
        /\ Cardinality(Pruned(now - lag)) <= Limit
    <3>1. Cardinality(window) \in Nat /\ Limit \in Nat
      BY <1>a, FS_CardinalityType, ContentAssumption DEF TypeInv
    <3> QED
      BY <1>a, <2>2, <3>1, PrunedIs DEF TypeInv
  <2>4. UNCHANGED <<now, request, expires, cache, arrivals, inFlight, faults, admitted>>
    BY <1>2 DEF ReadUsage, gauge
  <2>5. UNCHANGED <<Waiting, UnderWay>>
    BY <2>4 DEF Waiting, UnderWay, At
  <2>6. TypeInv'
    BY <1>a, <2>1, <2>3, <2>4 DEF TypeInv, At
  <2>7. CountInv'
    BY <1>a, <2>4, <2>5 DEF CountInv
  <2> QED
    BY <2>6, <2>7 DEF Base
<1>3. CASE Tick
  <2>1. /\ now < MaxNow /\ now' = now + 1
        /\ \A r \in Requests : At(r, "script") => now < request[r].stamp + MaxLag
        /\ UNCHANGED <<request, window, expires, cache, arrivals, inFlight, faults, admitted>>
    BY <1>3 DEF Tick, quota, gauge
  <2>2. UNCHANGED <<Waiting, UnderWay>>
    BY <2>1 DEF Waiting, UnderWay, At
  <2>3. TypeInv'
    BY <1>a, <2>1, ContentAssumption DEF TypeInv, At
  <2>4. CountInv'
    BY <1>a, <2>1, <2>2 DEF CountInv
  <2> QED
    BY <2>3, <2>4 DEF Base
<1>4. CASE UNCHANGED vars
  <2>1. UNCHANGED <<now, request, window, expires, cache, arrivals, inFlight, faults, admitted>>
    BY <1>4 DEF vars, quota, gauge
  <2>2. UNCHANGED <<Waiting, UnderWay>>
    BY <2>1 DEF Waiting, UnderWay, At
  <2> QED
    BY <1>a, <2>1, <2>2 DEF Base, TypeInv, CountInv, At
<1> QED
  BY <1>1, <1>2, <1>3, <1>4 DEF Next

-----------------------------------------------------------------------------
(* Every admission is in the window under the stamp its script was sent     *)
(* with, until that stamp is a whole window in the past.                    *)

KeptInv ==
    \A a \in admitted :
        /\ a.at <= now /\ a.at + Window <= expires
        /\ \E s \in Nat :
               /\ s <= a.at /\ a.at <= s + MaxLag
               /\ [at |-> s, member |-> a.member] \in window \/ s + Window <= now

\* A denied request is kept from a retry until the window has room for it, or
\* another request has been admitted.
Younger(t) == {e \in window : e.at > t}
PromiseInv ==
    \A r \in Requests :
        request[r].until # None =>
            /\ request[r].until \in Nat /\ request[r].seen \in Nat
            /\ request[r].seen <= Cardinality(admitted)
            /\ request[r].seen = Cardinality(admitted) =>
                   Cardinality(Younger(request[r].until - Window)) < Limit

LEMMA BaseInts ==
  ASSUME Base
  PROVE  /\ now \in Nat /\ expires \in Nat /\ Window \in Nat /\ MaxLag \in Nat /\ Limit \in Nat /\ Limit >= 1
         /\ \A a \in admitted : a.at \in Nat
  BY ContentAssumption DEF Base, TypeInv, CountInv

\* What a clock of the past prunes is a window old by now.
LEMMA KeptPruned ==
  ASSUME Base, KeptInv, NEW s0 \in Nat, s0 <= now, NEW a \in admitted
  PROVE  \E s \in Nat :
             /\ s <= a.at /\ a.at <= s + MaxLag
             /\ [at |-> s, member |-> a.member] \in Pruned(s0) \/ s + Window <= now
<1>1. PICK s \in Nat :
          /\ s <= a.at /\ a.at <= s + MaxLag
          /\ [at |-> s, member |-> a.member] \in window \/ s + Window <= now
  BY DEF KeptInv
<1>2. a.at + Window <= expires
  BY DEF KeptInv
<1>3. CASE s + Window > now
  <2>1. expires > now
    BY <1>1, <1>2, <1>3, BaseInts
  <2>2. Live = window /\ s > s0 - Window
    BY <1>3, <2>1, BaseInts DEF Live
  <2>3. [at |-> s, member |-> a.member] \in window
    BY <1>1, <1>3, BaseInts
  <2> DEFINE e == [at |-> s, member |-> a.member]
  <2>4. e \in Live /\ e.at > s0 - Window
    BY <2>2, <2>3
  <2> QED
    BY <1>1, <2>4 DEF Pruned
<1>4. CASE s + Window <= now
  BY <1>1, <1>4
<1> QED
  BY <1>3, <1>4, BaseInts

LEMMA KeptQuota ==
  ASSUME Base, KeptInv, now' = now, (\E r \in Requests : Admit(r)) \/ Untouched \/ Prunes
  PROVE  KeptInv'
<1>1. ASSUME NEW r \in Requests, Admit(r) PROVE KeptInv'
  <2>1. PICK m \in 1..MaxArrivals :
            /\ window' = Pruned(request[r].stamp) \cup {[at |-> request[r].stamp, member |-> m]}
            /\ admitted' = admitted \cup {[member |-> m, at |-> now]}
    BY <1>1, AdmitIs DEF Base
  <2>2. request[r].stamp \in Nat /\ request[r].stamp <= now /\ now <= request[r].stamp + MaxLag
    BY <1>1, AdmitIs DEF Base
  <2>3. expires' = now + Window
    BY <1>1 DEF Admit
  <2>4. ASSUME NEW a \in admitted
        PROVE  /\ a.at <= now' /\ a.at + Window <= expires'
               /\ \E s \in Nat :
                      /\ s <= a.at /\ a.at <= s + MaxLag
                      /\ [at |-> s, member |-> a.member] \in window' \/ s + Window <= now'
    <3>1. a.at <= now
      BY DEF KeptInv
    <3>2. \E s \in Nat :
             /\ s <= a.at /\ a.at <= s + MaxLag
             /\ [at |-> s, member |-> a.member] \in Pruned(request[r].stamp) \/ s + Window <= now
      BY <2>2, KeptPruned
    <3>3. a.at + Window <= expires'
      BY <2>3, <3>1, BaseInts
    <3> QED
      BY <2>1, <3>1, <3>2, <3>3
  <2> DEFINE new == [member |-> m, at |-> now]
  <2>5. /\ new.at <= now' /\ new.at + Window <= expires'
        /\ \E s \in Nat :
               /\ s <= new.at /\ new.at <= s + MaxLag
               /\ [at |-> s, member |-> new.member] \in window' \/ s + Window <= now'
    BY <2>1, <2>2, <2>3, BaseInts
  <2>6. \A a \in admitted' : a \in admitted \/ a = new
    BY <2>1
  <2> HIDE DEF new
  <2> QED
    BY <2>4, <2>5, <2>6 DEF KeptInv
<1>2. CASE Untouched
  BY <1>2 DEF Untouched, KeptInv, quota
<1>3. CASE Prunes
  <2>1. PICK s0 \in Nat : s0 <= now /\ window' = Pruned(s0)
    BY <1>3 DEF Prunes
  <2>2. UNCHANGED <<expires, admitted>>
    BY <1>3 DEF Prunes
  <2>3. ASSUME NEW a \in admitted
        PROVE  \E s \in Nat :
                   /\ s <= a.at /\ a.at <= s + MaxLag
                   /\ [at |-> s, member |-> a.member] \in window' \/ s + Window <= now
    BY <2>1, KeptPruned
  <2> QED
    BY <2>2, <2>3 DEF KeptInv
<1> QED
  BY <1>1, <1>2, <1>3

\* The dashboard prunes by its own clock, and nothing else.
LEMMA UsageEffect ==
  ASSUME Base, ReadUsage
  PROVE  Prunes /\ UNCHANGED <<now, request>>
<1>1. PICK lag \in 0..MaxLag : lag <= now /\ window' = Pruned(now - lag)
  BY DEF ReadUsage
<1>2. now - lag \in Nat /\ now - lag <= now
  BY <1>1, BaseInts
<1> QED
  BY <1>1, <1>2 DEF ReadUsage, Prunes

LEMMA YoungerShrinks ==
  ASSUME Base, Base', window' \subseteq window, NEW t
  PROVE  /\ Cardinality({e \in window' : e.at > t}) \in Nat /\ Cardinality(Younger(t)) \in Nat
         /\ Cardinality({e \in window' : e.at > t}) <= Cardinality(Younger(t))
<1>1. {e \in window' : e.at > t} \subseteq Younger(t) /\ Younger(t) \subseteq window
  BY DEF Younger
<1>2. IsFiniteSet(window)
  BY DEF Base, TypeInv
<1>3. IsFiniteSet(Younger(t))
  BY <1>1, <1>2, FS_Subset
<1> QED
  BY <1>1, <1>3, FS_Subset, FS_CardinalityType

\* A promise that was given is kept while the quota moves.
LEMMA PromiseKept ==
  ASSUME Base, Base', PromiseInv, NEW q \in Requests,
         (\E r \in Requests : Admit(r)) \/ Untouched \/ Prunes,
         request[q].until # None, request'[q].until = request[q].until, request'[q].seen = request[q].seen
  PROVE  /\ request'[q].until \in Nat /\ request'[q].seen \in Nat
         /\ request'[q].seen <= Cardinality(admitted')
         /\ request'[q].seen = Cardinality(admitted') =>
                Cardinality({e \in window' : e.at > request'[q].until - Window}) < Limit
<1> DEFINE t == request[q].until - Window
<1>1. /\ request[q].until \in Nat /\ request[q].seen \in Nat
      /\ request[q].seen <= Cardinality(admitted)
      /\ request[q].seen = Cardinality(admitted) => Cardinality(Younger(t)) < Limit
  BY DEF PromiseInv
<1>2. Cardinality(admitted) \in Nat
  BY CountNats DEF Base
<1> HIDE DEF t
<1>3. CASE \E r \in Requests : Admit(r)
  <2>1. Cardinality(admitted') = Cardinality(admitted) + 1
    BY <1>3, AdmitIs DEF Base
  <2> QED
    BY <1>1, <1>2, <2>1
<1>4. CASE Untouched \/ Prunes
  <2>1. window' \subseteq window /\ admitted' = admitted
    BY <1>4, PrunedIs DEF Untouched, Prunes, quota, Base
  <2>2. /\ Cardinality({e \in window' : e.at > t}) \in Nat /\ Cardinality(Younger(t)) \in Nat
        /\ Cardinality({e \in window' : e.at > t}) <= Cardinality(Younger(t))
    BY <2>1, YoungerShrinks
  <2>3. request'[q].seen = Cardinality(admitted') => Cardinality({e \in window' : e.at > t}) < Limit
    BY <1>1, <2>1, <2>2, BaseInts
  <2> QED
    BY <1>1, <2>1, <2>3 DEF t
<1> QED
  BY <1>3, <1>4

\* A promise is given with the oldest entry of a full window gone by its time.
LEMMA PromiseGiven ==
  ASSUME Base, NEW r \in Requests, ExceedQuota(r)
  PROVE  /\ request' = [request EXCEPT ![r] = Denial(r)]
         /\ Denial(r).until \in Nat /\ Denial(r).seen \in Nat
         /\ Denial(r).seen <= Cardinality(admitted')
         /\ Cardinality({e \in window' : e.at > Denial(r).until - Window}) < Limit
<1> DEFINE kept == Pruned(request[r].stamp)
           until == Denial(r).until
           young == {e \in window' : e.at > until - Window}
<1>1. Deny(r) /\ Respond(r, Denial(r))
  BY DEF ExceedQuota, Denial
<1>2. admitted' = admitted /\ window' = kept /\ request' = [request EXCEPT ![r] = Denial(r)]
  BY <1>1 DEF Deny, Respond
<1>3. until \in Nat /\ Denial(r).seen = Cardinality(admitted)
  BY <1>1, DenialIs
<1>4. PICK e \in kept : until >= e.at + Window
  BY <1>1, DenialIs
<1>5. /\ kept \subseteq window /\ IsFiniteSet(kept)
      /\ Cardinality(kept) \in Nat /\ Cardinality(kept) <= Cardinality(window)
  BY <1>1, DenyIs, PrunedIs DEF Base
<1>6. Cardinality(window) \in Nat /\ Cardinality(window) <= Limit /\ window \subseteq Entry
  BY FS_CardinalityType DEF Base, TypeInv
<1> HIDE DEF kept, until
<1>7. young \subseteq kept \ {e}
  <2>1. e.at \in Nat
    BY <1>4, <1>5, <1>6 DEF Entry
  <2>2. ~(e.at > until - Window)
    BY <1>3, <1>4, <2>1, BaseInts
  <2> QED
    BY <1>2, <2>2
<1>8. IsFiniteSet(kept \ {e}) /\ Cardinality(kept \ {e}) = Cardinality(kept) - 1
  BY <1>4, <1>5, FS_RemoveElement
<1>9. Cardinality(young) \in Nat /\ Cardinality(young) <= Cardinality(kept \ {e})
  BY <1>7, <1>8, FS_Subset, FS_CardinalityType
<1>10. Cardinality(young) < Limit
  BY <1>5, <1>6, <1>8, <1>9, BaseInts
<1> QED
  BY <1>2, <1>3, <1>10, CountNats DEF until, Base

LEMMA PromiseEffect ==
  ASSUME Base, Base', PromiseInv, NEW r \in Requests, NEW next \in Request, Effect(r, next)
  PROVE  PromiseInv'
<1>1. /\ request' = [request EXCEPT ![r] = next] /\ request'[r] = next
      /\ \A q \in Requests \ {r} : request'[q] = request[q]
  BY EffectMoves DEF Base, Effect, Moves
<1>2. Admit(r) \/ Untouched \/ Prunes
  BY DEF Effect
<1> SUFFICES ASSUME NEW q \in Requests, request'[q].until # None
             PROVE  /\ request'[q].until \in Nat /\ request'[q].seen \in Nat
                    /\ request'[q].seen <= Cardinality(admitted')
                    /\ request'[q].seen = Cardinality(admitted') =>
                           Cardinality({e \in window' : e.at > request'[q].until - Window}) < Limit
  BY DEF PromiseInv, Younger
<1>3. CASE request'[q].until = request[q].until /\ request'[q].seen = request[q].seen
  BY <1>2, <1>3, PromiseKept
<1>4. CASE q = r /\ ExceedQuota(r)
  <2>1. request' = [request EXCEPT ![r] = Denial(r)]
    BY <1>4, PromiseGiven
  <2>2. request'[q] = Denial(r)
    BY <1>4, <2>1 DEF Base, TypeInv
  <2> QED
    BY <1>4, <2>2, PromiseGiven
<1> QED
  BY <1>1, <1>3, <1>4 DEF Effect, KeepsPromise

Inv == Base /\ KeptInv /\ PromiseInv

LEMMA InvStep == Inv /\ [Next]_vars => Inv'
<1> SUFFICES ASSUME Inv, [Next]_vars PROVE Inv'
  OBVIOUS
<1>a. Base /\ Base' /\ KeptInv /\ PromiseInv
  BY BaseStep DEF Inv
<1>1. ASSUME NEW r \in Requests, Step(r) PROVE Inv'
  <2>1. PICK next \in Request : Effect(r, next)
    BY <1>a, <1>1, StepEffect
  <2>2. KeptInv'
    BY <1>a, <2>1, KeptQuota DEF Effect
  <2>3. PromiseInv'
    BY <1>a, <2>1, PromiseEffect
  <2> QED
    BY <1>a, <2>2, <2>3 DEF Inv
<1>2. CASE ReadUsage
  <2>1. Prunes /\ UNCHANGED <<now, request>>
    BY <1>a, <1>2, UsageEffect
  <2>2. KeptInv'
    BY <1>a, <2>1, KeptQuota
  <2>3. PromiseInv'
    BY <1>a, <2>1, PromiseKept DEF PromiseInv, Younger
  <2> QED
    BY <1>a, <2>2, <2>3 DEF Inv
<1>3. CASE Tick
  <2>1. now' = now + 1 /\ UNCHANGED <<request, window, expires, admitted>>
    BY <1>3 DEF Tick, quota
  <2>2. KeptInv'
    <3> SUFFICES ASSUME NEW a \in admitted
                 PROVE  /\ a.at <= now' /\ a.at + Window <= expires'
                        /\ \E s \in Nat :
                               /\ s <= a.at /\ a.at <= s + MaxLag
                               /\ [at |-> s, member |-> a.member] \in window' \/ s + Window <= now'
      BY <2>1 DEF KeptInv
    <3>1. PICK s \in Nat :
              /\ s <= a.at /\ a.at <= s + MaxLag
              /\ [at |-> s, member |-> a.member] \in window \/ s + Window <= now
      BY <1>a DEF KeptInv
    <3>2. a.at <= now /\ a.at + Window <= expires
      BY <1>a DEF KeptInv
    <3>3. s + Window <= now => s + Window <= now'
      BY <1>a, <2>1, BaseInts
    <3>4. a.at <= now'
      BY <1>a, <2>1, <3>2, BaseInts
    <3> QED
      BY <2>1, <3>1, <3>2, <3>3, <3>4
  <2>3. PromiseInv'
    BY <1>a, <2>1 DEF PromiseInv, Younger
  <2> QED
    BY <1>a, <2>2, <2>3 DEF Inv
<1>4. CASE UNCHANGED vars
  <2>1. UNCHANGED <<now, request, window, expires, admitted>>
    BY <1>4 DEF vars, quota
  <2> QED
    BY <1>a, <2>1 DEF Inv, KeptInv, PromiseInv, Younger
<1> QED
  BY <1>1, <1>2, <1>3, <1>4 DEF Next

LEMMA InvInit == Init => Inv
<1> SUFFICES ASSUME Init PROVE Inv
  OBVIOUS
<1>1. admitted = {} /\ \A r \in Requests : request[r].until = None
  BY FreshIs DEF Init
<1> QED
  BY <1>1, BaseInit DEF Inv, KeptInv, PromiseInv

LEMMA InvHolds == Spec => []Inv
<1>1. Init => Inv
  BY InvInit
<1>2. Inv /\ [Next]_vars => Inv'
  BY InvStep
<1> QED
  BY <1>1, <1>2, PTL DEF Spec

-----------------------------------------------------------------------------
(* The theorems.                                                           *)

\* The stamps, the counts and the gauge keep their types: the Lua script never
\* lets the sorted set grow past the limit, and no request is counted out twice.
THEOREM TypeCorrect == Spec => []TypeOK
<1>1. Inv => TypeOK
  <2> SUFFICES ASSUME Inv PROVE TypeOK
    OBVIOUS
  <2>1. inFlight \in 0..MaxArrivals
    BY BaseNats DEF Inv
  <2> QED
    BY <2>1 DEF Inv, Base, TypeInv, CountInv, TypeOK, Request, Entry
<1> QED
  BY <1>1, InvHolds, PTL

\* rate_limiter.py:22: for every limit, window and delay, and any number of API
\* processes, the paid calls admitted in any stretch as long as the window less
\* the delay are at most the limit, although a script prunes by an older clock.
THEOREM QuotaIsKept == Spec => []QuotaHolds
<1>1. Inv => QuotaHolds
  <2> DEFINE since == AdmittedSince(now - (Window - MaxLag))
             admission == [e \in window |-> CHOOSE a \in admitted : a.member = e.member]
             known == {admission[e] : e \in window}
  <2> SUFFICES ASSUME Inv, Window > MaxLag PROVE Cardinality(since) <= Limit
    BY DEF QuotaHolds
  <2>a. Base /\ KeptInv
    BY DEF Inv
  <2>1. ASSUME NEW a \in since PROVE a \in known
    <3>1. a \in admitted /\ a.at > now - (Window - MaxLag)
      BY DEF AdmittedSince
    <3>2. PICK s \in Nat :
              /\ s <= a.at /\ a.at <= s + MaxLag
              /\ [at |-> s, member |-> a.member] \in window \/ s + Window <= now
      BY <2>a, <3>1 DEF KeptInv
    <3> DEFINE e == [at |-> s, member |-> a.member]
    <3>3. e \in window /\ e.member = a.member
      BY <2>a, <3>1, <3>2, BaseInts
    <3> HIDE DEF e
    <3>4. admission[e] = a
      BY <2>a, <3>1, <3>3 DEF Base, CountInv
    <3> QED
      BY <3>3, <3>4
  <2>2. IsFiniteSet(window) /\ Cardinality(window) <= Limit
    BY <2>a DEF Base, TypeInv
  <2>3. IsFiniteSet(known) /\ Cardinality(known) <= Cardinality(window)
    <3>1. admission \in [window -> known] /\ \A a \in known : \E e \in window : admission[e] = a
      OBVIOUS
    <3> HIDE DEF admission, known
    <3>2. admission \in Surjection(window, known)
      BY <3>1 DEF Surjection
    <3> QED
      BY <2>2, <3>2, FS_Surjection
  <2> HIDE DEF since, known
  <2>4. /\ Cardinality(since) <= Cardinality(known)
        /\ Cardinality(since) \in Nat /\ Cardinality(known) \in Nat /\ Cardinality(window) \in Nat
    BY <2>1, <2>2, <2>3, FS_Subset, FS_CardinalityType
  <2> QED
    BY <2>a, <2>2, <2>3, <2>4, BaseInts
<1> QED
  BY <1>1, InvHolds, PTL

\* The middleware of bootstrap/api.py: http_requests_in_flight never shows fewer
\* requests than are open, and more by those that Redis failed at most.
THEOREM OpenRequestsAreCounted == Spec => []GaugeCoversRequests
<1>1. Inv => GaugeCoversRequests
  BY DEF Inv, Base, CountInv, GaugeCoversRequests, UnderWay
<1> QED
  BY <1>1, InvHolds, PTL

\* The Retry-After of a 429: a retry on a clock past it is turned down again only
\* if another request was admitted in between.
THEOREM RetryAfterIsHonest == Spec => RetryAfterSuffices
<1> DEFINE Honest == \A r \in Requests :
                         Turned(r) /\ request[r].until # None /\ request[r].stamp >= request[r].until
                             => Cardinality(admitted) > request[r].seen
<1>1. Inv /\ [Next]_vars => Honest
  <2> SUFFICES ASSUME Inv, [Next]_vars, NEW r \in Requests, Turned(r),
                      request[r].until # None, request[r].stamp >= request[r].until
               PROVE  Cardinality(admitted) > request[r].seen
    OBVIOUS
  <2>a. Base /\ TypeInv
    BY DEF Inv, Base
  <2>1. PICK q \in Requests : Step(q)
    <3>1. request' # request
      BY DEF Turned, At
    <3> QED
      BY <3>1 DEF Next, ReadUsage, Tick, vars
  <2>2. PICK next \in Request : Effect(q, next)
    BY <2>a, <2>1, StepEffect
  <2>3. q = r /\ request'[r] = next
    BY <2>a, <2>2, EffectMoves DEF Turned, At, Moves
  <2>4. ExceedQuota(r)
    BY <2>2, <2>3 DEF Turned, Effect, KeepsPromise
  <2> DEFINE kept == Pruned(request[r].stamp)
             young == Younger(request[r].until - Window)
  <2>5. Cardinality(kept) >= Limit /\ request[r].stamp \in Nat
    BY <2>a, <2>4, DenyIs DEF ExceedQuota
  <2>6. /\ request[r].until \in Nat /\ request[r].seen \in Nat
        /\ request[r].seen <= Cardinality(admitted)
        /\ request[r].seen = Cardinality(admitted) => Cardinality(young) < Limit
    BY DEF Inv, PromiseInv
  <2>7. kept \subseteq young /\ young \subseteq window
    <3>1. \A e \in window : e.at \in Nat
      BY <2>a DEF TypeInv, Entry
    <3>2. kept \subseteq window
      BY <2>a, <2>5, PrunedIs
    <3>3. \A e \in kept : e.at > request[r].until - Window
      BY <2>a, <2>5, <2>6, <3>1, <3>2, BaseInts DEF Pruned
    <3> QED
      BY <3>2, <3>3 DEF Younger
  <2> HIDE DEF kept, young
  <2>8. /\ Cardinality(kept) <= Cardinality(young)
        /\ Cardinality(kept) \in Nat /\ Cardinality(young) \in Nat
    BY <2>a, <2>7, FS_Subset, FS_CardinalityType DEF TypeInv
  <2> QED
    BY <2>a, <2>5, <2>6, <2>8, BaseInts, CountNats DEF Base
<1> QED
  BY <1>1, InvHolds, PTL DEF Spec, RetryAfterSuffices
=============================================================================
