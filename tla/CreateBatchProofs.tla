-------------------------- MODULE CreateBatchProofs --------------------------
(***************************************************************************)
(* Theorems about CreateBatch, for every number of keys, payloads,         *)
(* requests and faults, and every quota.                                   *)
(***************************************************************************)
EXTENDS CreateBatch, FiniteSetTheorems, TLAPS

-----------------------------------------------------------------------------
(* Types.                                                                  *)

Steps == {"resolve", "quota", "insert", "jobs", "commit"}
Open == [step : Steps, key : Keys, payload : Payloads, id : Nat]

TypeInv ==
    /\ batch \in [Keys -> Batch \cup {NoBatch}]
    /\ used \in 0..Limit
    /\ request \in [Requests -> {Closed} \cup Open]
    /\ answers \subseteq Answer
    /\ unkept \subseteq Batch
    /\ started \in 0..MaxRequests
    /\ lost \in 0..MaxLost

\* A request that is under way carries its key, its payload and a number.
LEMMA OpenRequest ==
  ASSUME TypeInv, NEW q \in Requests, ~At(q, "idle")
  PROVE  request[q] \in Open /\ Made(q) \in Batch
  BY DEF TypeInv, At, Closed, Open, Made, Batch

\* Moving a request on, and closing it, keep it well formed.
LEMMA GotoType ==
  ASSUME TypeInv, NEW q \in Requests, ~At(q, "idle"), NEW s \in Steps
  PROVE  [request EXCEPT ![q].step = s] \in [Requests -> {Closed} \cup Open]
<1>1. [request[q] EXCEPT !.step = s] \in Open
  BY OpenRequest DEF Open
<1> QED
  BY <1>1 DEF TypeInv

LEMMA CloseType ==
  ASSUME TypeInv, NEW q \in Requests
  PROVE  [request EXCEPT ![q] = Closed] \in [Requests -> {Closed} \cup Open]
  BY DEF TypeInv

\* Whatever a caller is told about a batch in the table is a well-formed answer.
LEMMA TellType ==
  ASSUME TypeInv, NEW kind \in {"created", "returned", "conflict", "limited"},
         NEW k \in Keys, NEW p \in Payloads, NEW b \in Batch \cup {NoBatch},
         Tell(kind, k, p, b)
  PROVE  answers' \subseteq Answer
<1>1. [kind |-> kind, key |-> k, payload |-> p, batch |-> b] \in Answer
  BY DEF Answer
<1> QED
  BY <1>1 DEF Tell, TypeInv

LEMMA AnswerWithType ==
  ASSUME TypeInv, NEW b \in Batch, NEW k \in Keys, NEW p \in Payloads, AnswerWith(b, k, p)
  PROVE  answers' \subseteq Answer
<1>1. (IF b.payload = p THEN "returned" ELSE "conflict") \in {"created", "returned", "conflict", "limited"}
  OBVIOUS
<1> QED
  BY <1>1, TellType DEF AnswerWith

LEMMA TypeStep == TypeInv /\ [Next]_vars => TypeInv'
<1> SUFFICES ASSUME TypeInv, [Next]_vars PROVE TypeInv'
  OBVIOUS
<1> USE CreateAssumption
<1>1. ASSUME NEW q \in Requests, NEW k \in Keys, NEW p \in Payloads, ReadKey(q, k, p)
      PROVE  TypeInv'
  <2>1. started' \in 0..MaxRequests /\ started \in Nat
    BY <1>1 DEF ReadKey, TypeInv
  <2>2. CASE batch[k] # NoBatch
    <3>1. batch[k] \in Batch
      BY <2>2 DEF TypeInv
    <3>2. answers' \subseteq Answer
      BY <1>1, <2>2, <3>1, AnswerWithType DEF ReadKey
    <3> QED
      BY <1>1, <2>1, <2>2, <3>2 DEF ReadKey, TypeInv
  <2>3. CASE batch[k] = NoBatch
    <3>1. [step |-> "resolve", key |-> k, payload |-> p, id |-> started] \in Open
      BY <2>1 DEF Open, Steps
    <3> QED
      BY <1>1, <2>1, <2>3, <3>1 DEF ReadKey, TypeInv
  <2> QED
    BY <2>2, <2>3
<1>2. ASSUME NEW q \in Requests, Resolve(q) PROVE TypeInv'
  BY <1>2, GotoType DEF Resolve, Goto, At, Steps, TypeInv
<1>3. ASSUME NEW q \in Requests, ResolveRefused(q) \/ RefuseKey(q) PROVE TypeInv'
  BY <1>3, CloseType DEF ResolveRefused, RefuseKey, TypeInv
<1>4. ASSUME NEW q \in Requests, TakeQuota(q) PROVE TypeInv'
  <2>1. request' \in [Requests -> {Closed} \cup Open]
    BY <1>4, GotoType DEF TakeQuota, Goto, At, Steps
  <2>2. used' \in 0..Limit
    BY <1>4 DEF TakeQuota, TypeInv
  <2> QED
    BY <1>4, <2>1, <2>2 DEF TakeQuota, TypeInv
<1>5. ASSUME NEW q \in Requests, OverQuota(q) PROVE TypeInv'
  <2>1. request[q] \in Open
    BY <1>5, OpenRequest DEF OverQuota, At
  <2>2. request[q].key \in Keys /\ request[q].payload \in Payloads
    BY <2>1 DEF Open
  <2>3. batch[request[q].key] \in Batch \cup {NoBatch}
    BY <2>2 DEF TypeInv
  <2>4. answers' \subseteq Answer
    BY <1>5, <2>2, <2>3, TellType DEF OverQuota
  <2> QED
    BY <1>5, <2>4, CloseType DEF OverQuota, TypeInv
<1>6. ASSUME NEW q \in Requests, InsertBatch(q) PROVE TypeInv'
  BY <1>6, GotoType DEF InsertBatch, Goto, At, Steps, TypeInv
<1>7. ASSUME NEW q \in Requests, InsertConflicts(q) PROVE TypeInv'
  <2>1. request[q].key \in Keys /\ request[q].payload \in Payloads
    BY <1>7, OpenRequest DEF InsertConflicts, At, Open
  <2>2. batch[request[q].key] \in Batch
    BY <1>7, <2>1 DEF InsertConflicts, TypeInv
  <2>3. answers' \subseteq Answer
    BY <1>7, <2>1, <2>2, AnswerWithType DEF InsertConflicts
  <2> QED
    BY <1>7, <2>3, CloseType DEF InsertConflicts, TypeInv
<1>8. ASSUME NEW q \in Requests, AnswerCreated(q) PROVE TypeInv'
  <2>1. /\ request[q].key \in Keys /\ request[q].payload \in Payloads
        /\ Made(q) \in Batch
    BY <1>8, OpenRequest DEF AnswerCreated, At, Open
  <2>2. answers' \subseteq Answer
    BY <1>8, <2>1, TellType DEF AnswerCreated
  <2> QED
    BY <1>8, <2>2, GotoType DEF AnswerCreated, Goto, At, Steps, TypeInv
<1>9. ASSUME NEW q \in Requests, CommitBatch(q) PROVE TypeInv'
  <2>1. Made(q) \in Batch
    BY <1>9, OpenRequest DEF CommitBatch, At
  <2> QED
    BY <1>9, <2>1, CloseType DEF CommitBatch, TypeInv
<1>10. ASSUME NEW q \in Requests, Die(q) PROVE TypeInv'
  <2>1. Made(q) \in Batch
    BY <1>10, OpenRequest DEF Die
  <2>2. unkept' \subseteq Batch
    BY <1>10, <2>1 DEF Die, TypeInv
  <2> QED
    BY <1>10, <2>2, CloseType DEF Die, TypeInv
<1>11. ASSUME NEW q \in Requests, AnswerLost(q) PROVE TypeInv'
  <2>1. request' \in [Requests -> {Closed} \cup Open]
    BY <1>11, GotoType DEF AnswerLost, Goto, At, Steps
  <2> QED
    BY <1>11, <2>1 DEF AnswerLost, TypeInv
<1>12. CASE UNCHANGED vars
  BY <1>12 DEF vars, TypeInv
<1> QED
  BY <1>1, <1>2, <1>3, <1>4, <1>5, <1>6, <1>7, <1>8, <1>9, <1>10, <1>11, <1>12
  DEF Next, RequestStep

LEMMA TypeInit == Init => TypeInv
  BY CreateAssumption DEF Init, TypeInv

\* The table, the quota, the requests and the answers keep their types.
THEOREM TypeCorrect == Spec => []TypeOK
<1>1. TypeInv => TypeOK
  BY DEF TypeInv, TypeOK, Closed, Open, Steps
<1> QED
  BY <1>1, TypeInit, TypeStep, PTL DEF Spec

-----------------------------------------------------------------------------
(* One batch per key.  What makes the early answers good: the unique key   *)
(* lets one transaction at a time hold an uncommitted row of a key, and    *)
(* only while no batch of the key is committed (OneWriter); so a commit    *)
(* never replaces a batch that somebody was told about.                    *)

Writes(q) == request[q].step \in {"jobs", "commit"}

OneWriter ==
    \A q \in Requests : Writes(q) =>
        /\ batch[request[q].key] = NoBatch
        /\ \A r \in Requests \ {q} : Writes(r) => request[r].key # request[q].key

\* CallersAgree, with the key of the transaction that is to keep the promise.
Kept(a) ==
    /\ a.kind \in {"created", "returned"} => a.batch \in Batch /\ a.batch.payload = a.payload
    /\ a.kind = "returned" => batch[a.key] = a.batch
    /\ a.kind = "created" =>
           \/ batch[a.key] = a.batch
           \/ a.batch \in unkept
           \/ \E q \in Requests :
                  At(q, "commit") /\ request[q].key = a.key /\ Made(q) = a.batch
    /\ a.kind = "conflict" => batch[a.key] # NoBatch /\ batch[a.key].payload # a.payload

AgreeInv == TypeInv /\ OneWriter /\ \A a \in answers : Kept(a)

\* A request that leaves the set of writers, or never was in it, disturbs nobody.
LEMMA WriterStays ==
  ASSUME AgreeInv, NEW q \in Requests, batch' = batch,
         \A r \in Requests \ {q} : request'[r] = request[r],
         Writes(q)' => Writes(q) /\ request'[q].key = request[q].key
  PROVE  OneWriter'
  BY DEF AgreeInv, OneWriter, Writes

\* An answer stays true while no batch is committed and no committing
\* transaction ends.
LEMMA AnswersStay ==
  ASSUME AgreeInv, NEW q \in Requests, batch' = batch, unkept \subseteq unkept',
         \A r \in Requests \ {q} : request'[r] = request[r],
         At(q, "commit") => request'[q] = request[q] \/ Made(q) \in unkept',
         NEW a \in answers
  PROVE  Kept(a)'
<1>1. Kept(a)
  BY DEF AgreeInv
<1>2. ASSUME NEW r \in Requests, At(r, "commit"), request[r].key = a.key, Made(r) = a.batch
      PROVE  \/ a.batch \in unkept'
             \/ At(r, "commit")' /\ request'[r].key = a.key /\ Made(r)' = a.batch
  BY <1>2 DEF At, Made
<1> QED
  BY <1>1, <1>2 DEF Kept

\* What AnswerWith tells is true of the batch it was told about.
LEMMA AnswerWithKept ==
  ASSUME AgreeInv, NEW k \in Keys, NEW p \in Payloads, batch[k] # NoBatch,
         AnswerWith(batch[k], k, p), batch' = batch,
         \A a \in answers : Kept(a)'
  PROVE  \A a \in answers' : Kept(a)'
<1> DEFINE kind == IF batch[k].payload = p THEN "returned" ELSE "conflict"
           told == [kind |-> kind, key |-> k, payload |-> p, batch |-> batch[k]]
<1>1. answers' = answers \cup {told}
  BY DEF AnswerWith, Tell
<1>2. batch[k] \in Batch
  BY DEF AgreeInv, TypeInv
<1>3. Kept(told)'
  <2>1. CASE batch[k].payload = p
    BY <2>1, <1>2 DEF Kept
  <2>2. CASE batch[k].payload # p
    BY <2>2, <1>2 DEF Kept
  <2> QED
    BY <2>1, <2>2
<1> QED
  BY <1>1, <1>3

\* The own batch of a request is promised to its caller.
LEMMA AnswerCreatedKept ==
  ASSUME AgreeInv, NEW q \in Requests, AnswerCreated(q), \A a \in answers : Kept(a)'
  PROVE  \A a \in answers' : Kept(a)'
<1> SUFFICES ASSUME NEW a \in answers', a \notin answers PROVE Kept(a)'
  OBVIOUS
<1>1. a = [kind |-> "created", key |-> request[q].key,
           payload |-> request[q].payload, batch |-> Made(q)]
  BY DEF AnswerCreated, Tell
<1>2. request[q] \in Open /\ Made(q) \in Batch
  BY OpenRequest DEF AgreeInv, AnswerCreated, At
<1>3. /\ request'[q].step = "commit" /\ request'[q].key = request[q].key
      /\ Made(q)' = Made(q)
  BY <1>2 DEF AgreeInv, TypeInv, AnswerCreated, Goto, Made, Open
<1> QED
  BY <1>1, <1>2, <1>3 DEF Kept, At, Made

\* A commit fills a key that was empty, so it contradicts no earlier answer.
LEMMA CommitKept ==
  ASSUME AgreeInv, NEW q \in Requests, CommitBatch(q)
  PROVE  OneWriter' /\ \A a \in answers' : Kept(a)'
<1> DEFINE k == request[q].key
<1>1. request[q] \in Open /\ Made(q) \in Batch /\ k \in Keys
  BY OpenRequest DEF AgreeInv, CommitBatch, At, Open
<1>2. batch[k] = NoBatch /\ \A r \in Requests \ {q} : Writes(r) => request[r].key # k
  BY DEF AgreeInv, OneWriter, Writes, CommitBatch, At
<1>3. /\ batch'[k] = Made(q)
      /\ \A m \in Keys \ {k} : batch'[m] = batch[m]
      /\ request'[q] = Closed
      /\ \A r \in Requests \ {q} : request'[r] = request[r]
  BY <1>1 DEF AgreeInv, TypeInv, CommitBatch
<1>4. \A r \in Requests \ {q} : Writes(r) => request[r].key \in Keys
  BY OpenRequest DEF AgreeInv, Writes, At, Open
<1>5. OneWriter'
  BY <1>2, <1>3, <1>4 DEF AgreeInv, OneWriter, Writes, Closed
<1>6. ASSUME NEW a \in answers PROVE Kept(a)'
  <2>1. Kept(a) /\ a.key \in Keys
    BY DEF AgreeInv, TypeInv, Answer
  <2>2. NoBatch \notin Batch
    BY CreateAssumption DEF Batch
  <2>3. CASE a.key # k
    <3>1. \A r \in Requests : At(r, "commit") /\ request[r].key = a.key /\ Made(r) = a.batch =>
              At(r, "commit")' /\ request'[r].key = a.key /\ Made(r)' = a.batch
      BY <1>3, <2>3 DEF At, Made
    <3> QED
      BY <2>1, <2>3, <3>1, <1>3 DEF Kept, CommitBatch
  <2>4. CASE a.key = k
    <3>1. a.kind # "returned" /\ a.kind # "conflict"
      BY <1>2, <2>1, <2>2, <2>4 DEF Kept
    <3>2. ASSUME NEW r \in Requests, At(r, "commit"), request[r].key = a.key, Made(r) = a.batch
          PROVE  batch'[a.key] = a.batch
      BY <1>2, <1>3, <2>4, <3>2 DEF Writes, At
    <3> QED
      BY <1>2, <2>1, <2>2, <2>4, <3>1, <3>2 DEF Kept, CommitBatch
  <2> QED
    BY <2>3, <2>4
<1> QED
  BY <1>5, <1>6 DEF CommitBatch

LEMMA AgreeStep == AgreeInv /\ [Next]_vars => AgreeInv'
<1> SUFFICES ASSUME AgreeInv, [Next]_vars PROVE OneWriter' /\ \A a \in answers' : Kept(a)'
  BY TypeStep DEF AgreeInv
<1> USE DEF AgreeInv
<1>1. ASSUME NEW q \in Requests, NEW k \in Keys, NEW p \in Payloads, ReadKey(q, k, p)
      PROVE  OneWriter' /\ \A a \in answers' : Kept(a)'
  <2>1. /\ batch' = batch /\ unkept' = unkept /\ ~At(q, "commit")
        /\ \A r \in Requests \ {q} : request'[r] = request[r]
        /\ request'[q] = request[q] \/ request'[q].step = "resolve"
    BY <1>1 DEF ReadKey, At, TypeInv
  <2>2. OneWriter' /\ \A a \in answers : Kept(a)'
    BY <2>1, WriterStays, AnswersStay DEF Writes
  <2>3. CASE batch[k] # NoBatch
    BY <1>1, <2>1, <2>2, <2>3, AnswerWithKept DEF ReadKey
  <2>4. CASE batch[k] = NoBatch
    BY <1>1, <2>2, <2>4 DEF ReadKey
  <2> QED
    BY <2>2, <2>3, <2>4
<1>2. ASSUME NEW q \in Requests,
             Resolve(q) \/ TakeQuota(q) \/ ResolveRefused(q) \/ RefuseKey(q)
      PROVE  OneWriter' /\ \A a \in answers' : Kept(a)'
  <2>1. /\ batch' = batch /\ unkept' = unkept /\ answers' = answers /\ ~At(q, "commit")
        /\ \A r \in Requests \ {q} : request'[r] = request[r]
        /\ request'[q].step \in {"idle", "quota", "insert"}
    <3>1. CASE Resolve(q)
      BY <3>1 DEF Resolve, Goto, At, TypeInv
    <3>2. CASE TakeQuota(q)
      BY <3>2 DEF TakeQuota, Goto, At, TypeInv
    <3>3. CASE ResolveRefused(q) \/ RefuseKey(q)
      BY <3>3 DEF ResolveRefused, RefuseKey, At, Closed, TypeInv
    <3> QED
      BY <1>2, <3>1, <3>2, <3>3
  <2> QED
    BY <2>1, WriterStays, AnswersStay DEF Writes
<1>3. ASSUME NEW q \in Requests, OverQuota(q)
      PROVE  OneWriter' /\ \A a \in answers' : Kept(a)'
  <2>1. /\ batch' = batch /\ unkept' = unkept /\ ~At(q, "commit")
        /\ \A r \in Requests \ {q} : request'[r] = request[r]
        /\ request'[q] = Closed
    BY <1>3 DEF OverQuota, At, TypeInv
  <2>2. OneWriter' /\ \A a \in answers : Kept(a)'
    BY <2>1, WriterStays, AnswersStay DEF Writes, Closed
  <2>3. \A a \in answers' : a \in answers \/ a.kind = "limited"
    BY <1>3 DEF OverQuota, Tell
  <2> QED
    BY <2>2, <2>3 DEF Kept
<1>4. ASSUME NEW q \in Requests, InsertBatch(q)
      PROVE  OneWriter' /\ \A a \in answers' : Kept(a)'
  <2>1. /\ batch' = batch /\ unkept' = unkept /\ answers' = answers /\ ~At(q, "commit")
        /\ \A r \in Requests \ {q} : request'[r] = request[r]
        /\ request'[q].key = request[q].key
    BY <1>4, OpenRequest DEF InsertBatch, Goto, At, Open, TypeInv
  <2>2. \A r \in Requests \ {q} : Writes(r) => request[r].key # request[q].key
    BY <1>4 DEF InsertBatch, InsertWaits, Writes
  <2>3. batch[request[q].key] = NoBatch
    BY <1>4 DEF InsertBatch
  <2>4. OneWriter'
    BY <2>1, <2>2, <2>3 DEF OneWriter, Writes
  <2> QED
    BY <2>1, <2>4, AnswersStay
<1>5. ASSUME NEW q \in Requests, InsertConflicts(q)
      PROVE  OneWriter' /\ \A a \in answers' : Kept(a)'
  <2>1. /\ batch' = batch /\ unkept' = unkept /\ ~At(q, "commit")
        /\ \A r \in Requests \ {q} : request'[r] = request[r]
        /\ request'[q] = Closed
    BY <1>5 DEF InsertConflicts, At, TypeInv
  <2>2. OneWriter' /\ \A a \in answers : Kept(a)'
    BY <2>1, WriterStays, AnswersStay DEF Writes, Closed
  <2>3. request[q].key \in Keys /\ request[q].payload \in Payloads
    BY <1>5, OpenRequest DEF InsertConflicts, At, Open
  <2> QED
    BY <1>5, <2>1, <2>2, <2>3, AnswerWithKept DEF InsertConflicts
<1>6. ASSUME NEW q \in Requests, AnswerCreated(q) \/ AnswerLost(q)
      PROVE  OneWriter' /\ \A a \in answers' : Kept(a)'
  <2>1. /\ batch' = batch /\ unkept' = unkept /\ ~At(q, "commit") /\ Writes(q)
        /\ \A r \in Requests \ {q} : request'[r] = request[r]
        /\ request'[q].key = request[q].key
    BY <1>6, OpenRequest DEF AnswerCreated, AnswerLost, Goto, At, Open, Writes, TypeInv
  <2>2. OneWriter' /\ \A a \in answers : Kept(a)'
    BY <2>1, WriterStays, AnswersStay
  <2> QED
    BY <1>6, <2>2, AnswerCreatedKept DEF AnswerLost
<1>7. ASSUME NEW q \in Requests, CommitBatch(q)
      PROVE  OneWriter' /\ \A a \in answers' : Kept(a)'
  BY <1>7, CommitKept
<1>8. ASSUME NEW q \in Requests, Die(q)
      PROVE  OneWriter' /\ \A a \in answers' : Kept(a)'
  <2>1. /\ batch' = batch /\ answers' = answers /\ unkept \subseteq unkept'
        /\ At(q, "commit") => Made(q) \in unkept'
        /\ \A r \in Requests \ {q} : request'[r] = request[r]
        /\ request'[q] = Closed
    BY <1>8 DEF Die, TypeInv
  <2> QED
    BY <2>1, WriterStays, AnswersStay DEF Writes, Closed
<1>9. CASE UNCHANGED vars
  BY <1>9 DEF vars, OneWriter, Writes, Kept, At, Made
<1> QED
  BY <1>1, <1>2, <1>3, <1>4, <1>5, <1>6, <1>7, <1>8, <1>9 DEF Next, RequestStep

\* create_batch.py and the unique key: whatever races, retries and dies, all
\* callers of a key are told of one batch, the one that is committed.
THEOREM CallersAgreeHolds == Spec => []CallersAgree
<1>1. Init => AgreeInv
  BY TypeInit DEF Init, AgreeInv, OneWriter, Writes, Closed
<1>2. AgreeInv => CallersAgree
  BY DEF AgreeInv, CallersAgree, Kept
<1> QED
  BY <1>1, <1>2, AgreeStep, PTL DEF Spec

-----------------------------------------------------------------------------
(* The quota.  A request takes its entry before it may write, and hands it *)
(* on to its batch in the commit; the rest only gives entries away.  Keys  *)
(* and requests need not be finite: the two sets below always are.         *)

Covered == {k \in Keys : batch[k] # NoBatch}
Metered == {q \in Requests : request[q].step \in {"insert", "jobs", "commit"}}

QuotaInv ==
    /\ IsFiniteSet(Covered) /\ IsFiniteSet(Metered)
    /\ Cardinality(Covered) + Cardinality(Metered) <= used

\* An entry that is given away does no harm.
LEMMA EntryStays ==
  ASSUME AgreeInv, QuotaInv, NEW q \in Requests, Covered' = Covered, used' = used,
         Metered' \in {Metered, Metered \ {q}}
  PROVE  QuotaInv'
<1>1. /\ IsFiniteSet(Metered \ {q})
      /\ Cardinality(Metered \ {q}) =
             IF q \in Metered THEN Cardinality(Metered) - 1 ELSE Cardinality(Metered)
  BY FS_RemoveElement DEF QuotaInv
<1>2. Cardinality(Covered) \in Nat /\ Cardinality(Metered) \in Nat /\ used \in Nat
  BY FS_CardinalityType, CreateAssumption DEF QuotaInv, AgreeInv, TypeInv
<1>3. Cardinality(Metered') <= Cardinality(Metered) /\ Cardinality(Metered') \in Int
  <2>1. CASE Metered' = Metered
    BY <2>1, <1>2
  <2>2. CASE Metered' = Metered \ {q}
    BY <2>2, <1>1, <1>2
  <2> QED
    BY <2>1, <2>2
<1>4. IsFiniteSet(Covered') /\ IsFiniteSet(Metered')
  BY <1>1 DEF QuotaInv
<1>5. Cardinality(Covered') = Cardinality(Covered)
  OBVIOUS
<1>6. Cardinality(Covered') + Cardinality(Metered') <= used'
  BY <1>2, <1>3, <1>5 DEF QuotaInv
<1> QED
  BY <1>4, <1>6 DEF QuotaInv

\* The limiter counts an entry for every request that goes on.
LEMMA EntryTaken ==
  ASSUME AgreeInv, QuotaInv, NEW q \in Requests, TakeQuota(q)
  PROVE  QuotaInv'
<1>1. Covered' = Covered /\ Metered' = Metered \cup {q} /\ q \notin Metered
  BY DEF AgreeInv, TypeInv, TakeQuota, Goto, At, Covered, Metered
<1>2. /\ IsFiniteSet(Metered \cup {q})
      /\ Cardinality(Metered \cup {q}) = Cardinality(Metered) + 1
  BY <1>1, FS_AddElement DEF QuotaInv
<1>3. Cardinality(Covered) \in Nat /\ Cardinality(Metered) \in Nat
  BY FS_CardinalityType DEF QuotaInv
<1>4. used \in Nat /\ used' = used + 1
  BY CreateAssumption DEF AgreeInv, TypeInv, TakeQuota
<1>5. IsFiniteSet(Covered') /\ IsFiniteSet(Metered')
  BY <1>1, <1>2 DEF QuotaInv
<1>6. Cardinality(Covered') + Cardinality(Metered') <= used'
  BY <1>1, <1>2, <1>3, <1>4 DEF QuotaInv
<1> QED
  BY <1>5, <1>6 DEF QuotaInv

\* A commit hands the entry of its request to a key that had none.
LEMMA EntryHandedOn ==
  ASSUME AgreeInv, QuotaInv, NEW q \in Requests, CommitBatch(q)
  PROVE  QuotaInv'
<1> DEFINE k == request[q].key
<1>1. k \in Keys /\ Made(q) \in Batch
  BY OpenRequest DEF AgreeInv, CommitBatch, At, Open
<1>2. batch[k] = NoBatch /\ Made(q) # NoBatch
  BY <1>1, CreateAssumption DEF AgreeInv, OneWriter, Writes, CommitBatch, At, Batch
<1>3. Covered' = Covered \cup {k} /\ k \notin Covered
  BY <1>1, <1>2 DEF AgreeInv, TypeInv, CommitBatch, Covered
<1>4. Metered' = Metered \ {q} /\ q \in Metered
  BY DEF AgreeInv, TypeInv, CommitBatch, At, Closed, Metered
<1>5. /\ IsFiniteSet(Covered \cup {k})
      /\ Cardinality(Covered \cup {k}) = Cardinality(Covered) + 1
  BY <1>3, FS_AddElement DEF QuotaInv
<1>6. /\ IsFiniteSet(Metered \ {q})
      /\ Cardinality(Metered \ {q}) = Cardinality(Metered) - 1
  BY <1>4, FS_RemoveElement DEF QuotaInv
<1>7. /\ Cardinality(Covered) \in Nat /\ Cardinality(Metered) \in Nat
      /\ used \in Nat /\ used' = used
  BY FS_CardinalityType, CreateAssumption DEF QuotaInv, AgreeInv, TypeInv, CommitBatch
<1>8. IsFiniteSet(Covered') /\ IsFiniteSet(Metered')
  BY <1>3, <1>4, <1>5, <1>6
<1>9. Cardinality(Covered') + Cardinality(Metered') <= used'
  BY <1>3, <1>4, <1>5, <1>6, <1>7 DEF QuotaInv
<1> QED
  BY <1>8, <1>9 DEF QuotaInv

LEMMA QuotaStep == AgreeInv /\ QuotaInv /\ [Next]_vars => QuotaInv'
<1> SUFFICES ASSUME AgreeInv, QuotaInv, [Next]_vars PROVE QuotaInv'
  OBVIOUS
<1>1. ASSUME NEW q \in Requests, NEW k \in Keys, NEW p \in Payloads, ReadKey(q, k, p)
      PROVE  QuotaInv'
  <2>1. Covered' = Covered /\ used' = used
    BY <1>1 DEF ReadKey, Covered
  <2>2. Metered' = Metered
    BY <1>1 DEF AgreeInv, TypeInv, ReadKey, At, Metered
  <2> QED
    BY <2>1, <2>2, EntryStays
<1>2. ASSUME NEW q \in Requests,
             ResolveRefused(q) \/ OverQuota(q) \/ RefuseKey(q) \/ InsertConflicts(q) \/ Die(q)
      PROVE  QuotaInv'
  <2>1. /\ batch' = batch /\ used' = used
        /\ request' = [request EXCEPT ![q] = Closed]
    BY <1>2 DEF ResolveRefused, OverQuota, RefuseKey, InsertConflicts, Die
  <2>2. Covered' = Covered
    BY <2>1 DEF Covered
  <2>3. Metered' = Metered \ {q}
    BY <2>1 DEF AgreeInv, TypeInv, Closed, Metered
  <2> QED
    BY <2>1, <2>2, <2>3, EntryStays
<1>3. ASSUME NEW q \in Requests, Resolve(q) PROVE QuotaInv'
  <2>1. Covered' = Covered /\ used' = used
    BY <1>3 DEF Resolve, Covered
  <2>2. Metered' = Metered
    BY <1>3 DEF AgreeInv, TypeInv, Resolve, Goto, At, Metered
  <2> QED
    BY <2>1, <2>2, EntryStays
<1>4. ASSUME NEW q \in Requests, InsertBatch(q) \/ AnswerCreated(q) \/ AnswerLost(q)
      PROVE  QuotaInv'
  <2>1. Covered' = Covered /\ used' = used
    BY <1>4 DEF InsertBatch, AnswerCreated, AnswerLost, Covered
  <2>2. /\ q \in Metered /\ request'[q].step \in {"jobs", "commit"}
        /\ \A r \in Requests \ {q} : request'[r] = request[r]
    BY <1>4, OpenRequest
    DEF AgreeInv, TypeInv, InsertBatch, AnswerCreated, AnswerLost, Goto, At, Open, Metered
  <2>3. Metered' = Metered
    BY <2>2 DEF Metered
  <2> QED
    BY <2>1, <2>3, EntryStays
<1>5. ASSUME NEW q \in Requests, TakeQuota(q) \/ CommitBatch(q) PROVE QuotaInv'
  BY <1>5, EntryTaken, EntryHandedOn
<1>6. CASE UNCHANGED vars
  <2>1. Covered' = Covered /\ Metered' = Metered /\ used' = used
    BY <1>6 DEF vars, Covered, Metered
  <2> QED
    BY <2>1 DEF QuotaInv
<1> QED
  BY <1>1, <1>2, <1>3, <1>4, <1>5, <1>6 DEF Next, RequestStep

\* quota.py: the paid work is capped for every mix of races, retries and deaths.
\* Every committed batch and every request about to write has an entry of its own.
THEOREM QuotaCovers == Spec => []QuotaCoversBatches
<1>1. Init => AgreeInv
  BY TypeInit DEF Init, AgreeInv, OneWriter, Writes, Closed
<1>2. Init => QuotaInv
  <2>1. Init => Covered = {} /\ Metered = {} /\ used = 0
    BY DEF Init, Covered, Metered, Closed
  <2> QED
    BY <2>1, FS_EmptySet DEF QuotaInv
<1>3. QuotaInv => QuotaCoversBatches
  BY DEF QuotaInv, QuotaCoversBatches, Covered, Metered
<1> QED
  BY <1>1, <1>2, <1>3, AgreeStep, QuotaStep, PTL DEF Spec
=============================================================================
