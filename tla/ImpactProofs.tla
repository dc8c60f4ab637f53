---------------------------- MODULE ImpactProofs ----------------------------
(***************************************************************************)
(* Theorems about Impact, for every number of jobs, images and requests,   *)
(* every number of cover edits, days and faults.                           *)
(***************************************************************************)
EXTENDS Impact, TLAPS, FiniteSetTheorems, SequenceTheorems, WellFoundedInduction

-----------------------------------------------------------------------------
(* Types: an open request is about a job, in a status it has not seen        *)
(* rolled back.                                                             *)

Product == [image : Gallery, cover : Slots, version : Nat, shown : Makers]
Before == [image : Gallery, shown : Makers]
Request == [step : Steps, job : Makers, aggregate : Columns, record : Columns, starts : BOOLEAN]

TypeInv ==
    /\ job \in [Jobs -> [source : Asset, expected : Nat]]
    /\ row \in [Jobs -> Columns]
    /\ product \in Product
    /\ snapshot \in [Jobs -> Before]
    /\ restored \subseteq Jobs /\ replaced \subseteq Jobs
    /\ request \in [Requests -> Request]
    /\ \A q \in Requests :
           ~At(q, "idle") =>
               /\ request[q].job \in Jobs
               /\ request[q].step \notin Saving => request[q].aggregate.status # "ROLLED_BACK"
    /\ today \in 0..LastDay /\ visited \subseteq 0..today /\ clock \in Nat
    /\ overlapped \subseteq SUBSET Jobs
    /\ edits \in 0..MaxEdits /\ requests \in 0..MaxRequests /\ lost \in 0..MaxLost

ProductType ==
    /\ product \in Product /\ snapshot \in [Jobs -> Before]
    /\ restored \subseteq Jobs /\ replaced \subseteq Jobs
RowType == row \in [Jobs -> Columns]
RequestType ==
    /\ request \in [Requests -> Request]
    /\ \A q \in Requests :
           ~At(q, "idle") =>
               /\ request[q].job \in Jobs
               /\ request[q].step \notin Saving => request[q].aggregate.status # "ROLLED_BACK"
DayType == today \in 0..LastDay /\ visited \subseteq 0..today /\ clock \in Nat
CounterType ==
    /\ overlapped \subseteq SUBSET Jobs
    /\ edits \in 0..MaxEdits /\ requests \in 0..MaxRequests /\ lost \in 0..MaxLost

LEMMA Parts ==
    TypeInv <=> /\ job \in [Jobs -> [source : Asset, expected : Nat]]
                /\ ProductType /\ RowType /\ RequestType /\ DayType /\ CounterType
  BY DEF TypeInv, ProductType, RowType, RequestType, DayType, CounterType

LEMMA PartsNext ==
    TypeInv' <=> /\ job' \in [Jobs -> [source : Asset, expected : Nat]]
                 /\ ProductType' /\ RowType' /\ RequestType' /\ DayType' /\ CounterType'
  BY DEF TypeInv, ProductType, RowType, RequestType, DayType, CounterType

LEMMA Unchanging ==
  ASSUME TypeInv
  PROVE  /\ UNCHANGED external => ProductType'
         /\ UNCHANGED row => RowType'
         /\ UNCHANGED request => RequestType'
         /\ UNCHANGED analytics => DayType'
         /\ UNCHANGED counters => CounterType'
  BY Parts DEF external, analytics, counters, ProductType, RowType, RequestType, At,
               DayType, CounterType

LEMMA Blank == NoRequest \in Request /\ NoColumns \in Columns
<1>1. 0 \in 0..LastDay
  BY ImpactAssumption
<1>2. NoColumns \in Columns
  BY <1>1 DEF NoColumns, Columns, Statuses
<1> QED
  BY <1>2 DEF NoRequest, Request, Steps, Makers

\* Moving a request on, and closing it.
LEMMA CloseType ==
  ASSUME TypeInv, NEW q \in Requests, Close(q)
  PROVE  /\ RequestType'
         /\ request'[q] = NoRequest
         /\ \A r \in Requests \ {q} : request'[r] = request[r]
<1>1. /\ request' \in [Requests -> Request] /\ request'[q] = NoRequest
      /\ \A r \in Requests \ {q} : request'[r] = request[r]
  BY Blank DEF Close, TypeInv
<1>2. NoRequest.step = "idle"
  BY DEF NoRequest
<1> QED
  BY <1>1, <1>2 DEF TypeInv, RequestType, At

LEMMA GotoType ==
  ASSUME TypeInv, NEW q \in Requests, ~At(q, "idle"), request[q].step \notin Saving,
         NEW step \in Steps, request' = [request EXCEPT ![q].step = step]
  PROVE  /\ RequestType'
         /\ request'[q].step = step /\ request'[q].job = request[q].job
         /\ request'[q].aggregate = request[q].aggregate /\ request'[q].starts = request[q].starts
         /\ request'[q].record = request[q].record
         /\ \A r \in Requests \ {q} : request'[r] = request[r]
<1>1. request[q] \in Request /\ request \in [Requests -> Request]
  BY DEF TypeInv
<1>2. request' = [request EXCEPT ![q] = [request[q] EXCEPT !.step = step]]
  OBVIOUS
<1> DEFINE moved == [request[q] EXCEPT !.step = step]
<1>3. /\ moved \in Request /\ moved.step = step /\ moved.job = request[q].job
      /\ moved.aggregate = request[q].aggregate /\ moved.starts = request[q].starts
      /\ moved.record = request[q].record
  BY <1>1 DEF Request
<1>4. request' = [request EXCEPT ![q] = moved]
  BY <1>2
<1> HIDE DEF moved
<1>5. /\ request' \in [Requests -> Request] /\ request'[q] = moved
      /\ \A r \in Requests \ {q} : request'[r] = request[r]
  BY <1>1, <1>3, <1>4
<1>6. ASSUME NEW r \in Requests, ~At(r, "idle")'
      PROVE  /\ request'[r].job \in Jobs
             /\ request'[r].step \notin Saving => request'[r].aggregate.status # "ROLLED_BACK"
  <2>1. CASE r = q
    BY <1>3, <1>5, <2>1 DEF TypeInv
  <2>2. CASE r # q
    BY <1>5, <1>6, <2>2 DEF TypeInv, At
  <2> QED
    BY <2>1, <2>2
<1> QED
  BY <1>3, <1>5, <1>6 DEF RequestType

-----------------------------------------------------------------------------
(* What the calls do to the product.                                       *)

TakesOver(j) ==
    /\ product.version = job[j].expected
    /\ product'.image = [product.image EXCEPT ![job[j].source.slot] = j]
    /\ product'.shown = j /\ product'.version = product.version + 1
    /\ product'.cover = product.cover
    /\ snapshot'[j].image = product.image /\ snapshot'[j].shown = product.shown
    /\ \A k \in Jobs \ {j} : snapshot'[k] = snapshot[k]
    /\ j \in replaced' <=> (j \in replaced \/ job[j].source = CoverAsset)
    /\ \A k \in Jobs \ {j} : k \in replaced' <=> k \in replaced
    /\ restored' = restored

PutsBack(j) ==
    /\ product.shown = j
    /\ product'.image = snapshot[j].image
    /\ product'.shown \in {NoJob, snapshot[j].shown} /\ product'.version = product.version + 1
    /\ product'.cover = product.cover
    /\ restored' = restored \cup {j}
    /\ UNCHANGED <<snapshot, replaced>>

LEMMA AcceptEffect ==
  ASSUME TypeInv, NEW j \in Jobs, Accept(j)
  PROVE  ProductType' /\ ((product.shown = j /\ UNCHANGED external) \/ TakesOver(j))
<1>1. CASE product.shown = j /\ UNCHANGED external
  BY <1>1, Unchanging
<1>2. CASE /\ product.version = job[j].expected
           /\ product' = [product EXCEPT !.image[job[j].source.slot] = j, !.shown = j, !.version = @ + 1]
           /\ snapshot' = [snapshot EXCEPT ![j] = [image |-> product.image, shown |-> product.shown]]
           /\ replaced' = replaced \cup {k \in {j} : job[j].source = CoverAsset}
           /\ UNCHANGED restored
  <2> DEFINE slot == job[j].source.slot
             painted == [product.image EXCEPT ![slot] = j]
             old == [image |-> product.image, shown |-> product.shown]
  <2>1. /\ product \in Product /\ slot \in Slots /\ snapshot \in [Jobs -> Before]
        /\ restored \subseteq Jobs /\ replaced \subseteq Jobs
    BY DEF TypeInv, Asset
  <2>2. painted \in Gallery /\ product.version + 1 \in Nat /\ j \in Makers /\ old \in Before
    BY <2>1 DEF Product, Gallery, Makers, Before
  <2>3. product' = [product EXCEPT !.image = painted, !.shown = j, !.version = product.version + 1]
    BY <1>2, <2>1 DEF Product
  <2>4. snapshot' = [snapshot EXCEPT ![j] = old]
    BY <1>2
  <2>5. old.image = product.image /\ old.shown = product.shown
    OBVIOUS
  <2> HIDE DEF painted, old
  <2>6. /\ product' \in Product /\ product'.image = painted /\ product'.shown = j
        /\ product'.version = product.version + 1 /\ product'.cover = product.cover
    BY <2>1, <2>2, <2>3 DEF Product
  <2>7. /\ snapshot' \in [Jobs -> Before] /\ snapshot'[j] = old
        /\ \A k \in Jobs \ {j} : snapshot'[k] = snapshot[k]
    BY <2>1, <2>2, <2>4
  <2>8. /\ replaced' \subseteq Jobs
        /\ j \in replaced' <=> (j \in replaced \/ job[j].source = CoverAsset)
        /\ \A k \in Jobs \ {j} : k \in replaced' <=> k \in replaced
    BY <1>2, <2>1
  <2>9. restored' = restored /\ product.version = job[j].expected
    BY <1>2
  <2>10. ProductType'
    BY <2>1, <2>6, <2>7, <2>8, <2>9 DEF ProductType
  <2>11. TakesOver(j)
    BY <2>5, <2>6, <2>7, <2>8, <2>9 DEF TakesOver, painted
  <2> QED
    BY <2>10, <2>11
<1> QED
  BY <1>1, <1>2 DEF Accept

LEMMA RestoreEffect ==
  ASSUME TypeInv, NEW j \in Jobs, Restore(j)
  PROVE  ProductType' /\ (UNCHANGED external \/ PutsBack(j))
<1>1. CASE UNCHANGED external
  BY <1>1, Unchanging
<1>2. ASSUME product.shown = j, NEW shown \in {NoJob, snapshot[j].shown},
             product' = [product EXCEPT !.image = snapshot[j].image, !.shown = shown, !.version = @ + 1],
             restored' = restored \cup {j}, UNCHANGED <<snapshot, replaced>>
      PROVE  ProductType' /\ PutsBack(j)
  <2>1. /\ product \in Product /\ snapshot \in [Jobs -> Before] /\ snapshot[j] \in Before
        /\ restored \subseteq Jobs /\ replaced \subseteq Jobs
    BY DEF TypeInv
  <2>2. shown \in Makers /\ snapshot[j].image \in Gallery
    BY <2>1 DEF Before, Makers
  <2> DEFINE image == snapshot[j].image
  <2>3. /\ image \in Gallery /\ shown \in Makers /\ product.version + 1 \in Nat
        /\ product' = [product EXCEPT !.image = image, !.shown = shown, !.version = product.version + 1]
    BY <1>2, <2>1, <2>2 DEF Product
  <2> HIDE DEF image
  <2>4. /\ product' \in Product /\ product'.image = image /\ product'.shown = shown
        /\ product'.version = product.version + 1 /\ product'.cover = product.cover
    BY <2>1, <2>3 DEF Product
  <2>5. ProductType'
    BY <1>2, <2>1, <2>4 DEF ProductType
  <2> QED
    BY <1>2, <2>4, <2>5 DEF PutsBack, image
<1> QED
  BY <1>1, <1>2 DEF Restore

\* save(): each column of the row is the aggregate's, or what it was.
LEMMA SaveEffect ==
  ASSUME TypeInv, NEW q \in Requests, Save(q)
  PROVE  LET j == request[q].job IN
         /\ RowType' /\ j \in Jobs
         /\ \A k \in Jobs : k # j => row'[k] = row[k]
         /\ row'[j] = WriteBack(row[j], request[q].record, request[q].aggregate)
<1> DEFINE j == request[q].job
           saved == WriteBack(row[j], request[q].record, request[q].aggregate)
<1>1. j \in Jobs /\ row \in [Jobs -> Columns] /\ row[j] \in Columns /\ request[q] \in Request
  BY DEF TypeInv, Save, At, Saving
<1>2. row' = [row EXCEPT ![j] = saved]
  BY <1>1 DEF Save
<1>3. saved \in Columns
  BY <1>1 DEF Columns, Column, WriteBack, Request
<1> HIDE DEF saved
<1>4. row' \in [Jobs -> Columns] /\ row'[j] = saved /\ \A k \in Jobs : k # j => row'[k] = row[k]
  BY <1>1, <1>2, <1>3
<1> QED
  BY <1>1, <1>4 DEF RowType, saved

\* A row that has not moved since save() read it becomes the aggregate.
LEMMA WriteBackWhole ==
  ASSUME NEW record \in Columns, NEW aggregate \in Columns
  PROVE  WriteBack(record, record, aggregate) = aggregate
  BY DEF WriteBack, Column, Columns

-----------------------------------------------------------------------------
(* Requests, and the rows they read and write.  NONE is left by CreateJob   *)
(* only; a request for an apply has loaded a row under review; no row under *)
(* review starts a session; a save leaves a row applied or rolled back.     *)

Known(j) == j \in Jobs /\ row[j].status # "NONE"
ApplySteps == {"apply", "call", "applied"}
Answered == {"applied", "restored"} \cup Saving
Ended == {"APPLIED", "ROLLED_BACK"}

RequestInv ==
    /\ \A j \in Jobs : row[j].status \in {"NONE", "REVIEW_REQUIRED"} => row[j].starts = FALSE
    /\ \A q \in Requests :
           /\ ~At(q, "idle") => Known(request[q].job)
           /\ request[q].step \in ApplySteps =>
                  request[q].aggregate.status = "REVIEW_REQUIRED" /\ request[q].aggregate.starts = FALSE
           /\ At(q, "restored") => request[q].aggregate.status = "APPLIED"
           /\ At(q, "applying") => request[q].aggregate.status = "APPLIED"
           /\ At(q, "restoring") => request[q].aggregate.status = "ROLLED_BACK"
           /\ request[q].step \in Saving /\ request[q].record.status \in Ended =>
                  row[request[q].job].status \in Ended

\* What a step does to the rows: one is created, or a request saves its transition.
Saves(q) ==
    LET j == request[q].job IN
    /\ request[q].step \in Saving /\ request'[q].step = "idle"
    /\ \A k \in Jobs \ {j} : row'[k] = row[k]
    /\ row'[j] = WriteBack(row[j], request[q].record, request[q].aggregate)
    /\ row'[j].status \in Ended
    /\ row'[j].starts = row[j].starts \/ row'[j].starts = request[q].aggregate.starts
RowStep ==
    \/ UNCHANGED row
    \/ \E j \in Jobs :
           /\ row[j].status = "NONE" /\ row'[j].status = "REVIEW_REQUIRED"
           /\ row'[j].starts = row[j].starts /\ job'[j].expected <= product.version
           /\ row'[j].at = row[j].at
           /\ \E s \in Slots : job'[j].source = AssetAt(s)
           /\ \A k \in Jobs \ {j} : row'[k] = row[k]
    \/ \E q \in Requests : Saves(q)

\* What a step does to a request: it stays, arrives, decides, has called, completes
\* its transition, or closes, after its answer with a save unless its end was lost.
Arrives(q) ==
    /\ At(q, "idle") /\ Known(request'[q].job) /\ request'[q].aggregate = row[request'[q].job]
    /\ \/ request'[q].step = "apply" /\ row[request'[q].job].status = "REVIEW_REQUIRED"
       \/ request'[q].step = "rollback"
    /\ UNCHANGED row
    /\ \A r \in Requests : ~At(r, "idle") => {request[r].job, request'[q].job} \in overlapped'
Keeps(q) ==
    /\ request'[q].job = request[q].job /\ request'[q].aggregate = request[q].aggregate
    /\ request'[q].record = request[q].record
Decides(q) ==
    /\ At(q, "apply") /\ request'[q].step = "call" /\ Keeps(q) /\ UNCHANGED <<job, external>>
    /\ request'[q].starts = TRUE <=> job[request[q].job].source = CoverAsset
Calls(q) ==
    /\ Keeps(q) /\ request'[q].starts = request[q].starts
    /\ \/ /\ At(q, "call") /\ request'[q].step = "applied"
          /\ (product.shown = request[q].job /\ UNCHANGED external) \/ TakesOver(request[q].job)
       \/ /\ At(q, "rollback") /\ request'[q].step = "restored"
          /\ request[q].aggregate.status = "APPLIED" /\ request[q].job \in restored'
Completes(q) ==
    /\ request'[q].job = request[q].job /\ request'[q].record = row[request[q].job]
    /\ clock' = clock + 1 /\ request'[q].aggregate.at = clock + 1
    /\ UNCHANGED <<job, row, external>>
    /\ \/ /\ At(q, "applied") /\ request'[q].step = "applying"
          /\ request'[q].aggregate.status = "APPLIED"
          /\ request'[q].aggregate.starts = request[q].starts
       \/ /\ At(q, "restored") /\ request'[q].step = "restoring"
          /\ request'[q].aggregate.status = "ROLLED_BACK"
          /\ request'[q].aggregate.starts = request[q].aggregate.starts
Closes(q) ==
    /\ request'[q].step = "idle"
    /\ request[q].step \in Answered => lost' # 0 \/ Saves(q)
RequestMoves(q) ==
    request'[q] = request[q] \/ Arrives(q) \/ Decides(q) \/ Calls(q) \/ Completes(q) \/ Closes(q)

\* What a step does to the product: nothing, or a job or a cover is chosen, or an
\* apply or a rollback is carried out.
Applies(q) ==
    /\ At(q, "call") /\ TakesOver(request[q].job)
    /\ lost' # 0 \/ (request'[q].step = "applied" /\ Calls(q))
ProductStep ==
    \/ UNCHANGED <<job, external>>
    \/ /\ UNCHANGED external
       /\ \E j \in Jobs :
              /\ row[j].status = "NONE"
              /\ \E s \in Slots : job'[j].source = AssetAt(s)
              /\ job'[j].expected <= product.version
              /\ \A k \in Jobs \ {j} : job'[k] = job[k]
    \/ /\ UNCHANGED <<job, snapshot, restored, replaced>>
       /\ product'.image = product.image /\ product'.shown = product.shown
       /\ product'.version = product.version + 1
    \/ UNCHANGED job /\ \E q \in Requests : Applies(q)
    \/ UNCHANGED job /\ \E q \in Requests : At(q, "rollback") /\ PutsBack(request[q].job)

OneMoves ==
    \A q, r \in Requests : q # r => request'[q] = request[q] \/ request'[r] = request[r]
Effect ==
    /\ TypeInv' /\ RowStep /\ ProductStep
    /\ \A q \in Requests : RequestMoves(q)
    /\ OneMoves /\ overlapped \subseteq overlapped'
    /\ lost' = 0 => lost = 0
    /\ clock <= clock'

LEMMA CloseMoves ==
  ASSUME TypeInv, NEW q \in Requests, Close(q), Closes(q)
  PROVE  RequestType' /\ (\A r \in Requests : RequestMoves(r)) /\ OneMoves
  BY CloseType DEF RequestMoves, OneMoves

LEMMA ClockMoves ==
  ASSUME TypeInv, clock' = clock \/ clock' = clock + 1
  PROVE  clock <= clock'
  BY DEF TypeInv

\* Requests that close without a write.
LEMMA CloseEffect ==
  ASSUME TypeInv, NEW q \in Requests, Close(q), UNCHANGED <<job, row, analytics>>,
         request[q].step \notin Answered \/ lost' # 0, UNCHANGED overlapped,
         CounterType', lost' = lost \/ lost' # 0, ProductType', ProductStep
  PROVE  Effect
<1>1. request'[q].step = "idle" /\ RequestType'
  BY CloseType DEF NoRequest
<1>2. Closes(q)
  BY <1>1 DEF Closes
<1>3. (\A r \in Requests : RequestMoves(r)) /\ OneMoves
  BY <1>2, CloseMoves
<1>4. TypeInv'
  BY <1>1, Unchanging, Parts, PartsNext
<1>5. clock <= clock'
  BY ClockMoves DEF analytics
<1> QED
  BY <1>3, <1>4, <1>5 DEF Effect, RowStep

LEMMA OpenEffect ==
  ASSUME TypeInv, NEW q \in Requests, NEW j \in Jobs,
         (ReadForApply(q, j) \/ ReadForRollback(q, j))
  PROVE  Effect
<1>1. PICK step \in {"apply", "rollback"} :
         /\ Open(q, j, step) /\ row[j].status \notin {"NONE", "ROLLED_BACK"}
         /\ step = "apply" => row[j].status = "REVIEW_REQUIRED"
  BY DEF ReadForApply, ReadForRollback
<1> DEFINE new == [NoRequest EXCEPT !.step = step, !.job = j, !.aggregate = row[j]]
<1>2. request \in [Requests -> Request] /\ row[j] \in Columns /\ NoRequest \in Request
  BY Blank DEF TypeInv
<1>3. /\ new \in Request /\ new.step = step /\ new.job = j /\ new.aggregate = row[j]
  BY <1>2 DEF Request, Steps, Makers
<1>4. At(q, "idle") /\ request' = [request EXCEPT ![q] = new]
      /\ UNCHANGED <<job, row, analytics, lost>> /\ UNCHANGED <<job, external>>
  BY <1>1 DEF Open
<1> HIDE DEF new
<1>5. /\ request' \in [Requests -> Request] /\ request'[q] = new
      /\ \A r \in Requests \ {q} : request'[r] = request[r]
  BY <1>2, <1>3, <1>4
<1>6. RequestType'
  BY <1>1, <1>3, <1>5 DEF TypeInv, RequestType, At
<1>joins. /\ overlapped \subseteq overlapped'
          /\ \A r \in Requests : ~At(r, "idle") => {request[r].job, j} \in overlapped'
  BY <1>1 DEF Open
<1>7. Arrives(q)
  BY <1>1, <1>3, <1>4, <1>5, <1>joins DEF Arrives, Known
<1>8. (\A r \in Requests : RequestMoves(r)) /\ OneMoves
  BY <1>5, <1>7 DEF RequestMoves, OneMoves
<1>9. CounterType'
  <2>1. \A r \in Requests : ~At(r, "idle") => request[r].job \in Jobs
    BY DEF TypeInv
  <2>2. overlapped' \subseteq SUBSET Jobs
    BY <1>1, <2>1, Parts DEF Open, CounterType
  <2>3. /\ edits' \in 0..MaxEdits /\ lost' \in 0..MaxLost
        /\ requests < MaxRequests /\ requests' = requests + 1 /\ requests \in 0..MaxRequests
    BY <1>1, Parts DEF Open, CounterType
  <2>4. requests' \in 0..MaxRequests
    BY <2>3, ImpactAssumption
  <2> QED
    BY <2>2, <2>3, <2>4 DEF CounterType
<1>10. TypeInv'
  BY <1>4, <1>6, <1>9, Unchanging, Parts, PartsNext
<1> QED
  BY <1>4, <1>8, <1>joins, <1>10, ClockMoves DEF Effect, RowStep, ProductStep, analytics

LEMMA ResolveEffect ==
  ASSUME TypeInv, NEW q \in Requests, ResolveBoundary(q)
  PROVE  Effect
<1> DEFINE boundary == (job[request[q].job].source = CoverAsset)
           new == [request[q] EXCEPT !.step = "call", !.starts = boundary]
<1>1. request \in [Requests -> Request] /\ request[q] \in Request /\ boundary \in BOOLEAN
  BY DEF TypeInv
<1>2. At(q, "apply") /\ request' = [request EXCEPT ![q] = new]
      /\ UNCHANGED <<row, analytics, lost>> /\ UNCHANGED <<job, external>> /\ UNCHANGED counters
  BY DEF ResolveBoundary, Job, counters
<1>3. boundary = TRUE <=> job[request[q].job].source = CoverAsset
  OBVIOUS
<1> HIDE DEF boundary
<1>4. /\ new \in Request /\ new.step = "call" /\ new.job = request[q].job
      /\ new.aggregate = request[q].aggregate /\ new.record = request[q].record
      /\ new.starts = boundary
  BY <1>1 DEF Request, Steps
<1> HIDE DEF new
<1>5. /\ request' \in [Requests -> Request] /\ request'[q] = new
      /\ \A r \in Requests \ {q} : request'[r] = request[r]
  BY <1>1, <1>2, <1>4
<1>6. RequestType'
  BY <1>2, <1>4, <1>5 DEF TypeInv, RequestType, At, Saving
<1>7. Decides(q)
  BY <1>2, <1>3, <1>4, <1>5 DEF Decides, Keeps
<1>8. (\A r \in Requests : RequestMoves(r)) /\ OneMoves
  BY <1>5, <1>7 DEF RequestMoves, OneMoves
<1>9. TypeInv'
  BY <1>2, <1>6, Unchanging, Parts, PartsNext
<1> QED
  BY <1>2, <1>8, <1>9, ClockMoves DEF Effect, RowStep, ProductStep, analytics, counters

LEMMA ApplyEffect ==
  ASSUME TypeInv, NEW q \in Requests, CallApply(q)
  PROVE  Effect
<1> DEFINE j == request[q].job
<1>1. /\ At(q, "call") /\ ~At(q, "idle") /\ request[q].step \notin Saving /\ Accept(j) /\ UNCHANGED <<row, analytics, lost>>
      /\ request' = [request EXCEPT ![q].step = "applied"] /\ UNCHANGED job /\ UNCHANGED counters
      /\ "applied" \in Steps
  BY DEF CallApply, At, counters, Steps, Saving
<1>2. j \in Jobs
  BY <1>1 DEF TypeInv
<1>3. ProductType' /\ ((product.shown = j /\ UNCHANGED external) \/ TakesOver(j))
  BY <1>1, <1>2, AcceptEffect
<1>4. /\ RequestType' /\ request'[q].step = "applied" /\ Keeps(q)
      /\ request'[q].starts = request[q].starts
      /\ \A r \in Requests \ {q} : request'[r] = request[r]
  BY <1>1, GotoType DEF Keeps
<1>5. Calls(q)
  BY <1>1, <1>3, <1>4 DEF Calls
<1>6. (\A r \in Requests : RequestMoves(r)) /\ OneMoves
  BY <1>4, <1>5 DEF RequestMoves, OneMoves
<1>7. ProductStep
  BY <1>1, <1>3, <1>4, <1>5 DEF ProductStep, Applies
<1>8. TypeInv'
  BY <1>1, <1>3, <1>4, Unchanging, Parts, PartsNext
<1> QED
  BY <1>1, <1>6, <1>7, <1>8, ClockMoves DEF Effect, RowStep, analytics, counters

LEMMA RollbackEffect ==
  ASSUME TypeInv, NEW q \in Requests, CallRollback(q)
  PROVE  Effect
<1> DEFINE j == request[q].job
<1>1. /\ At(q, "rollback") /\ ~At(q, "idle") /\ request[q].step \notin Answered /\ Restore(j)
      /\ request[q].step \notin Saving /\ UNCHANGED overlapped
      /\ UNCHANGED <<row, analytics, lost>> /\ UNCHANGED <<job, row, analytics>>
      /\ UNCHANGED job /\ UNCHANGED counters /\ "restored" \in Steps
  BY DEF CallRollback, At, counters, Steps, Answered, Saving
<1>2. j \in Jobs
  BY <1>1 DEF TypeInv
<1>3. ProductType' /\ (UNCHANGED external \/ PutsBack(j))
  BY <1>1, <1>2, RestoreEffect
<1>4. ProductStep
  BY <1>1, <1>3 DEF ProductStep
<1>5. CASE request[q].aggregate.status = "APPLIED"
  <2>1. request' = [request EXCEPT ![q].step = "restored"]
    BY <1>5 DEF CallRollback
  <2>2. /\ RequestType' /\ request'[q].step = "restored" /\ Keeps(q)
        /\ request'[q].starts = request[q].starts
        /\ \A r \in Requests \ {q} : request'[r] = request[r]
    BY <1>1, <2>1, GotoType DEF Keeps
  <2>3. j \in restored'
    BY <1>1 DEF Restore, external
  <2>4. (\A r \in Requests : RequestMoves(r)) /\ OneMoves
    BY <1>1, <1>5, <2>2, <2>3 DEF RequestMoves, Calls, OneMoves
  <2>5. TypeInv'
    BY <1>1, <1>3, <2>2, Unchanging, Parts, PartsNext
  <2> QED
    BY <1>1, <1>4, <2>4, <2>5, ClockMoves DEF Effect, RowStep, analytics
<1>6. CASE request[q].aggregate.status # "APPLIED"
  <2>1. Close(q)
    BY <1>6 DEF CallRollback
  <2> QED
    BY <1>1, <1>3, <1>4, <2>1, Unchanging, CloseEffect
<1> QED
  BY <1>5, <1>6

LEMMA LostEffect ==
  ASSUME TypeInv, NEW q \in Requests, AnswerLost(q)
  PROVE  Effect
<1> DEFINE j == request[q].job
<1>1. /\ Close(q) /\ UNCHANGED <<job, row, analytics>> /\ UNCHANGED job
      /\ UNCHANGED <<overlapped, edits, requests>> /\ UNCHANGED overlapped /\ lost < MaxLost /\ lost' = lost + 1
  BY DEF AnswerLost
<1>2. CounterType' /\ lost' # 0
  <2>1. CounterType
    BY Parts
  <2>2. overlapped' \subseteq SUBSET Jobs /\ edits' \in 0..MaxEdits /\ requests' \in 0..MaxRequests
    BY <1>1, <2>1 DEF CounterType
  <2>3. lost' \in 0..MaxLost /\ lost' # 0
    BY <1>1, <2>1, ImpactAssumption DEF CounterType
  <2> QED
    BY <2>2, <2>3 DEF CounterType
<1>3. CASE At(q, "call") /\ Accept(j)
  <2>1. j \in Jobs
    BY <1>3 DEF TypeInv, At
  <2>2. ProductType' /\ ((product.shown = j /\ UNCHANGED external) \/ TakesOver(j))
    BY <1>3, <2>1, AcceptEffect
  <2>3. ProductStep
    BY <1>1, <1>2, <1>3, <2>2 DEF ProductStep, Applies
  <2> QED
    BY <1>1, <1>2, <2>2, <2>3, CloseEffect
<1>4. CASE At(q, "rollback") /\ Restore(j)
  <2>1. j \in Jobs
    BY <1>4 DEF TypeInv, At
  <2>2. ProductType' /\ (UNCHANGED external \/ PutsBack(j))
    BY <1>4, <2>1, RestoreEffect
  <2>3. ProductStep
    BY <1>1, <1>4, <2>2 DEF ProductStep
  <2> QED
    BY <1>1, <1>2, <2>2, <2>3, CloseEffect
<1>5. CASE UNCHANGED external
  <2>1. ProductType' /\ ProductStep
    BY <1>1, <1>5, Unchanging DEF ProductStep
  <2> QED
    BY <1>1, <1>2, <2>1, CloseEffect
<1> QED
  BY <1>3, <1>4, <1>5 DEF AnswerLost

LEMMA RefuseEffect ==
  ASSUME TypeInv, NEW q \in Requests, ServiceRefuses(q)
  PROVE  Effect
<1>1. /\ Close(q) /\ UNCHANGED <<job, row, analytics>> /\ UNCHANGED <<job, external>>
      /\ UNCHANGED external /\ UNCHANGED counters /\ UNCHANGED lost
      /\ UNCHANGED overlapped /\ request[q].step \notin Answered
  BY DEF ServiceRefuses, counters, Answered, Saving
<1>2. ProductType' /\ CounterType' /\ ProductStep
  BY <1>1, Unchanging DEF ProductStep
<1> QED
  BY <1>1, <1>2, CloseEffect

\* transition(): the aggregate becomes the later one of the clock.
LEMMA CompletedEffect ==
  ASSUME TypeInv, NEW q \in Requests, NEW step \in Saving, NEW status \in Ended, NEW starts \in BOOLEAN,
         Complete(q, step, status, starts),
         \/ At(q, "applied") /\ step = "applying" /\ status = "APPLIED" /\ starts = request[q].starts
         \/ /\ At(q, "restored") /\ step = "restoring" /\ status = "ROLLED_BACK"
            /\ starts = request[q].aggregate.starts
  PROVE  Effect
<1> DEFINE completed == [status |-> status, starts |-> starts, at |-> clock + 1, day |-> today]
           record == row[request[q].job]
           new == [request[q] EXCEPT !.step = step, !.aggregate = completed, !.record = record]
<1>1. /\ request \in [Requests -> Request] /\ request[q] \in Request /\ ~At(q, "idle")
      /\ request[q].job \in Jobs /\ record \in Columns
  BY DEF TypeInv, At
<1>2. completed \in Columns
  BY DEF Columns, Statuses, Ended, TypeInv
<1>3. /\ completed.status = status /\ completed.starts = starts /\ completed.at = clock + 1
  OBVIOUS
<1>4. request' = [request EXCEPT ![q] = new]
  BY DEF Complete
<1>5. /\ clock' = clock + 1 /\ clock' \in Nat /\ UNCHANGED <<job, row, external>> /\ UNCHANGED job
      /\ UNCHANGED external /\ UNCHANGED row /\ UNCHANGED <<job, external>> /\ UNCHANGED counters
      /\ UNCHANGED <<today, visited>> /\ UNCHANGED <<overlapped, lost>>
  BY DEF Complete, counters, TypeInv
<1> HIDE DEF completed, record
<1>6. /\ new \in Request /\ new.step = step /\ new.job = request[q].job
      /\ new.aggregate = completed /\ new.record = record
  BY <1>1, <1>2 DEF Request, Steps
<1> HIDE DEF new
<1>7. /\ request' \in [Requests -> Request] /\ request'[q] = new
      /\ \A r \in Requests \ {q} : request'[r] = request[r]
  BY <1>1, <1>4, <1>6
<1>8. RequestType'
  BY <1>1, <1>6, <1>7 DEF TypeInv, RequestType, At
<1>9. DayType'
  BY <1>5 DEF TypeInv, DayType
<1>10. Completes(q)
  BY <1>3, <1>5, <1>6, <1>7 DEF Completes, record
<1>11. (\A r \in Requests : RequestMoves(r)) /\ OneMoves
  BY <1>7, <1>10 DEF RequestMoves, OneMoves
<1>12. TypeInv'
  BY <1>5, <1>8, <1>9, Unchanging, Parts, PartsNext
<1> QED
  BY <1>5, <1>11, <1>12, ClockMoves DEF Effect, RowStep, ProductStep

LEMMA CompleteEffect ==
  ASSUME TypeInv, NEW q \in Requests, CompleteApply(q) \/ CompleteRollback(q)
  PROVE  Effect
<1>1. request[q] \in Request
  BY DEF TypeInv
<1>2. request[q].starts \in BOOLEAN /\ request[q].aggregate.starts \in BOOLEAN
  BY <1>1 DEF Request, Columns
<1> QED
  BY <1>2, CompletedEffect DEF CompleteApply, CompleteRollback, Saving, Ended

\* save(): the row gets the status of the transition, unless another request has
\* already given it one as late.
LEMMA SavedEffect ==
  ASSUME TypeInv, RequestInv, NEW q \in Requests, Save(q)
  PROVE  Effect
<1> DEFINE j == request[q].job
           record == request[q].record
           aggregate == request[q].aggregate
<1>1. /\ request[q].step \in Saving /\ ~At(q, "idle") /\ Close(q) /\ UNCHANGED <<job, external>>
      /\ UNCHANGED job /\ UNCHANGED external /\ UNCHANGED analytics /\ UNCHANGED counters
      /\ UNCHANGED <<overlapped, lost, clock>>
  BY DEF Save, Saving, At, counters, analytics
<1>2. /\ RowType' /\ j \in Jobs /\ \A k \in Jobs : k # j => row'[k] = row[k]
      /\ row'[j] = WriteBack(row[j], record, aggregate)
  BY SaveEffect
<1>3. row'[j].status \in Ended
  <2>1. aggregate.status \in Ended /\ (record.status \in Ended => row[j].status \in Ended)
    BY <1>1 DEF RequestInv, Saving, At, Ended
  <2>2. row'[j].status = Column(row[j].status, record.status, aggregate.status)
    BY <1>2 DEF WriteBack
  <2> QED
    BY <2>1, <2>2 DEF Column
<1>4. row'[j].starts = row[j].starts \/ row'[j].starts = aggregate.starts
  BY <1>2 DEF WriteBack, Column
<1>5. request'[q].step = "idle" /\ RequestType'
  BY <1>1, CloseType DEF NoRequest
<1>6. Saves(q)
  BY <1>1, <1>2, <1>3, <1>4, <1>5 DEF Saves
<1>7. Closes(q)
  BY <1>5, <1>6 DEF Closes
<1>8. (\A r \in Requests : RequestMoves(r)) /\ OneMoves
  BY <1>1, <1>7, CloseMoves
<1>9. TypeInv'
  BY <1>1, <1>2, <1>5, Unchanging, Parts, PartsNext
<1> QED
  BY <1>1, <1>6, <1>8, <1>9, ClockMoves DEF Effect, RowStep, ProductStep

LEMMA CreateEffect ==
  ASSUME TypeInv, NEW j \in Jobs, CreateJob(j)
  PROVE  Effect
<1>1. PICK s \in Slots, seen \in {product.version - 1, product.version} \cap Nat :
         job' = [job EXCEPT ![j] = [source |-> AssetAt(s), expected |-> seen]]
  BY DEF CreateJob
<1>2. /\ row[j].status = "NONE" /\ row' = [row EXCEPT ![j].status = "REVIEW_REQUIRED"]
      /\ UNCHANGED external /\ UNCHANGED request /\ UNCHANGED analytics
      /\ UNCHANGED counters /\ lost' = lost /\ UNCHANGED <<overlapped, clock>>
  BY DEF CreateJob, counters, analytics
<1> DEFINE new == [source |-> AssetAt(s), expected |-> seen]
           fresh == [row[j] EXCEPT !.status = "REVIEW_REQUIRED"]
<1>3. /\ job \in [Jobs -> [source : Asset, expected : Nat]] /\ row \in [Jobs -> Columns]
      /\ row[j] \in Columns /\ product \in Product
  BY DEF TypeInv
<1>4. /\ new \in [source : Asset, expected : Nat] /\ new.source = AssetAt(s)
      /\ new.expected <= product.version
  BY <1>3 DEF AssetAt, Asset, Product, Gallery
<1>5. /\ fresh \in Columns /\ fresh.status = "REVIEW_REQUIRED" /\ fresh.starts = row[j].starts
      /\ fresh.at = row[j].at
  BY <1>3 DEF Columns, Statuses
<1>6. job' = [job EXCEPT ![j] = new] /\ row' = [row EXCEPT ![j] = fresh]
  BY <1>1, <1>2
<1> HIDE DEF new, fresh
<1>7. /\ job' \in [Jobs -> [source : Asset, expected : Nat]] /\ job'[j] = new
      /\ \A k \in Jobs \ {j} : job'[k] = job[k]
  BY <1>3, <1>4, <1>6
<1>8. /\ row' \in [Jobs -> Columns] /\ row'[j] = fresh
      /\ \A k \in Jobs \ {j} : row'[k] = row[k]
  BY <1>3, <1>5, <1>6
<1>9. \A k \in Jobs : row'[k].at = row[k].at
  BY <1>5, <1>8
<1>10. RowType'
  BY <1>8, <1>9 DEF RowType, TypeInv
<1>11. RowStep
  BY <1>2, <1>4, <1>5, <1>7, <1>8, <1>9 DEF RowStep
<1>12. ProductStep
  BY <1>2, <1>4, <1>7 DEF ProductStep
<1>13. (\A r \in Requests : RequestMoves(r)) /\ OneMoves
  BY <1>2 DEF RequestMoves, OneMoves
<1>14. TypeInv'
  BY <1>2, <1>7, <1>10, Unchanging, PartsNext
<1> QED
  BY <1>2, <1>11, <1>12, <1>13, <1>14, ClockMoves DEF Effect

LEMMA CoverEffect ==
  ASSUME TypeInv, ChooseCover
  PROVE  Effect
<1>1. PICK s \in Slots \ {product.cover} :
         product' = [product EXCEPT !.cover = s, !.version = @ + 1]
  BY DEF ChooseCover
<1>2. /\ edits < MaxEdits /\ edits' = edits + 1 /\ UNCHANGED <<overlapped, requests, lost>>
      /\ UNCHANGED <<job, row, snapshot, restored, replaced, request>> /\ UNCHANGED row
      /\ UNCHANGED request /\ UNCHANGED analytics /\ lost' = lost /\ UNCHANGED <<overlapped, clock>>
  BY DEF ChooseCover, analytics
<1>3. product \in Product
  BY DEF TypeInv
<1>4. /\ product' \in Product /\ product'.image = product.image /\ product'.shown = product.shown
      /\ product'.version = product.version + 1
  <2>1. product.version + 1 \in Nat /\ s \in Slots
    BY <1>3 DEF Product
  <2>2. product' = [product EXCEPT !.cover = s, !.version = product.version + 1]
    BY <1>1, <1>3 DEF Product
  <2> QED
    BY <1>3, <2>1, <2>2 DEF Product
<1>5. ProductType'
  BY <1>2, <1>4, Parts DEF ProductType
<1>6. CounterType'
  <2>1. CounterType
    BY Parts
  <2>2. overlapped' \subseteq SUBSET Jobs /\ requests' \in 0..MaxRequests /\ lost' \in 0..MaxLost
    BY <1>2, <2>1 DEF CounterType
  <2>3. edits' \in 0..MaxEdits
    BY <1>2, <2>1, ImpactAssumption DEF CounterType
  <2> QED
    BY <2>2, <2>3 DEF CounterType
<1>7. ProductStep
  BY <1>2, <1>4 DEF ProductStep
<1>8. (\A r \in Requests : RequestMoves(r)) /\ OneMoves
  BY <1>2 DEF RequestMoves, OneMoves
<1>9. TypeInv'
  BY <1>2, <1>5, <1>6, Unchanging, Parts, PartsNext
<1> QED
  BY <1>2, <1>7, <1>8, <1>9, ClockMoves DEF Effect, RowStep

\* Steps that only move the days, and no step at all.
LEMMA DayEffect ==
  ASSUME TypeInv, DayType', UNCHANGED <<job, row, external, request, clock, counters>>
  PROVE  Effect
<1>1. /\ UNCHANGED <<job, external>> /\ UNCHANGED job /\ UNCHANGED row /\ UNCHANGED external
      /\ UNCHANGED request /\ UNCHANGED counters /\ UNCHANGED <<overlapped, lost, clock>>
  BY DEF counters
<1>2. TypeInv'
  BY <1>1, Unchanging, Parts, PartsNext
<1> QED
  BY <1>1, <1>2, ClockMoves DEF Effect, RowStep, ProductStep, RequestMoves, OneMoves

LEMMA StepEffect ==
  ASSUME TypeInv, RequestInv, [Next]_vars
  PROVE  Effect
<1>1. ASSUME NEW q \in Requests, RequestStep(q)
      PROVE  Effect
  BY <1>1, OpenEffect, ResolveEffect, ApplyEffect, RollbackEffect, CompleteEffect,
     SavedEffect, RefuseEffect, LostEffect DEF RequestStep
<1>2. CASE NextDay
  <2>1. DayType'
    BY <1>2, ImpactAssumption DEF NextDay, TypeInv, DayType
  <2> QED
    BY <1>2, <2>1, DayEffect DEF NextDay
<1>3. CASE Visit
  <2>today. /\ visited' = visited \cup {today} /\ UNCHANGED <<today, clock>>
            /\ today \in 0..LastDay /\ visited \subseteq 0..today /\ clock \in Nat
    BY <1>3 DEF Visit, TypeInv
  <2>1. DayType'
    BY <2>today, ImpactAssumption DEF DayType
  <2> QED
    BY <1>3, <2>1, DayEffect DEF Visit
<1>4. CASE UNCHANGED vars
  <2>1. DayType'
    BY <1>4, Unchanging DEF vars
  <2> QED
    BY <1>4, <2>1, DayEffect DEF vars, analytics
<1> QED
  BY <1>1, <1>2, <1>3, <1>4, CreateEffect, CoverEffect DEF Next

\* A row that has ended stays so.
LEMMA RowMoves ==
  ASSUME TypeInv, RequestInv, Effect, NEW j \in Jobs
  PROVE  /\ Known(j) => Known(j)'
         /\ row[j].status \in Ended => row'[j].status \in Ended
         /\ Known(j) /\ row'[j] # row[j] => \E q \in Requests : Saves(q) /\ request[q].job = j
<1>1. CASE UNCHANGED row
  BY <1>1 DEF Known
<1>2. CASE \E k \in Jobs : /\ row[k].status = "NONE" /\ row'[k].status = "REVIEW_REQUIRED"
                           /\ \A x \in Jobs \ {k} : row'[x] = row[x]
  BY <1>2 DEF Known, Ended
<1>3. CASE \E q \in Requests : Saves(q)
  BY <1>3 DEF Known, Saves, Ended
<1> QED
  BY <1>1, <1>2, <1>3 DEF Effect, RowStep

LEMMA RequestInvHolds ==
  ASSUME TypeInv, RequestInv, Effect
  PROVE  RequestInv'
<1>1. /\ \A j \in Jobs : Known(j) => Known(j)'
      /\ \A j \in Jobs : row[j].status \in Ended => row'[j].status \in Ended
  BY RowMoves
<1>2. ASSUME NEW j \in Jobs, row'[j].status \in {"NONE", "REVIEW_REQUIRED"}
      PROVE  row'[j].starts = FALSE
  BY <1>2 DEF Effect, RowStep, RequestInv, Saves, Ended
<1>3. ASSUME NEW q \in Requests
      PROVE  /\ ~At(q, "idle")' => Known(request[q].job)'
             /\ request'[q].step \in ApplySteps =>
                    request'[q].aggregate.status = "REVIEW_REQUIRED" /\ request'[q].aggregate.starts = FALSE
             /\ At(q, "restored")' => request'[q].aggregate.status = "APPLIED"
             /\ At(q, "applying")' => request'[q].aggregate.status = "APPLIED"
             /\ At(q, "restoring")' => request'[q].aggregate.status = "ROLLED_BACK"
             /\ request'[q].step \in Saving /\ request'[q].record.status \in Ended =>
                    row'[request'[q].job].status \in Ended
  <2>1. CASE request'[q] = request[q]
    <3>1. ~At(q, "idle") => request[q].job \in Jobs
      BY DEF RequestInv, Known
    <3> QED
      BY <1>1, <2>1, <3>1 DEF RequestInv, At, Known, Saving
  <2>2. CASE Arrives(q)
    BY <1>1, <2>2 DEF RequestInv, Arrives, At, Known, ApplySteps, Saving
  <2>3. CASE Decides(q)
    BY <1>1, <2>3 DEF RequestInv, Decides, Keeps, At, Known, ApplySteps, Saving
  <2>4. CASE Calls(q)
    BY <1>1, <2>4 DEF RequestInv, Calls, Keeps, At, Known, ApplySteps, Saving
  <2>5. CASE Completes(q)
    BY <1>1, <2>5 DEF RequestInv, Completes, At, Known, ApplySteps, Saving
  <2>6. CASE Closes(q)
    BY <2>6 DEF Closes, At, ApplySteps, Saving
  <2> QED
    BY <2>1, <2>2, <2>3, <2>4, <2>5, <2>6 DEF Effect, RequestMoves
<1> QED
  BY <1>2, <1>3 DEF RequestInv, At

-----------------------------------------------------------------------------
(* The history Product walks back.  Every apply it accepts is at the        *)
(* version of its job, so the accepted jobs come in the order of their      *)
(* versions; a rollback uncovers an earlier one, and those in between have  *)
(* been rolled back.  As the image a job replaces is somebody else's, it    *)
(* cannot be the cover again before the job is rolled back.                 *)

Accepted(j) ==
    product.shown = j \/ j \in restored \/ \E k \in Jobs : snapshot[k].shown = j
Rank(j) == job[j].expected
Shows(image) == \A s \in Slots : image[s] \in Jobs => Accepted(image[s])
Hides(image, j) == image[job[j].source.slot] # job[j].source.by

OrderInv ==
    /\ \A j \in Jobs : Accepted(j) => Known(j) /\ Rank(j) < product.version
    /\ \A j \in Jobs : Known(j) => Rank(j) <= product.version
    /\ \A j, k \in Jobs : Accepted(j) /\ Accepted(k) /\ Rank(j) = Rank(k) => j = k
    /\ \A k \in Jobs : snapshot[k].shown \in Jobs => Accepted(k) /\ Rank(snapshot[k].shown) < Rank(k)
    /\ \A j \in replaced : Accepted(j)
ImageInv ==
    /\ Shows(product.image) /\ \A k \in Jobs : Shows(snapshot[k].image)
    /\ \A j \in Jobs : job[j].source.by \in Jobs => Accepted(job[j].source.by)
StackInv ==
    /\ product.shown \notin restored
    /\ \A y \in Jobs :
           product.shown \in Jobs /\ Accepted(y) /\ Rank(product.shown) < Rank(y) => y \in restored
    /\ \A x, y \in Jobs :
           /\ snapshot[x].shown \in Jobs /\ Accepted(y)
           /\ Rank(snapshot[x].shown) < Rank(y) /\ Rank(y) < Rank(x)
           => y \in restored
    /\ \A x \in Jobs : snapshot[x].shown \in restored => x \in restored
HiddenInv ==
    /\ \A j \in Jobs : Accepted(j) /\ j \notin restored => Hides(product.image, j)
    /\ \A j, x \in Jobs :
           Accepted(j) /\ Accepted(x) /\ j \notin restored /\ Rank(j) < Rank(x)
               => Hides(snapshot[x].image, j)
HistoryInv == OrderInv /\ ImageInv /\ StackInv /\ HiddenInv

\* The types these arguments need.
LEMMA HistoryTypes ==
  ASSUME TypeInv
  PROVE  /\ \A j \in Jobs : Rank(j) \in Nat /\ job[j].source.slot \in Slots
         /\ product.version \in Nat /\ restored \subseteq Jobs
         /\ NoJob \notin Jobs /\ NoJob \notin restored
         /\ product.image \in Gallery /\ product.shown \in Makers
         /\ \A k \in Jobs : snapshot[k].image \in Gallery /\ snapshot[k].shown \in Makers
  BY ImpactAssumption DEF TypeInv, Rank, Product, Before, Asset

\* A job is known once it is created, at a version of the product there was.
LEMMA KnownEffect ==
  ASSUME TypeInv, RequestInv, Effect
  PROVE  /\ \A j \in Jobs : Known(j) => Known(j)'
         /\ \A j \in Jobs : Known(j)' => Known(j) \/ Rank(j)' <= product.version
<1>1. \A q \in Requests : request[q].step \in Saving => Known(request[q].job)
  BY DEF RequestInv, Saving, At
<1>2. CASE UNCHANGED row
  BY <1>2 DEF Known
<1>3. CASE \E j \in Jobs :
             /\ row[j].status = "NONE" /\ row'[j].status = "REVIEW_REQUIRED"
             /\ job'[j].expected <= product.version
             /\ \A k \in Jobs \ {j} : row'[k] = row[k]
  BY <1>3 DEF Known, Rank
<1>4. CASE \E q \in Requests : Saves(q)
  BY <1>1, <1>4 DEF Known, Saves, Ended
<1> QED
  BY <1>2, <1>3, <1>4 DEF Effect, RowStep

\* Without a call the history is what it was; a job that is created is not in it.
LEMMA StillHistory ==
  ASSUME TypeInv, RequestInv, HistoryInv, Effect, UNCHANGED <<snapshot, restored, replaced>>,
         product'.image = product.image, product'.shown = product.shown,
         product'.version \in {product.version, product.version + 1},
         \A j \in Jobs : job'[j] = job[j]
                         \/ (~Known(j) /\ \E s \in Slots : job'[j].source = AssetAt(s))
  PROVE  HistoryInv'
<1>1. \A j : Accepted(j)' <=> Accepted(j)
  BY DEF Accepted
<1>2. \A j \in Jobs : Accepted(j) => job'[j] = job[j] /\ Rank(j)' = Rank(j)
  BY DEF Rank, HistoryInv, OrderInv
<1>3. /\ \A j \in Jobs : Known(j) => Known(j)' /\ Rank(j)' = Rank(j)
      /\ \A j \in Jobs : Known(j)' => Known(j) \/ Rank(j)' <= product.version
  BY KnownEffect DEF Rank
<1>4. \A j \in Jobs : Rank(j)' \in Nat /\ Rank(j) \in Nat
  BY DEF Effect, TypeInv, Rank
<1>5. OrderInv'
  <2>1. \A j \in Jobs : Accepted(j)' => Known(j)' /\ Rank(j)' < product'.version
    BY <1>1, <1>2, <1>3, <1>4, HistoryTypes DEF HistoryInv, OrderInv
  <2>2. \A j \in Jobs : Known(j)' => Rank(j)' <= product'.version
    BY <1>3, <1>4, HistoryTypes DEF HistoryInv, OrderInv
  <2>3. \A j, k \in Jobs : Accepted(j)' /\ Accepted(k)' /\ Rank(j)' = Rank(k)' => j = k
    BY <1>1, <1>2 DEF HistoryInv, OrderInv
  <2>4. ASSUME NEW k \in Jobs, snapshot[k].shown \in Jobs
        PROVE  Accepted(k)' /\ Rank(snapshot[k].shown)' < Rank(k)'
    <3> DEFINE y == snapshot[k].shown
    <3>1. y \in Jobs /\ Accepted(y) /\ Accepted(k) /\ Rank(y) < Rank(k)
      BY <2>4 DEF HistoryInv, OrderInv, Accepted
    <3>2. y' = y
      OBVIOUS
    <3> QED
      BY <1>1, <1>2, <3>1, <3>2 DEF Rank
  <2>5. \A j \in replaced : Accepted(j)'
    BY <1>1 DEF HistoryInv, OrderInv
  <2> QED
    BY <2>1, <2>2, <2>3, <2>4, <2>5 DEF OrderInv
<1>6. ImageInv'
  <2>1. \A s \in Slots : product.image[s] \in Jobs => Accepted(product.image[s])
    BY DEF HistoryInv, ImageInv, Shows
  <2>2. ASSUME NEW j \in Jobs, job'[j].source.by \in Jobs
        PROVE  Accepted(job'[j].source.by)
    <3>1. CASE job'[j] = job[j]
      BY <2>2, <3>1 DEF HistoryInv, ImageInv
    <3>2. CASE \E s \in Slots : job'[j].source = AssetAt(s)
      <4>1. PICK s \in Slots : job'[j].source.by = product.image[s]
        BY <3>2 DEF AssetAt
      <4> QED
        BY <2>1, <2>2, <4>1
    <3> QED
      BY <3>1, <3>2
  <2>3. \A j \in Jobs : job'[j].source.by \in Jobs => Accepted(job[j].source.by)'
    BY <2>2 DEF Accepted
  <2>4. Shows(product.image)' /\ \A k \in Jobs : Shows(snapshot[k].image)'
    BY <1>1 DEF HistoryInv, ImageInv, Shows
  <2> QED
    BY <2>3, <2>4 DEF ImageInv
<1>7. StackInv'
  <2>1. \A y \in Jobs : product.shown \in Jobs /\ Accepted(y) /\ Rank(product.shown)' < Rank(y)'
            => y \in restored
    <3>1. product.shown \in Jobs => Accepted(product.shown)
      BY DEF Accepted
    <3> QED
      BY <1>2, <3>1 DEF HistoryInv, StackInv, Rank
  <2>2. ASSUME NEW x \in Jobs, NEW y \in Jobs, snapshot[x].shown \in Jobs, Accepted(y),
               job'[snapshot[x].shown].expected < job'[y].expected,
               job'[y].expected < job'[x].expected
        PROVE  y \in restored
    <3>1. Accepted(snapshot[x].shown) /\ Accepted(x)
      BY <2>2 DEF Accepted, HistoryInv, OrderInv
    <3> QED
      BY <1>2, <2>2, <3>1 DEF HistoryInv, StackInv, Rank
  <2> QED
    BY <1>1, <2>1, <2>2 DEF HistoryInv, StackInv, Rank
<1>8. HiddenInv'
  BY <1>1, <1>2 DEF HistoryInv, HiddenInv, Hides, Rank
<1> QED
  BY <1>5, <1>6, <1>7, <1>8 DEF HistoryInv

\* An apply goes on top of the history: all the accepted jobs are older.
LEMMA TakeOverHistory ==
  ASSUME TypeInv, TypeInv', HistoryInv, NEW j \in Jobs, Known(j), TakesOver(j), UNCHANGED job,
         \A k \in Jobs : Known(k) => Known(k)',
         \A k \in Jobs : Known(k)' => Known(k) \/ Rank(k)' <= product.version
  PROVE  /\ ~Accepted(j) /\ HistoryInv'
         /\ \A k \in Jobs : Accepted(k)' <=> (Accepted(k) \/ k = j)
<1>1. /\ product.version = Rank(j) /\ product'.version = product.version + 1
      /\ product'.shown = j /\ snapshot'[j].shown = product.shown
      /\ snapshot'[j].image = product.image
      /\ \A k \in Jobs \ {j} : snapshot'[k] = snapshot[k]
      /\ restored' = restored /\ \A k \in Jobs : Rank(k)' = Rank(k)
      /\ \A k \in replaced' : k \in replaced \/ k = j
      /\ replaced' \subseteq Jobs
  BY DEF TakesOver, Rank, TypeInv
<1>2. ~Accepted(j) /\ \A k \in Jobs : Accepted(k) => Rank(k) < Rank(j)
  BY <1>1, HistoryTypes DEF HistoryInv, OrderInv
<1>3. \A k \in Jobs : Accepted(k)' <=> (Accepted(k) \/ k = j)
  <2>1. ASSUME NEW k \in Jobs, Accepted(k)
        PROVE  Accepted(k)'
    <3>1. CASE product.shown = k
      BY <1>1, <3>1 DEF Accepted
    <3>2. CASE k \in restored
      BY <1>1, <3>2 DEF Accepted
    <3>3. ASSUME NEW x \in Jobs, snapshot[x].shown = k
          PROVE  Accepted(k)'
      <4>1. x # j
        BY <1>2, <3>3 DEF HistoryInv, OrderInv
      <4> QED
        BY <1>1, <3>3, <4>1 DEF Accepted
    <3> QED
      BY <2>1, <3>1, <3>2, <3>3 DEF Accepted
  <2>2. ASSUME NEW k \in Jobs, Accepted(k)', k # j
        PROVE  Accepted(k)
    BY <1>1, <2>2 DEF Accepted
  <2>3. Accepted(j)'
    BY <1>1 DEF Accepted
  <2> QED
    BY <2>1, <2>2, <2>3
<1>4. \A k \in Jobs : Rank(k) \in Nat
  BY HistoryTypes
<1>5. product'.image = [product.image EXCEPT ![job[j].source.slot] = j]
  BY DEF TakesOver
<1>6. OrderInv'
  <2>1. \A k \in Jobs : Accepted(k)' => Known(k)' /\ Rank(k)' < product'.version
    BY <1>1, <1>2, <1>3, <1>4 DEF HistoryInv, OrderInv
  <2>2. \A k \in Jobs : Known(k)' => Rank(k)' <= product'.version
    BY <1>1, <1>4 DEF HistoryInv, OrderInv
  <2>3. \A k, x \in Jobs : Accepted(k)' /\ Accepted(x)' /\ Rank(k)' = Rank(x)' => k = x
    BY <1>1, <1>2, <1>3, <1>4 DEF HistoryInv, OrderInv
  <2>4. ASSUME NEW k \in Jobs, NEW y \in Jobs, snapshot'[k].shown = y
        PROVE  Accepted(k)' /\ Rank(y)' < Rank(k)'
    <3>1. CASE k = j
      BY <1>1, <1>2, <1>3, <2>4, <3>1 DEF Accepted
    <3>2. CASE k # j
      BY <1>1, <1>3, <2>4, <3>2 DEF HistoryInv, OrderInv
    <3> QED
      BY <3>1, <3>2
  <2>5. \A k \in replaced' : Accepted(k)'
    BY <1>1, <1>3 DEF HistoryInv, OrderInv
  <2> QED
    BY <2>1, <2>2, <2>3, <2>4, <2>5 DEF OrderInv, Rank
<1>7. ImageInv'
  <2>1. \A s \in Slots : product'.image[s] \in {j, product.image[s]}
    BY <1>5, HistoryTypes DEF Gallery
  <2>2. Shows(product.image)'
    BY <1>3, <2>1 DEF HistoryInv, ImageInv, Shows
  <2>3. \A k \in Jobs : Shows(snapshot[k].image)'
    BY <1>1, <1>3 DEF HistoryInv, ImageInv, Shows
  <2>4. \A k \in Jobs : job[k].source.by \in Jobs => Accepted(job[k].source.by)'
    BY <1>3 DEF HistoryInv, ImageInv
  <2> QED
    BY <2>2, <2>3, <2>4 DEF ImageInv
<1>8. StackInv'
  <2>1. product'.shown \notin restored'
    BY <1>1, <1>2 DEF Accepted
  <2>2. \A y \in Jobs : ~(Accepted(y)' /\ Rank(j) < Rank(y))
    BY <1>2, <1>3, <1>4
  <2>3. ASSUME NEW x \in Jobs, NEW y \in Jobs, NEW z \in Jobs, snapshot'[x].shown = z,
               Accepted(y)', Rank(z) < Rank(y), Rank(y) < Rank(x)
        PROVE  y \in restored
    <3>1. CASE x = j
      <4>1. y # j /\ Accepted(y) /\ product.shown = z
        BY <1>1, <1>3, <1>4, <2>3, <3>1
      <4> QED
        BY <2>3, <4>1 DEF HistoryInv, StackInv
    <3>2. CASE x # j
      <4>1. snapshot[x].shown = z /\ Accepted(x)
        BY <1>1, <2>3, <3>2 DEF HistoryInv, OrderInv
      <4>2. Accepted(y)
        BY <1>2, <1>3, <1>4, <2>3, <4>1
      <4> QED
        BY <2>3, <4>1, <4>2 DEF HistoryInv, StackInv
    <3> QED
      BY <3>1, <3>2
  <2>4. \A x \in Jobs : snapshot'[x].shown \in restored' => x \in restored'
    BY <1>1 DEF HistoryInv, StackInv
  <2> QED
    BY <1>1, <2>1, <2>2, <2>3, <2>4 DEF StackInv, Rank
<1>9. HiddenInv'
  <2>1. j # job[j].source.by /\ \A k \in Jobs : k # j => job[k].source.by # j
    BY <1>2 DEF HistoryInv, ImageInv
  <2>2. ASSUME NEW k \in Jobs, Accepted(k)', k \notin restored
        PROVE  Hides(product.image, k)'
    BY <1>2, <1>3, <1>5, <2>1, <2>2, HistoryTypes DEF HistoryInv, HiddenInv, Hides, Gallery
  <2>3. ASSUME NEW k \in Jobs, NEW x \in Jobs, Accepted(k)', Accepted(x)',
               k \notin restored, Rank(k) < Rank(x)
        PROVE  Hides(snapshot[x].image, k)'
    <3>1. k # j /\ Accepted(k)
      BY <1>2, <1>3, <1>4, <2>3
    <3>2. CASE x = j
      BY <1>1, <2>3, <3>1, <3>2 DEF HistoryInv, HiddenInv, Hides
    <3>3. CASE x # j
      BY <1>1, <1>3, <2>3, <3>1, <3>3 DEF HistoryInv, HiddenInv, Hides
    <3> QED
      BY <3>2, <3>3
  <2> QED
    BY <1>1, <2>2, <2>3 DEF HiddenInv, Rank
<1> QED
  BY <1>2, <1>3, <1>6, <1>7, <1>8, <1>9 DEF HistoryInv

\* A rollback takes the last accepted job that is not rolled back out of it.
LEMMA PutBackHistory ==
  ASSUME TypeInv, TypeInv', HistoryInv, NEW j \in Jobs, PutsBack(j), UNCHANGED job,
         \A k \in Jobs : Known(k) => Known(k)',
         \A k \in Jobs : Known(k)' => Known(k) \/ Rank(k)' <= product.version
  PROVE  HistoryInv'
<1>1. /\ product.shown = j /\ product'.version = product.version + 1
      /\ product'.image = snapshot[j].image
      /\ product'.shown \in {NoJob, snapshot[j].shown}
      /\ snapshot' = snapshot /\ replaced' = replaced /\ restored' = restored \cup {j}
      /\ \A k \in Jobs : Rank(k)' = Rank(k)
  BY DEF PutsBack, Rank
<1>2. \A k \in Jobs : Accepted(k)' <=> Accepted(k)
  BY <1>1, HistoryTypes DEF Accepted
<1>3. \A k \in Jobs : Rank(k) \in Nat
  BY HistoryTypes
<1>4. Accepted(j) /\ j \notin restored
  BY <1>1 DEF Accepted, HistoryInv, StackInv
<1>5. \A y \in Jobs : Accepted(y) /\ y \notin restored' => Rank(y) < Rank(j) /\ y \notin restored
  BY <1>1, <1>3, <1>4 DEF HistoryInv, OrderInv, StackInv
<1>6. OrderInv'
  <2>1. \A k \in Jobs : Accepted(k)' => Known(k)' /\ Rank(k)' < product'.version
    BY <1>1, <1>2, <1>3, HistoryTypes DEF HistoryInv, OrderInv
  <2>2. \A k \in Jobs : Known(k)' => Rank(k)' <= product'.version
    BY <1>1, <1>3, HistoryTypes DEF HistoryInv, OrderInv
  <2>3. \A k, x \in Jobs : Accepted(k)' /\ Accepted(x)' /\ Rank(k)' = Rank(x)' => k = x
    BY <1>1, <1>2 DEF HistoryInv, OrderInv
  <2>4. ASSUME NEW k \in Jobs, NEW y \in Jobs, snapshot[k].shown = y
        PROVE  Accepted(k)' /\ Rank(y)' < Rank(k)'
    BY <1>1, <1>2, <2>4 DEF HistoryInv, OrderInv
  <2>5. \A k \in replaced' : Accepted(k)'
    BY <1>1, <1>2 DEF HistoryInv, OrderInv, TypeInv
  <2> QED
    BY <1>1, <2>1, <2>2, <2>3, <2>4, <2>5 DEF OrderInv, Rank
<1>7. ImageInv'
  BY <1>1, <1>2 DEF HistoryInv, ImageInv, Shows
<1>8. StackInv'
  <2>1. product'.shown \notin restored'
    <3>1. snapshot[j].shown # j
      BY <1>3 DEF HistoryInv, OrderInv
    <3>2. snapshot[j].shown \notin restored
      BY <1>4 DEF HistoryInv, StackInv
    <3> QED
      BY <1>1, <3>1, <3>2, HistoryTypes
  <2>2. ASSUME NEW z \in Jobs, product'.shown = z, NEW y \in Jobs, Accepted(y), Rank(z) < Rank(y)
        PROVE  y \in restored'
    <3>1. snapshot[j].shown = z
      BY <1>1, <2>2, HistoryTypes
    <3> QED
      BY <1>5, <2>2, <3>1 DEF HistoryInv, StackInv
  <2>3. ASSUME NEW x \in Jobs, NEW y \in Jobs, NEW z \in Jobs, snapshot[x].shown = z,
               Accepted(y), Rank(z) < Rank(y), Rank(y) < Rank(x)
        PROVE  y \in restored'
    BY <1>1, <2>3 DEF HistoryInv, StackInv
  <2>4. ASSUME NEW x \in Jobs, snapshot[x].shown \in restored'
        PROVE  x \in restored'
    <3>1. CASE snapshot[x].shown \in restored
      BY <1>1, <3>1 DEF HistoryInv, StackInv
    <3>2. CASE snapshot[x].shown = j
      <4>1. Accepted(x) /\ Rank(j) < Rank(x)
        BY <3>2 DEF HistoryInv, OrderInv
      <4> QED
        BY <1>3, <1>5, <4>1
    <3> QED
      BY <1>1, <2>4, <3>1, <3>2
  <2> QED
    BY <1>1, <1>2, <2>1, <2>2, <2>3, <2>4 DEF StackInv, Rank
<1>9. HiddenInv'
  <2>1. ASSUME NEW k \in Jobs, Accepted(k), k \notin restored'
        PROVE  Hides(snapshot[j].image, k)
    BY <1>4, <1>5, <2>1 DEF HistoryInv, HiddenInv
  <2>2. ASSUME NEW k \in Jobs, NEW x \in Jobs, Accepted(k), Accepted(x),
               k \notin restored', Rank(k) < Rank(x)
        PROVE  Hides(snapshot[x].image, k)
    BY <1>5, <2>2 DEF HistoryInv, HiddenInv
  <2> QED
    BY <1>1, <1>2, <2>1, <2>2 DEF HiddenInv, Rank, Hides
<1> QED
  BY <1>6, <1>7, <1>8, <1>9 DEF HistoryInv

LEMMA HistoryHolds ==
  ASSUME TypeInv, RequestInv, HistoryInv, Effect
  PROVE  HistoryInv'
<1>1. /\ TypeInv' /\ \A k \in Jobs : Known(k) => Known(k)'
      /\ \A k \in Jobs : Known(k)' => Known(k) \/ Rank(k)' <= product.version
  BY KnownEffect DEF Effect
<1>2. \A q \in Requests : ~At(q, "idle") => request[q].job \in Jobs /\ Known(request[q].job)
  BY DEF RequestInv, Known
<1>3. CASE UNCHANGED <<job, external>>
  BY <1>3, StillHistory DEF external
<1>4. CASE /\ UNCHANGED external
           /\ \E j \in Jobs :
                  /\ row[j].status = "NONE"
                  /\ \E s \in Slots : job'[j].source = AssetAt(s)
                  /\ job'[j].expected <= product.version
                  /\ \A k \in Jobs \ {j} : job'[k] = job[k]
  <2>1. \A j \in Jobs : job'[j] = job[j]
                        \/ (~Known(j) /\ \E s \in Slots : job'[j].source = AssetAt(s))
    BY <1>4 DEF Known
  <2> QED
    BY <1>4, <2>1, StillHistory DEF external
<1>5. CASE /\ UNCHANGED <<job, snapshot, restored, replaced>>
           /\ product'.image = product.image /\ product'.shown = product.shown
           /\ product'.version = product.version + 1
  BY <1>5, StillHistory
<1>6. CASE UNCHANGED job /\ \E q \in Requests : Applies(q)
  <2>1. PICK q \in Requests : At(q, "call") /\ TakesOver(request[q].job)
    BY <1>6 DEF Applies
  <2>2. ~At(q, "idle")
    BY <2>1 DEF At
  <2> QED
    BY <1>1, <1>2, <1>6, <2>1, <2>2, TakeOverHistory
<1>7. CASE UNCHANGED job /\ \E q \in Requests : At(q, "rollback") /\ PutsBack(request[q].job)
  <2>1. PICK q \in Requests : At(q, "rollback") /\ PutsBack(request[q].job)
    BY <1>7
  <2>2. ~At(q, "idle")
    BY <2>1 DEF At
  <2> QED
    BY <1>1, <1>2, <1>7, <2>1, <2>2, PutBackHistory
<1> QED
  BY <1>3, <1>4, <1>5, <1>6, <1>7 DEF Effect, ProductStep

\* What a step does to a job that is created: its image and version stay, and so do
\* its apply and its rollback; if it is not accepted, its version is over as soon as
\* the product moves.
LEMMA ProductMoves ==
  ASSUME TypeInv, RequestInv, HistoryInv, Effect, NEW j \in Jobs, Known(j)
  PROVE  /\ job'[j] = job[j] /\ Rank(j) <= product.version
         /\ Accepted(j) => Accepted(j)'
         /\ j \in replaced => j \in replaced'
         /\ j \in restored => j \in restored'
         /\ Accepted(j)' => Accepted(j) \/ TakesOver(j)
         /\ TakesOver(j) => ~Accepted(j) /\ Accepted(j)'
         /\ product' = product \/ Rank(j) < product'.version
         /\ j \in replaced' => j \in replaced \/ \E q \in Requests : Applies(q) /\ request[q].job = j
<1>1. /\ TypeInv' /\ \A k \in Jobs : Known(k) => Known(k)'
      /\ \A k \in Jobs : Known(k)' => Known(k) \/ Rank(k)' <= product.version
  BY KnownEffect DEF Effect
<1>2. Rank(j) <= product.version /\ Rank(j) \in Nat /\ product.version \in Nat
  BY HistoryTypes DEF HistoryInv, OrderInv
<1>3. ASSUME UNCHANGED job, NEW k \in Jobs, Known(k), TakesOver(k)
      PROVE  /\ ~Accepted(k)
             /\ \A x \in Jobs : Accepted(x)' <=> (Accepted(x) \/ x = k)
  BY <1>1, <1>3, TakeOverHistory
<1>4. TakesOver(j) => UNCHANGED job
  <2>1. SUFFICES ASSUME TakesOver(j) PROVE UNCHANGED job
    OBVIOUS
  <2>2. ~UNCHANGED external
    BY <1>2, <2>1 DEF TakesOver, external
  <2> QED
    BY <2>2 DEF Effect, ProductStep, external
<1>5. CASE UNCHANGED external /\ job'[j] = job[j]
  <2>1. Accepted(j)' <=> Accepted(j)
    BY <1>5 DEF Accepted, external
  <2> QED
    BY <1>2, <1>3, <1>4, <1>5, <2>1 DEF external
<1>6. CASE UNCHANGED <<job, restored, replaced>> /\ product'.version = product.version + 1
           /\ \A x \in Jobs : Accepted(x)' <=> Accepted(x)
  BY <1>2, <1>3, <1>6
<1>7. ASSUME UNCHANGED job, NEW q \in Requests, Applies(q)
      PROVE  /\ Accepted(j) => Accepted(j)'
             /\ j \in replaced => j \in replaced'
             /\ restored' = restored
             /\ Accepted(j)' => Accepted(j) \/ TakesOver(j)
             /\ Rank(j) < product'.version
             /\ j \in replaced' => j \in replaced \/ request[q].job = j
  <2> DEFINE k == request[q].job
  <2>1. k \in Jobs /\ Known(k) /\ TakesOver(k)
    BY <1>7 DEF Applies, RequestInv, Known, At
  <2> HIDE DEF k
  <2>2. \A x \in Jobs : Accepted(x)' <=> (Accepted(x) \/ x = k)
    BY <1>3, <1>7, <2>1
  <2>3. /\ j \in replaced => j \in replaced'
        /\ restored' = restored
        /\ product'.version = product.version + 1
        /\ j \in replaced' => j \in replaced \/ j = k
    BY <2>1 DEF TakesOver
  <2> QED
    BY <1>2, <2>1, <2>2, <2>3 DEF k
<1>8. ASSUME UNCHANGED job, NEW k \in Jobs, PutsBack(k)
      PROVE  /\ Accepted(j)' <=> Accepted(j)
             /\ replaced' = replaced
             /\ j \in restored => j \in restored'
             /\ Rank(j) < product'.version
  BY <1>2, <1>8, HistoryTypes DEF PutsBack, Accepted
<1>9. CASE /\ UNCHANGED <<job, snapshot, restored, replaced>>
           /\ product'.image = product.image /\ product'.shown = product.shown
           /\ product'.version = product.version + 1
  BY <1>6, <1>9 DEF Accepted
<1>10. CASE UNCHANGED job /\ \E q \in Requests : Applies(q)
  BY <1>2, <1>3, <1>7, <1>10
<1>11. CASE UNCHANGED job /\ \E q \in Requests : At(q, "rollback") /\ PutsBack(request[q].job)
  <2>1. PICK q \in Requests : At(q, "rollback") /\ PutsBack(request[q].job)
    BY <1>11
  <2>2. request[q].job \in Jobs
    BY <2>1 DEF RequestInv, Known, At
  <2> QED
    BY <1>2, <1>3, <1>8, <1>11, <2>1, <2>2
<1>12. CASE UNCHANGED external /\ \E k \in Jobs : row[k].status = "NONE"
                                     /\ \A x \in Jobs \ {k} : job'[x] = job[x]
  BY <1>5, <1>12 DEF Known
<1> QED
  BY <1>5, <1>9, <1>10, <1>11, <1>12 DEF Effect, ProductStep

-----------------------------------------------------------------------------
(* Decisions.  What a request has decided on a session is right for the     *)
(* apply it has in mind: if Product takes that apply, the product has not   *)
(* moved since.  A decision for a job that Product had taken before is "no" *)
(* unless the job has been rolled back, and then the call fails.  Nothing   *)
(* ever marks another job's session; that every replaced cover is marked in *)
(* the end needs requests that had the job to themselves.                   *)

DecidedInv ==
    \A q \in Requests :
        LET j == request[q].job IN
        /\ At(q, "call") =>
               \/ Accepted(j) /\ (request[q].starts = TRUE => j \in replaced \/ j \in restored)
               \/ /\ ~Accepted(j)
                  /\ product.version = Rank(j) =>
                         (request[q].starts = TRUE <=> job[j].source = CoverAsset)
        /\ At(q, "applied") => Accepted(j) /\ (request[q].starts = TRUE => j \in replaced)
        /\ At(q, "applying") => Accepted(j)

WrittenInv ==
    /\ \A j \in Jobs : row[j].starts = TRUE => j \in replaced
    /\ \A q \in Requests :
           ~At(q, "idle") /\ request[q].aggregate.starts = TRUE => request[q].job \in replaced

SoleInv ==
    \A j \in Jobs : Alone(j) =>
        /\ \A q, r \in Requests :
               ~At(q, "idle") /\ ~At(r, "idle") /\ request[q].job = j /\ request[r].job = j => q = r
        /\ \A q \in Requests : ~At(q, "idle") /\ request[q].job = j =>
               /\ request[q].step \notin Saving => request[q].aggregate = row[j]
               /\ request[q].step \in Saving => request[q].record = row[j]
               /\ At(q, "applying") => row[j].status = "REVIEW_REQUIRED"
               /\ At(q, "restoring") => request[q].aggregate.starts = row[j].starts

ClockInv ==
    /\ \A j \in Jobs : row[j].at <= clock
    /\ \A q \in Requests : ~At(q, "idle") => request[q].aggregate.at <= clock

Marks(q, j) ==
    /\ request[q].job = j
    /\ \/ At(q, "applied") /\ request[q].starts = TRUE
       \/ At(q, "applying") /\ request[q].aggregate.starts = TRUE
MarkedInv ==
    lost = 0 =>
        \A j \in replaced : Alone(j) => row[j].starts = TRUE \/ \E q \in Requests : Marks(q, j)

LEMMA DecidedHolds ==
  ASSUME TypeInv, RequestInv, HistoryInv, DecidedInv, Effect
  PROVE  DecidedInv'
<1> SUFFICES ASSUME NEW q \in Requests
             PROVE  LET j == request'[q].job IN
                    /\ request'[q].step = "call" =>
                         \/ Accepted(request[q].job)'
                            /\ (request'[q].starts = TRUE => j \in replaced' \/ j \in restored')
                         \/ /\ ~Accepted(request[q].job)'
                            /\ product'.version = job'[j].expected =>
                                 (request'[q].starts = TRUE <=> job'[j].source = CoverAsset')
                    /\ request'[q].step = "applied" =>
                         Accepted(request[q].job)' /\ (request'[q].starts = TRUE => j \in replaced')
                    /\ request'[q].step = "applying" => Accepted(request[q].job)'
  BY DEF DecidedInv, At, Rank
<1>1. CASE request'[q].step \notin {"call", "applied", "applying"}
  BY <1>1
<1>2. CASE request'[q].step \in {"call", "applied", "applying"}
  <2>1. ~Arrives(q) /\ ~Closes(q)
    BY <1>2 DEF Arrives, Closes
  <2>2. request'[q].job = request[q].job /\ ~At(q, "idle")
    BY <1>2, <2>1 DEF Effect, RequestMoves, Decides, Calls, Completes, Keeps, At
  <2>3. PICK j \in Jobs : j = request[q].job /\ Known(j)
    BY <2>2 DEF RequestInv, Known
  <2>4. Accepted(request[q].job)' <=> Accepted(j)'
    BY <2>2, <2>3 DEF Accepted
  <2>5. /\ job'[j] = job[j] /\ Rank(j) <= product.version
        /\ Accepted(j) => Accepted(j)'
        /\ j \in replaced => j \in replaced'
        /\ j \in restored => j \in restored'
        /\ Accepted(j)' => Accepted(j) \/ TakesOver(j)
        /\ TakesOver(j) => ~Accepted(j) /\ Accepted(j)'
        /\ product' = product \/ Rank(j) < product'.version
    BY <2>3, ProductMoves
  <2>6. Rank(j) \in Nat /\ product.version \in Nat /\ product'.version \in Nat
    BY <2>3, HistoryTypes DEF Effect, TypeInv, Product
  <2>7. TakesOver(j) => /\ product.version = Rank(j)
                        /\ j \in replaced' <=> (j \in replaced \/ job[j].source = CoverAsset)
    BY DEF TakesOver, Rank
  <2>8. product' = product => CoverAsset' = CoverAsset
    BY DEF CoverAsset, AssetAt
  <2>9. product'.version = job'[j].expected => product' = product /\ product.version = Rank(j)
    BY <2>5, <2>6 DEF Rank
  <2>10. CASE request'[q] = request[q] /\ At(q, "call")
    <3>1. CASE Accepted(j)
      BY <2>2, <2>3, <2>4, <2>5, <2>10, <3>1 DEF DecidedInv, At
    <3>2. CASE ~Accepted(j) /\ TakesOver(j)
      BY <2>2, <2>3, <2>4, <2>5, <2>7, <2>10, <3>2 DEF DecidedInv, At
    <3>3. CASE ~Accepted(j) /\ ~TakesOver(j)
      BY <2>2, <2>3, <2>4, <2>5, <2>8, <2>9, <2>10, <3>3 DEF DecidedInv, At
    <3> QED
      BY <3>1, <3>2, <3>3
  <2>11. CASE request'[q] = request[q] /\ At(q, "applied")
    BY <2>2, <2>3, <2>4, <2>5, <2>11 DEF DecidedInv, At
  <2>applying. CASE request'[q] = request[q] /\ At(q, "applying")
    BY <2>2, <2>3, <2>4, <2>5, <2>applying DEF DecidedInv, At
  <2>completes. CASE Completes(q)
    BY <2>2, <2>3, <2>4, <2>5, <2>completes, <1>2 DEF Completes, DecidedInv, At
  <2>12. CASE Decides(q)
    <3>1. /\ UNCHANGED <<job, external>> /\ request'[q].step = "call"
          /\ request'[q].starts = TRUE <=> job[j].source = CoverAsset
      BY <2>3, <2>12 DEF Decides
    <3>2. Accepted(j)' <=> Accepted(j)
      BY <3>1 DEF Accepted, external
    <3>3. CASE Accepted(j)
      <4>1. j \notin restored => job[j].source # CoverAsset
        BY <2>3, <3>3 DEF HistoryInv, HiddenInv, Hides, CoverAsset, AssetAt
      <4> QED
        BY <2>2, <2>3, <2>4, <2>5, <3>1, <3>2, <3>3, <4>1
    <3>4. CASE ~Accepted(j)
      BY <2>2, <2>3, <2>4, <2>8, <3>1, <3>2, <3>4 DEF external
    <3> QED
      BY <3>3, <3>4
  <2>13. CASE Calls(q)
    <3>1. /\ At(q, "call") /\ request'[q].step = "applied" /\ request'[q].starts = request[q].starts
          /\ (product.shown = j /\ UNCHANGED external) \/ TakesOver(j)
      BY <1>2, <2>3, <2>13 DEF Calls
    <3>2. CASE product.shown = j
      <4>1. Accepted(j) /\ j \notin restored
        BY <3>2 DEF Accepted, HistoryInv, StackInv
      <4> QED
        BY <2>2, <2>3, <2>4, <2>5, <3>1, <4>1 DEF DecidedInv
    <3>3. CASE TakesOver(j)
      BY <2>2, <2>3, <2>4, <2>5, <2>7, <3>1, <3>3 DEF DecidedInv
    <3> QED
      BY <3>1, <3>2, <3>3
  <2> QED
    BY <1>2, <2>1, <2>10, <2>11, <2>applying, <2>completes, <2>12, <2>13
    DEF Effect, RequestMoves, At
<1> QED
  BY <1>1, <1>2

LEMMA WrittenHolds ==
  ASSUME TypeInv, RequestInv, HistoryInv, DecidedInv, WrittenInv, Effect
  PROVE  WrittenInv'
<1>1. \A j \in Jobs : j \in replaced => j \in replaced'
  <2>1. \A j \in Jobs : j \in replaced => Known(j)
    BY DEF HistoryInv, OrderInv
  <2> QED
    BY <2>1, ProductMoves
<1>2. ASSUME NEW j \in Jobs, row'[j].starts = TRUE
      PROVE  j \in replaced'
  <2>1. CASE row[j].starts = TRUE
    BY <1>1, <2>1 DEF WrittenInv
  <2>2. CASE row[j].starts # TRUE
    <3>1. PICK q \in Requests : /\ request[q].job = j /\ request[q].step \in Saving
                                /\ request[q].aggregate.starts = TRUE
      BY <1>2, <2>2 DEF Effect, RowStep, Saves
    <3> QED
      BY <1>1, <3>1 DEF WrittenInv, At, Saving
  <2> QED
    BY <2>1, <2>2
<1>3. ASSUME NEW q \in Requests, ~At(q, "idle")', request'[q].aggregate.starts = TRUE
      PROVE  request'[q].job \in replaced'
  <2>1. CASE /\ request'[q].job = request[q].job /\ ~At(q, "idle")
             /\ request'[q].aggregate.starts = request[q].aggregate.starts
    <3>1. request[q].job \in Jobs
      BY <2>1 DEF RequestInv, Known
    <3> QED
      BY <1>1, <1>3, <2>1, <3>1 DEF WrittenInv
  <2>2. CASE Arrives(q)
    <3>1. PICK j \in Jobs : j = request'[q].job /\ request'[q].aggregate = row[j] /\ UNCHANGED row
      BY <2>2 DEF Arrives, Known
    <3> QED
      BY <1>2, <1>3, <3>1
  <2>3. CASE Completes(q) /\ At(q, "applied")
    <3>1. /\ request'[q].job = request[q].job /\ request[q].starts = TRUE
      BY <1>3, <2>3 DEF Completes, At
    <3>2. request[q].job \in Jobs /\ request[q].job \in replaced
      BY <2>3, <3>1 DEF DecidedInv, RequestInv, Known, At
    <3> QED
      BY <1>1, <3>1, <3>2
  <2> QED
    BY <1>3, <2>1, <2>2, <2>3
    DEF Effect, RequestMoves, Decides, Calls, Completes, Closes, Keeps, At
<1> QED
  BY <1>2, <1>3 DEF WrittenInv, At

\* Times are the clock's.
LEMMA ClockHolds ==
  ASSUME TypeInv, RequestInv, ClockInv, Effect
  PROVE  ClockInv'
<1>1. /\ clock \in Nat /\ clock' \in Nat /\ clock <= clock'
      /\ \A j \in Jobs : row[j].at \in Nat /\ row'[j].at \in Nat
      /\ \A q \in Requests : request[q].aggregate.at \in Nat /\ request'[q].aggregate.at \in Nat
  <2>1. /\ \A q \in Requests : request[q] \in Request /\ request'[q] \in Request
        /\ \A j \in Jobs : row[j] \in Columns /\ row'[j] \in Columns
    BY DEF Effect, TypeInv
  <2> QED
    BY <2>1 DEF Effect, TypeInv, Request, Columns
<1>2. ASSUME NEW j \in Jobs
      PROVE  row'[j].at <= clock
  <2>1. CASE row'[j].at = row[j].at
    BY <2>1 DEF ClockInv
  <2>2. CASE \E q \in Requests : Saves(q) /\ request[q].job = j
    <3>1. PICK q \in Requests : Saves(q) /\ request[q].job = j
      BY <2>2
    <3>2. row'[j].at = row[j].at \/ row'[j].at = request[q].aggregate.at
      BY <3>1 DEF Saves, WriteBack, Column
    <3> QED
      BY <3>1, <3>2 DEF ClockInv, Saves, Saving, At
  <2> QED
    BY <2>1, <2>2 DEF Effect, RowStep, Saves
<1>3. ASSUME NEW q \in Requests, ~At(q, "idle")'
      PROVE  request'[q].aggregate.at <= clock'
  <2>1. CASE /\ ~At(q, "idle") /\ request'[q].aggregate = request[q].aggregate
    BY <1>1, <2>1 DEF ClockInv
  <2>2. CASE Arrives(q)
    <3>1. PICK j \in Jobs : request'[q].aggregate = row[j]
      BY <2>2 DEF Arrives, Known
    <3> QED
      BY <1>1, <3>1 DEF ClockInv
  <2>3. CASE Completes(q)
    BY <1>1, <2>3 DEF Completes
  <2> QED
    BY <1>3, <2>1, <2>2, <2>3 DEF Effect, RequestMoves, Decides, Calls, Closes, Keeps, At
<1>4. \A j \in Jobs : row'[j].at <= clock'
  BY <1>1, <1>2
<1> QED
  BY <1>3, <1>4 DEF ClockInv

\* A request that had its job to itself has it still, or has just come for it.
LEMMA SoleMoves ==
  ASSUME TypeInv, RequestInv, SoleInv, Effect, NEW j \in Jobs, Alone(j)',
         NEW q \in Requests, ~At(q, "idle")', request'[q].job = j
  PROVE  /\ Arrives(q) \/ (~At(q, "idle") /\ request[q].job = j)
         /\ row'[j] = row[j]
<1>1. Alone(j)
  BY DEF Alone, Effect
<1>2. CASE Arrives(q)
  BY <1>2 DEF Arrives
<1>3. CASE ~Arrives(q)
  <2>1. ~At(q, "idle") /\ request[q].job = j
    BY <1>3 DEF Effect, RequestMoves, Decides, Calls, Completes, Closes, Keeps, At
  <2>2. Known(j)
    BY <2>1 DEF RequestInv
  <2>3. ASSUME NEW r \in Requests, Saves(r), request[r].job = j
        PROVE  FALSE
    <3>1. ~At(r, "idle") /\ At(r, "idle")'
      BY <2>3 DEF Saves, Saving, At
    <3>2. q = r
      BY <1>1, <2>1, <2>3, <3>1 DEF SoleInv
    <3> QED
      BY <3>1, <3>2
  <2> QED
    BY <2>1, <2>2, <2>3, RowMoves
<1> QED
  BY <1>2, <1>3

LEMMA SoleHolds ==
  ASSUME TypeInv, RequestInv, SoleInv, Effect
  PROVE  SoleInv'
<1> SUFFICES ASSUME NEW j \in Jobs, Alone(j)'
             PROVE  /\ \A q, r \in Requests :
                           /\ ~At(q, "idle")' /\ ~At(r, "idle")'
                           /\ request'[q].job = j /\ request'[r].job = j
                           => q = r
                    /\ \A q \in Requests : ~At(q, "idle")' /\ request'[q].job = j =>
                           /\ request'[q].step \notin Saving => request'[q].aggregate = row'[j]
                           /\ request'[q].step \in Saving => request'[q].record = row'[j]
                           /\ At(q, "applying")' => row'[j].status = "REVIEW_REQUIRED"
                           /\ At(q, "restoring")' => request'[q].aggregate.starts = row'[j].starts
  BY DEF SoleInv, At
<1>1. Alone(j)
  BY DEF Alone, Effect
<1>2. ASSUME NEW q \in Requests, NEW r \in Requests, q # r,
             ~At(q, "idle")', ~At(r, "idle")', request'[q].job = j, request'[r].job = j,
             request'[r] = request[r]
      PROVE  FALSE
  <2>1. ~At(r, "idle") /\ request[r].job = j
    BY <1>2 DEF At
  <2>2. ~Arrives(q)
    BY <1>2, <2>1 DEF Arrives, Alone
  <2>3. ~At(q, "idle") /\ request[q].job = j
    BY <1>2, <2>2, SoleMoves
  <2> QED
    BY <1>1, <1>2, <2>1, <2>3 DEF SoleInv
<1>3. \A q, r \in Requests :
          /\ ~At(q, "idle")' /\ ~At(r, "idle")' /\ request'[q].job = j /\ request'[r].job = j => q = r
  BY <1>2 DEF Effect, OneMoves
<1>4. ASSUME NEW q \in Requests, ~At(q, "idle")', request'[q].job = j
      PROVE  /\ request'[q].step \notin Saving => request'[q].aggregate = row'[j]
             /\ request'[q].step \in Saving => request'[q].record = row'[j]
             /\ At(q, "applying")' => row'[j].status = "REVIEW_REQUIRED"
             /\ At(q, "restoring")' => request'[q].aggregate.starts = row'[j].starts
  <2>1. Arrives(q) \/ (~At(q, "idle") /\ request[q].job = j)
    BY <1>4, SoleMoves
  <2>2. row'[j] = row[j]
    BY <1>4, SoleMoves
  <2>3. CASE Arrives(q)
    BY <1>4, <2>2, <2>3 DEF Arrives, Saving, At
  <2>4. CASE ~Arrives(q) /\ ~At(q, "idle") /\ request[q].job = j
    <3>1. /\ request[q].step \notin Saving => request[q].aggregate = row[j]
          /\ request[q].step \in Saving => request[q].record = row[j]
          /\ At(q, "applying") => row[j].status = "REVIEW_REQUIRED"
          /\ At(q, "restoring") => request[q].aggregate.starts = row[j].starts
      BY <1>1, <2>4 DEF SoleInv
    <3>2. CASE request'[q] = request[q]
      BY <2>2, <3>1, <3>2 DEF At
    <3>3. CASE Decides(q) \/ Calls(q)
      BY <2>2, <3>1, <3>3 DEF Decides, Calls, Keeps, Saving, At
    <3>4. CASE Completes(q)
      <4>1. At(q, "applied") => request[q].aggregate.status = "REVIEW_REQUIRED"
        BY DEF RequestInv, ApplySteps, At
      <4> QED
        BY <2>2, <2>4, <3>1, <3>4, <4>1 DEF Completes, Saving, At
    <3> QED
      BY <1>4, <2>4, <3>2, <3>3, <3>4 DEF Effect, RequestMoves, Closes, At
  <2> QED
    BY <2>1, <2>3, <2>4
<1> QED
  BY <1>3, <1>4

LEMMA MarkedHolds ==
  ASSUME TypeInv, RequestInv, HistoryInv, DecidedInv, SoleInv, MarkedInv, Effect
  PROVE  MarkedInv'
<1> SUFFICES ASSUME lost' = 0, NEW j \in Jobs, j \in replaced', Alone(j)'
             PROVE  row'[j].starts = TRUE \/ \E q \in Requests : Marks(q, j)'
  BY DEF MarkedInv, Effect, TypeInv, Alone
<1>1. Alone(j) /\ lost = 0
  BY DEF Alone, Effect
<1>2. CASE j \in replaced /\ row[j].starts = TRUE
  <2>1. Known(j)
    BY <1>2 DEF HistoryInv, OrderInv
  <2>2. ASSUME NEW q \in Requests, Saves(q), request[q].job = j
        PROVE  row'[j].starts = TRUE
    <3>1. ~At(q, "idle")
      BY <2>2 DEF Saves, Saving, At
    <3>2. row'[j].starts = row[j].starts \/ row'[j].starts = request[q].aggregate.starts
      BY <2>2 DEF Saves
    <3>3. At(q, "restoring")
      BY <1>1, <1>2, <2>2, <3>1 DEF SoleInv, Saves, Saving, At, RequestInv
    <3> QED
      BY <1>1, <1>2, <2>2, <3>1, <3>2, <3>3 DEF SoleInv
  <2> QED
    BY <1>2, <2>1, <2>2, RowMoves
<1>3. CASE j \in replaced /\ \E q \in Requests : Marks(q, j)
  <2>1. PICK q \in Requests : Marks(q, j)
    BY <1>3
  <2>2. request'[q] = request[q] \/ Completes(q) \/ Saves(q)
    BY <2>1 DEF Marks, Effect, RequestMoves, Arrives, Decides, Calls, Closes, Answered, Saving, At
  <2>3. CASE request'[q] = request[q]
    BY <2>1, <2>3 DEF Marks, At
  <2>4. CASE Completes(q)
    BY <2>1, <2>4 DEF Completes, Marks, At
  <2>5. CASE Saves(q)
    <3>1. At(q, "applying") /\ ~At(q, "idle") /\ request[q].aggregate.starts = TRUE /\ request[q].job = j
      BY <2>1, <2>5 DEF Marks, Saves, Saving, At
    <3>2. request[q].record = row[j]
      BY <1>1, <3>1 DEF SoleInv, Saving, At
    <3>3. row[j] \in Columns /\ request[q].aggregate \in Columns
      <4>1. request[q] \in Request
        BY DEF TypeInv
      <4> QED
        BY <4>1 DEF TypeInv, Request
    <3>4. row'[j] = request[q].aggregate
      BY <2>5, <3>1, <3>2, <3>3, WriteBackWhole DEF Saves
    <3> QED
      BY <3>1, <3>4
  <2> QED
    BY <2>2, <2>3, <2>4, <2>5
<1>4. CASE j \notin replaced
  <2>1. PICK q \in Requests : Applies(q) /\ request[q].job = j
    <3>1. ~UNCHANGED replaced
      BY <1>4
    <3>2. PICK q \in Requests : Applies(q)
      BY <3>1 DEF Effect, ProductStep, external, PutsBack
    <3>3. request[q].job \in Jobs
      BY <3>2 DEF Applies, RequestInv, Known, At
    <3>4. request[q].job = j
      BY <1>4, <3>2, <3>3 DEF Applies, TakesOver
    <3> QED
      BY <3>2, <3>4
  <2>2. /\ At(q, "call") /\ TakesOver(j) /\ Known(j)
        /\ request'[q].step = "applied" /\ Calls(q)
    BY <2>1 DEF Applies, RequestInv, Known, At
  <2>3. request'[q].job = j /\ request'[q].starts = request[q].starts
    BY <2>1, <2>2 DEF Calls, Keeps
  <2>4. ~Accepted(j) /\ job[j].source = CoverAsset /\ product.version = Rank(j)
    BY <1>4, <2>2, ProductMoves DEF TakesOver, Rank
  <2>5. request[q].starts = TRUE
    BY <2>1, <2>2, <2>4 DEF DecidedInv
  <2> QED
    BY <2>2, <2>3, <2>5 DEF Marks, At
<1> QED
  BY <1>1, <1>2, <1>3, <1>4 DEF MarkedInv

-----------------------------------------------------------------------------
(* Theorems.                                                               *)

IInv ==
    /\ TypeInv /\ RequestInv /\ HistoryInv /\ DecidedInv /\ WrittenInv
    /\ ClockInv /\ SoleInv /\ MarkedInv

LEMMA InitIInv == Init => IInv
<1> SUFFICES ASSUME Init PROVE IInv
  OBVIOUS
<1>1. PICK c \in Slots :
         product = [image |-> [s \in Slots |-> NoJob], cover |-> c, version |-> 0, shown |-> NoJob]
  BY DEF Init
<1> DEFINE blank == [s \in Slots |-> NoJob]
           source == [slot |-> product.cover, by |-> NoJob]
           before == [image |-> product.image, shown |-> NoJob]
<1>2. /\ product.image = blank /\ product.cover = c /\ product.version = 0 /\ product.shown = NoJob
      /\ product \in Product
  BY <1>1 DEF Product, Gallery, Makers
<1>3. /\ source \in Asset /\ source.by = NoJob /\ before \in Before
      /\ before.image = blank /\ before.shown = NoJob
  BY <1>2 DEF Asset, Makers, Before, Product
<1>4. \A j \in Jobs : /\ job[j].source = source /\ job[j].expected = 0
                      /\ snapshot[j] = before /\ row[j] = NoColumns
  BY DEF Init
<1>5. /\ job \in [Jobs -> [source : Asset, expected : Nat]]
      /\ snapshot \in [Jobs -> Before] /\ row \in [Jobs -> Columns]
      /\ request \in [Requests -> Request] /\ \A q \in Requests : request[q] = NoRequest
  <2>1. job = [j \in Jobs |-> [source |-> source, expected |-> 0]]
    BY DEF Init
  <2>2. snapshot = [j \in Jobs |-> before] /\ row = [j \in Jobs |-> NoColumns]
        /\ request = [q \in Requests |-> NoRequest]
    BY DEF Init
  <2> HIDE DEF source, before
  <2> QED
    BY <1>3, <2>1, <2>2, Blank
<1> HIDE DEF source, before
<1>6. /\ NoColumns.status = "NONE" /\ NoColumns.starts = FALSE /\ NoColumns.at = 0
      /\ NoRequest.step = "idle"
  BY DEF NoColumns, NoRequest
<1>7. TypeInv
  <2>2. \A q \in Requests : At(q, "idle")
    BY <1>5, <1>6 DEF At
  <2>3. /\ restored \subseteq Jobs /\ replaced \subseteq Jobs /\ overlapped \subseteq SUBSET Jobs
        /\ visited \subseteq 0..today
    BY DEF Init
  <2>4. /\ today \in 0..LastDay /\ edits \in 0..MaxEdits /\ requests \in 0..MaxRequests
        /\ lost \in 0..MaxLost /\ clock \in Nat
    BY ImpactAssumption DEF Init
  <2> QED
    BY <1>2, <1>5, <2>2, <2>3, <2>4 DEF TypeInv
<1>8. RequestInv
  BY <1>4, <1>5, <1>6 DEF RequestInv, At, ApplySteps, Saving
<1>9. \A j \in Jobs : ~Accepted(j)
  BY <1>2, <1>3, <1>4, ImpactAssumption DEF Accepted, Init
<1>10. restored = {} /\ replaced = {} /\ NoJob \notin Jobs /\ \A j \in Jobs : ~Known(j)
  BY <1>4, <1>6, ImpactAssumption DEF Init, Known
<1>11. OrderInv
  BY <1>3, <1>4, <1>9, <1>10 DEF OrderInv
<1>12. ImageInv
  <2>1. \A s \in Slots : product.image[s] = NoJob /\ before.image[s] = NoJob
    BY <1>2, <1>3
  <2> QED
    BY <1>3, <1>4, <1>10, <2>1 DEF ImageInv, Shows
<1>13. StackInv /\ HiddenInv
  BY <1>9, <1>10 DEF StackInv, HiddenInv
<1>14. DecidedInv
  BY <1>5, <1>6 DEF DecidedInv, At
<1>15. WrittenInv
  BY <1>4, <1>5, <1>6, <1>10 DEF WrittenInv, At
<1>clock. ClockInv
  BY <1>4, <1>5, <1>6 DEF ClockInv, At, Init
<1>16. ClockInv /\ SoleInv /\ MarkedInv
  BY <1>5, <1>6, <1>10, <1>clock DEF SoleInv, MarkedInv, At
<1> QED
  BY <1>7, <1>8, <1>11, <1>12, <1>13, <1>14, <1>15, <1>16 DEF IInv, HistoryInv

\* The rows, the requests and the history of the product agree in every reachable
\* state of any number of jobs and requests.
THEOREM Invariance == Spec => []IInv
<1>1. Init => IInv
  BY InitIInv
<1>2. IInv /\ [Next]_vars => IInv'
  <2> SUFFICES ASSUME IInv, [Next]_vars PROVE IInv'
    OBVIOUS
  <2>1. Effect
    BY StepEffect DEF IInv
  <2>2. /\ TypeInv' /\ RequestInv' /\ HistoryInv' /\ DecidedInv' /\ WrittenInv'
        /\ ClockInv' /\ SoleInv' /\ MarkedInv'
    BY <2>1, RequestInvHolds, HistoryHolds, DecidedHolds, WrittenHolds, ClockHolds, SoleHolds,
       MarkedHolds
    DEF IInv, Effect
  <2> QED
    BY <2>2 DEF IInv
<1> QED
  BY <1>1, <1>2, PTL DEF Spec

\* Every variable keeps its type, and no request is about a row it has seen rolled
\* back (apply_outputs.py, rollback_job.py).
THEOREM TypeCorrect == Spec => []TypeOK
<1>1. IInv => TypeOK
  BY DEF IInv, TypeInv, TypeOK, Product, Before, Request, At
<1> QED
  BY <1>1, Invariance, PTL

\* However many requests, covers and rollbacks interleave, only a job whose image
\* replaced the cover starts a session; and it does, once no request on it is under
\* way, if no answer was lost and its own requests did not overlap
\* (apply_outputs.py:80, sqlalchemy_repository.py:254).
THEOREM CoverSessionsAreMarked == Spec => []CoverSessionsMarked
<1>1. IInv => CoverSessionsMarked
  <2> SUFFICES ASSUME IInv, NEW j \in Jobs
               PROVE  /\ row[j].starts => j \in replaced
                      /\ lost = 0 /\ Settled(j) /\ Alone(j) /\ j \in replaced => row[j].starts
    BY DEF CoverSessionsMarked, Lifecycle
  <2>1. row[j].starts \in BOOLEAN
    BY DEF IInv, TypeInv, Columns
  <2>2. row[j].starts = TRUE => j \in replaced
    BY DEF IInv, WrittenInv
  <2>3. lost = 0 /\ Settled(j) /\ Alone(j) /\ j \in replaced => row[j].starts = TRUE
    BY DEF IInv, MarkedInv, Settled, Marks
  <2> QED
    BY <2>1, <2>2, <2>3
<1> QED
  BY <1>1, Invariance, PTL

-----------------------------------------------------------------------------
(* The row completed last.  Times are at most the clock's, so every set of   *)
(* rows has a last one; no two rows share their time where requests come    *)
(* one after the other.                                                     *)

Starting == {j \in Lifecycle : row[j].starts}
IsLatest(j, jobs) == j \in jobs /\ \A k \in jobs : row[k].at <= row[j].at
LatestInv == \A j, k \in Lifecycle : row[j].at = row[k].at => j = k

LEMMA SmallestIn ==
  ASSUME NEW numbers \in SUBSET Nat, numbers # {}
  PROVE  \E m \in numbers : \A n \in numbers : m <= n
<1> DEFINE less == {pair \in Nat \X Nat : pair[1] < pair[2]}
<1>1. IsWellFoundedOn(less, Nat)
  BY NatLessThanWellFounded DEF OpToRel
<1> HIDE DEF less
<1>2. PICK m \in numbers : \A n \in numbers : ~(<<n, m>> \in less)
  BY <1>1, WFMin
<1>3. \A n \in numbers : n \in Nat
  OBVIOUS
<1>4. \A n \in numbers : ~(n < m)
  BY <1>2, <1>3 DEF less
<1> QED
  BY <1>3, <1>4

LEMMA HasLatest ==
  ASSUME TypeInv, ClockInv, NEW jobs \in SUBSET Jobs, jobs # {}
  PROVE  \E j \in Jobs : IsLatest(j, jobs)
<1> DEFINE age(j) == clock - row[j].at
<1>1. \A j \in Jobs : clock \in Nat /\ row[j].at \in Nat /\ row[j].at <= clock
  <2>1. \A j \in Jobs : row[j] \in Columns
    BY DEF TypeInv
  <2> QED
    BY <2>1 DEF TypeInv, Columns, ClockInv
<1>2. \A j \in Jobs : age(j) \in Nat
  BY <1>1
<1> HIDE DEF age
<1>3. {age(j) : j \in jobs} \in SUBSET Nat /\ {age(j) : j \in jobs} # {}
  BY <1>2
<1>4. PICK m \in {age(j) : j \in jobs} : \A n \in {age(j) : j \in jobs} : m <= n
  BY <1>3, SmallestIn
<1>5. PICK j \in jobs : m = age(j)
  OBVIOUS
<1>6. \A k \in jobs : age(j) <= age(k)
  BY <1>4, <1>5
<1> QED
  BY <1>1, <1>6 DEF age, IsLatest

\* Columns of rows.
LEMMA RowTypes ==
  ASSUME TypeInv
  PROVE  /\ \A j \in Jobs : row[j].at \in Nat /\ row[j].starts \in BOOLEAN /\ row[j].day \in 0..LastDay
         /\ Lifecycle \subseteq Jobs /\ Starting \subseteq Lifecycle /\ NoJob \notin Jobs
  BY ImpactAssumption DEF TypeInv, Columns, Lifecycle, Starting

\* What Latest chooses where no two times are the same.
LEMMA Chosen ==
  ASSUME NEW times, NEW jobs, NEW j \in jobs, \A k \in jobs : times[k].at \in Nat,
         \A k \in jobs : times[k].at <= times[j].at,
         \A k, l \in jobs : times[k].at = times[l].at => k = l
  PROVE  (CHOOSE x \in jobs : \A k \in jobs : times[k].at <= times[x].at) = j
<1> DEFINE chosen == CHOOSE x \in jobs : \A k \in jobs : times[k].at <= times[x].at
<1>1. chosen \in jobs /\ \A k \in jobs : times[k].at <= times[chosen].at
  OBVIOUS
<1> HIDE DEF chosen
<1>2. times[chosen].at = times[j].at
  BY <1>1
<1> QED
  BY <1>1, <1>2 DEF chosen

\* The session of the product, in this state and in the next.
LEMMA SessionIs ==
  ASSUME TypeInv, LatestInv
  PROVE  /\ Starting = {} => Session = NoJob
         /\ \A j \in Jobs : IsLatest(j, Starting) => Session = j
         /\ Lifecycle # {} => \A j \in Jobs : IsLatest(j, Lifecycle) => Latest(Lifecycle) = j
<1>1. Session = Latest(Starting)
  BY DEF Session, Starting
<1>2. ASSUME NEW jobs \in SUBSET Lifecycle, NEW j \in Jobs, IsLatest(j, jobs)
      PROVE  Latest(jobs) = j
  <2>1. j \in jobs /\ (\A k \in jobs : row[k].at <= row[j].at) /\ (\A k \in jobs : row[k].at \in Nat)
        /\ \A k, l \in jobs : row[k].at = row[l].at => k = l
    BY <1>2, RowTypes DEF IsLatest, LatestInv
  <2>2. (CHOOSE x \in jobs : \A k \in jobs : row[k].at <= row[x].at) = j
    BY <2>1, Chosen
  <2> QED
    BY <2>1, <2>2 DEF Latest
<1>3. Starting = {} => Session = NoJob
  BY <1>1 DEF Latest
<1> QED
  BY <1>1, <1>2, <1>3, RowTypes

\* A session is a job.
LEMMA SessionAmong ==
  ASSUME TypeInv, ClockInv, Session # NoJob
  PROVE  Session \in Starting /\ Session \in Jobs
<1>1. Session = Latest(Starting) /\ Starting \subseteq Jobs
  BY DEF Session, Starting, Lifecycle
<1>2. Starting # {}
  BY <1>1 DEF Latest
<1>3. PICK j \in Jobs : IsLatest(j, Starting)
  BY <1>1, <1>2, HasLatest
<1>4. Session = CHOOSE x \in Starting : \A k \in Starting : row[k].at <= row[x].at
  BY <1>1, <1>2 DEF Latest
<1> QED
  BY <1>1, <1>3, <1>4 DEF IsLatest

\* What is chosen depends on nothing but the times of those there are.
Last(jobs, times) == CHOOSE x \in jobs : \A k \in jobs : times[k].at <= times[x].at

LEMMA SameChoice ==
  ASSUME NEW jobs, NEW times, NEW later, \A k \in jobs : later[k].at = times[k].at
  PROVE  Last(jobs, later) = Last(jobs, times)
  BY DEF Last

\* sqlalchemy_repository.py:210: for any number of jobs and requests, in any order,
\* what is written to the row of a job that did not replace the cover leaves the
\* session of the product alone.
THEOREM SecondaryLeavesSession == Spec => SecondaryKeepsSession
<1>1. IInv /\ IInv' /\ [Next]_vars =>
         [\A j \in Jobs \ replaced' : row'[j] # row[j] => Session' = Session]_vars
  <2> SUFFICES ASSUME IInv, IInv', [Next]_vars,
                      NEW j \in Jobs, j \notin replaced', row'[j] # row[j]
               PROVE  Session' = Session
    OBVIOUS
  <2>1. Effect
    BY StepEffect DEF IInv
  <2>2. /\ TypeInv /\ TypeInv' /\ RequestInv /\ HistoryInv
        /\ \A k \in Jobs : row[k].starts \in BOOLEAN /\ row'[k].starts \in BOOLEAN
    BY DEF IInv, TypeInv, Columns
  <2>3. Known(j) => (j \in replaced => j \in replaced')
    BY <2>1, <2>2, ProductMoves
  <2>4. row'[j].starts = FALSE /\ (Known(j) => row[j].starts = FALSE)
    BY <2>2, <2>3 DEF IInv, WrittenInv
  <2>5. \A k \in Jobs \ {j} : row'[k] = row[k]
    BY <2>1, <2>2 DEF Effect, RowStep, Saves
  <2>6. Starting' = Starting /\ j \notin Starting
    BY <2>4, <2>5 DEF Starting, Lifecycle, Known
  <2>7. \A k \in Starting : row'[k].at = row[k].at
    BY <2>5, <2>6 DEF Starting, Lifecycle
  <2>8. Last(Starting, row') = Last(Starting, row)
    BY <2>7, SameChoice
  <2>9. Session = IF Starting = {} THEN NoJob ELSE Last(Starting, row)
    BY DEF Session, Latest, Last, Starting
  <2>10. Session' = IF Starting' = {} THEN NoJob ELSE Last(Starting', row')
    BY DEF Session, Latest, Last, Starting
  <2> QED
    BY <2>6, <2>8, <2>9, <2>10
<1> QED
  BY <1>1, Invariance, PTL DEF Spec, SecondaryKeepsSession

-----------------------------------------------------------------------------
(* Windows.  The days that are compared are a matter of the day of the      *)
(* apply and the number of days before it that had events.                  *)

Days(day, length) == [i \in 1..length |-> day + i - 1]

\* SubSeq of a long enough list of days is a shorter one.
LEMMA FirstDays ==
  ASSUME NEW day \in Nat, NEW length \in Nat, NEW n \in Nat, n <= length
  PROVE  SubSeq(Days(day, length), 1, n) = Days(day, n)
<1> DEFINE long == Days(day, length)
           short == Days(day, n)
           cut == SubSeq(long, 1, n)
<1>1. \A i \in 1..n : long[i] \in Int /\ long[i] = day + i - 1
  BY DEF Days
<1>2. /\ cut \in Seq(Int) /\ Len(cut) = (IF 1 <= n THEN n - 1 + 1 ELSE 0)
      /\ \A i \in 1..(n - 1 + 1) : cut[i] = long[1 + i - 1]
  <2> HIDE DEF long
  <2> QED
    BY <1>1, SubSeqProperties
<1> HIDE DEF cut
<1>3. Len(cut) = n /\ \A i \in 1..n : cut[i] = long[i]
  BY <1>2
<1>4. short \in Seq(Int) /\ Len(short) = n /\ \A i \in 1..n : short[i] = day + i - 1
  BY DEF Days
<1> HIDE DEF short, long
<1>5. \A i \in 1..Len(cut) : cut[i] = short[i]
  BY <1>1, <1>3, <1>4
<1>6. cut = short
  BY <1>2, <1>3, <1>4, <1>5
<1> QED
  BY <1>6 DEF cut, short, long

\* The window once it is over.
LEMMA WindowIs ==
  ASSUME NEW day \in Nat, NEW now \in Nat, NEW n \in Nat, now >= day + n
  PROVE  LET daily == [i \in 1..(now - day + 1) |-> day + i - 1] IN
         SubSeq(daily, 1, Min({Len(daily), n})) = Days(day, n)
<1> DEFINE length == now - day + 1
           daily == Days(day, length)
<1>1. length \in Nat /\ n <= length
  OBVIOUS
<1>2. Len(daily) = length
  BY <1>1 DEF Days
<1>3. Min({length, n}) = n
  BY <1>1 DEF Min
<1>4. SubSeq(daily, 1, n) = Days(day, n)
  BY <1>1, FirstDays
<1>5. daily = [i \in 1..(now - day + 1) |-> day + i - 1]
  BY DEF Days
<1> HIDE DEF daily
<1> QED
  BY <1>2, <1>3, <1>4, <1>5

\* The number of days with events before a day.
LEMMA BaselineType ==
  ASSUME TypeInv, NEW day \in 0..LastDay
  PROVE  Cardinality(BaselineDays(day)) \in Nat /\ today \in Nat /\ day \in Nat
<1>1. today \in 0..LastDay /\ visited \subseteq 0..today /\ LastDay \in Nat
  BY ImpactAssumption DEF TypeInv
<1>2. IsFiniteSet(0..today)
  BY <1>1, FS_Interval
<1>3. BaselineDays(day) \in SUBSET (0..today)
  BY <1>1 DEF BaselineDays
<1> QED
  BY <1>1, <1>2, <1>3, FS_Subset, FS_CardinalityType

\* Events of later days and the passing of days change nothing in a closed window.
LEMMA WindowKept ==
  ASSUME TypeInv, TypeInv', NEW day \in 0..LastDay,
         today >= day + Cardinality(BaselineDays(day)), today' >= today,
         visited \subseteq visited', visited' \subseteq visited \cup {today}
  PROVE  /\ BaselineDays(day)' = BaselineDays(day)
         /\ Observed(day)' = Observed(day)
         /\ ObservedWithData(day)' = ObservedWithData(day)
<1> DEFINE n == Cardinality(BaselineDays(day))
<1>1. n \in Nat /\ today \in Nat /\ day \in Nat /\ today >= day + n /\ today' \in Nat
  BY BaselineType DEF TypeInv
<1>2. BaselineDays(day)' = BaselineDays(day)
  BY <1>1 DEF BaselineDays
<1>3. n' = n
  BY <1>2
<1> HIDE DEF n
<1>4. today' >= day + n /\ n' \in Nat
  BY <1>1, <1>3
<1>5. Observed(day) = Days(day, n)
  BY <1>1, WindowIs DEF Observed, Daily, n
<1>6. Observed(day)' = Days(day, n)
  <2>1. Observed(day)' = SubSeq(Daily(day)', 1, Min({Len(Daily(day)'), n}))
    BY <1>2 DEF Observed, n
  <2>2. Daily(day)' = [i \in 1..(today' - day + 1) |-> day + i - 1]
    BY DEF Daily
  <2> QED
    BY <1>1, <1>4, <2>1, <2>2, WindowIs
<1>7. ASSUME NEW d, \E i \in DOMAIN Days(day, n) : Days(day, n)[i] = d
      PROVE  d # today
  <2>1. PICK i \in 1..n : d = day + i - 1
    BY <1>7 DEF Days
  <2> QED
    BY <1>1, <2>1
<1>8. ObservedWithData(day) = {d \in visited : \E i \in DOMAIN Days(day, n) : Days(day, n)[i] = d}
  BY <1>5 DEF ObservedWithData
<1>9. ObservedWithData(day)' = {d \in visited' : \E i \in DOMAIN Days(day, n) : Days(day, n)[i] = d}
  BY <1>6 DEF ObservedWithData
<1> HIDE DEF Days
<1>10. ObservedWithData(day)' = ObservedWithData(day)
  BY <1>7, <1>8, <1>9
<1> QED
  BY <1>2, <1>5, <1>6, <1>10

\* Reports without a window show nothing of the days.
LEMMA NoWindow ==
  ASSUME TypeInv
  PROVE  BaselineDays(0) = {} /\ Observed(0) = Days(0, 0)
<1>1. today \in 0..LastDay /\ visited \subseteq 0..today /\ LastDay \in Nat /\ 0 \in 0..LastDay
  BY ImpactAssumption DEF TypeInv
<1>2. \A d \in visited : ~(d < 0)
  BY <1>1
<1>3. BaselineDays(0) = {}
  BY <1>2 DEF BaselineDays
<1>4. Cardinality(BaselineDays(0)) = 0
  BY <1>3, FS_EmptySet
<1>5. Observed(0) = SubSeq(Daily(0), 1, Min({Len(Daily(0)), Cardinality(BaselineDays(0))}))
  BY DEF Observed
<1>6. Daily(0) = [i \in 1..(today - 0 + 1) |-> 0 + i - 1]
  BY DEF Daily
<1>7. today \in Nat /\ today >= 0 + 0
  BY <1>1
<1> QED
  BY <1>3, <1>4, <1>5, <1>6, <1>7, WindowIs

\* The same of the next state.
LEMMA NoWindowNext ==
  ASSUME TypeInv'
  PROVE  BaselineDays(0)' = {} /\ Observed(0)' = Days(0, 0)
<1>1. today' \in 0..LastDay /\ visited' \subseteq 0..today' /\ LastDay \in Nat /\ 0 \in 0..LastDay
  BY ImpactAssumption DEF TypeInv
<1>2. BaselineDays(0)' = {}
  <2>1. \A d \in visited' : ~(d < 0)
    BY <1>1
  <2> QED
    BY <2>1 DEF BaselineDays
<1>3. Cardinality(BaselineDays(0)') = 0
  BY <1>2, FS_EmptySet
<1>4. Observed(0)' = SubSeq(Daily(0)', 1, Min({Len(Daily(0)'), Cardinality(BaselineDays(0)')}))
  BY DEF Observed
<1>5. Daily(0)' = [i \in 1..(today' - 0 + 1) |-> 0 + i - 1]
  BY DEF Daily
<1>6. today' \in Nat /\ today' >= 0 + 0
  BY <1>1
<1> QED
  BY <1>2, <1>3, <1>4, <1>5, <1>6, WindowIs

\* How a step moves the days.
LEMMA DaysMove ==
  ASSUME TypeInv, [Next]_vars
  PROVE  today' >= today /\ visited \subseteq visited' /\ visited' \subseteq visited \cup {today}
<1>1. today \in Nat
  BY ImpactAssumption DEF TypeInv
<1>2. CASE UNCHANGED <<today, visited>>
  BY <1>1, <1>2
<1>3. CASE NextDay
  BY <1>1, <1>3 DEF NextDay
<1>4. CASE Visit
  BY <1>1, <1>4 DEF Visit
<1>5. ASSUME NEW q \in Requests, RequestStep(q) PROVE UNCHANGED <<today, visited>>
  BY <1>5 DEF RequestStep, ReadForApply, ReadForRollback, Open, ResolveBoundary, CallApply, CallRollback,
              CompleteApply, CompleteRollback, Complete, Save, ServiceRefuses, AnswerLost, analytics
<1> QED
  BY <1>2, <1>3, <1>4, <1>5 DEF Next, CreateJob, ChooseCover, vars, analytics

\* get_impact.py:87: for any number of days, what the report shows of a session whose
\* window is over does not change any more while the session and its row stay.
THEOREM ClosedWindowsAreFinal == Spec => ClosedWindowsStay
<1>1. IInv /\ IInv' /\ [Next]_vars =>
         [WindowOver /\ Session' = Session /\ row'[Session] = row[Session]
            => \A answered \in BOOLEAN : Report(answered)' = Report(answered)]_vars
  <2> SUFFICES ASSUME IInv, IInv', [Next]_vars, WindowOver, Session' = Session,
                      row'[Session] = row[Session], NEW answered \in BOOLEAN
               PROVE  Report(answered)' = Report(answered)
    OBVIOUS
  <2>1. TypeInv /\ TypeInv'
    BY DEF IInv
  <2>2. PICK j \in Jobs : j = Session
    BY SessionAmong DEF WindowOver, IInv
  <2>3. PICK day \in 0..LastDay : day = row[j].day
    BY <2>1, RowTypes
  <2>4. /\ j # NoJob /\ Session = j /\ Session' = j /\ row'[j] = row[j]
        /\ row[j].status = "APPLIED" /\ row[j].day = day
        /\ today >= day + Cardinality(BaselineDays(day))
    BY <2>2, <2>3 DEF WindowOver
  <2>5. /\ BaselineDays(day)' = BaselineDays(day)
        /\ Observed(day)' = Observed(day)
        /\ ObservedWithData(day)' = ObservedWithData(day)
    BY <2>1, <2>4, DaysMove, WindowKept
  <2>6. BaselineDays(0)' = BaselineDays(0) /\ Observed(0)' = Observed(0)
    BY <2>1, NoWindow, NoWindowNext
  <2> DEFINE data == ObservedWithData(day)
  <2>7. Report(answered) =
          IF ~answered THEN Item("UNAVAILABLE", 0, {})
          ELSE IF BaselineDays(day) = {} THEN Item("NO_BASELINE", day, {})
          ELSE IF data = {} THEN Item("COLLECTING", day, {})
          ELSE Item("READY", day, {Max(data)})
    BY <2>4 DEF Report
  <2>8. Report(answered)' =
          IF ~answered THEN Item("UNAVAILABLE", 0, {})'
          ELSE IF BaselineDays(day)' = {} THEN Item("NO_BASELINE", day, {})'
          ELSE IF data' = {} THEN Item("COLLECTING", day, {})'
          ELSE Item("READY", day, {Max(data)})'
    BY <2>4 DEF Report
  <2>9. /\ Item("UNAVAILABLE", 0, {})' = Item("UNAVAILABLE", 0, {})
        /\ Item("NO_BASELINE", day, {})' = Item("NO_BASELINE", day, {})
        /\ Item("COLLECTING", day, {})' = Item("COLLECTING", day, {})
        /\ Item("READY", day, {Max(data)})' = Item("READY", day, {Max(data)})
    BY <2>5, <2>6 DEF Item
  <2> QED
    BY <2>5, <2>7, <2>8, <2>9
<1> QED
  BY <1>1, Invariance, PTL DEF Spec, ClosedWindowsStay

-----------------------------------------------------------------------------
(* What the rows say was granted by Product, and a job whose version is the *)
(* product's has seen the image it is to replace.                           *)

Slot(j) == job[j].source.slot
GrantedInv ==
    /\ \A j \in Lifecycle : Accepted(j)
    /\ \A q \in Requests : At(q, "restored") \/ At(q, "restoring") => request[q].job \in restored
FreshInv ==
    \A j \in Jobs : Known(j) /\ Rank(j) = product.version => job[j].source = AssetAt(Slot(j))

\* A status is written for what Product has accepted or restored.
LEMMA GrantedHolds ==
  ASSUME IInv, GrantedInv, Effect
  PROVE  GrantedInv'
<1>1. TypeInv /\ RequestInv /\ HistoryInv /\ DecidedInv
  BY DEF IInv
<1>2. /\ \A q \in Requests : ~At(q, "idle") => Known(request[q].job)
      /\ \A j \in Jobs : Known(j) => (Accepted(j) => Accepted(j)') /\ (j \in restored => j \in restored')
  BY <1>1, ProductMoves DEF RequestInv
<1>3. ASSUME NEW j \in Jobs, j \in Lifecycle'
      PROVE  Accepted(j)'
  <2>1. CASE j \in Lifecycle
    BY <1>2, <2>1 DEF GrantedInv, Lifecycle, Known
  <2>2. CASE j \notin Lifecycle
    <3>1. row'[j] # row[j] /\ row'[j].status \in {"APPLIED", "ROLLED_BACK"}
      BY <1>3, <2>2 DEF Lifecycle
    <3>2. PICK q \in Requests : (At(q, "applying") \/ At(q, "restoring")) /\ request[q].job = j
      BY <3>1 DEF Effect, RowStep, Saves, Saving, At
    <3>3. Accepted(j) /\ Known(j)
      BY <1>1, <1>2, <3>2 DEF DecidedInv, GrantedInv, Accepted, At
    <3> QED
      BY <1>2, <3>3
  <2> QED
    BY <2>1, <2>2
<1>4. ASSUME NEW q \in Requests, request'[q].step \in {"restored", "restoring"}
      PROVE  request'[q].job \in restored'
  <2>1. RequestMoves(q)
    BY DEF Effect
  <2>2. CASE request'[q] = request[q]
    BY <1>2, <1>4, <2>2 DEF GrantedInv, Known, At
  <2>3. CASE Calls(q)
    BY <1>4, <2>3 DEF Calls, Keeps
  <2>4. CASE Completes(q)
    BY <1>2, <1>4, <2>4 DEF Completes, GrantedInv, Known, At, external
  <2> QED
    BY <1>4, <2>1, <2>2, <2>3, <2>4 DEF RequestMoves, Arrives, Decides, Closes
<1> QED
  BY <1>3, <1>4 DEF GrantedInv, Lifecycle, At

\* A job is created for an image the product has, and whatever moves the product
\* moves its version.
LEMMA FreshHolds ==
  ASSUME IInv, FreshInv, Effect
  PROVE  FreshInv'
<1>1. TypeInv /\ RequestInv /\ HistoryInv /\ TypeInv'
  BY DEF IInv, Effect
<1>2. /\ product.version \in Nat /\ product'.version \in Nat
      /\ \A j \in Jobs : Rank(j)' \in Nat /\ (Known(j) => Rank(j) <= product.version)
  BY <1>1, HistoryTypes DEF HistoryInv, OrderInv, TypeInv, Product, Rank
<1>3. product' = product \/ product'.version = product.version + 1
  BY DEF Effect, ProductStep, external, Applies, TakesOver, PutsBack
<1>4. ASSUME NEW j \in Jobs, Known(j)', job'[j].expected = product'.version
      PROVE  job'[j].source = [slot |-> job'[j].source.slot, by |-> product'.image[job'[j].source.slot]]
  <2>1. CASE Known(j)
    <3>1. job'[j] = job[j] /\ (product' = product \/ Rank(j) < product'.version)
      BY <1>1, <2>1, ProductMoves
    <3>2. product' = product
      BY <1>2, <1>4, <3>1 DEF Rank
    <3> QED
      BY <1>4, <2>1, <3>1, <3>2 DEF FreshInv, Rank, Slot, AssetAt
  <2>2. CASE ~Known(j)
    <3>1. job'[j].expected <= product.version /\ \E s \in Slots : job'[j].source = AssetAt(s)
      BY <1>1, <1>4, <2>2 DEF Effect, RowStep, Known, RequestInv, Saves, Saving, At
    <3>2. product' = product
      BY <1>2, <1>3, <1>4, <3>1 DEF Rank
    <3> QED
      BY <3>1, <3>2 DEF AssetAt
  <2> QED
    BY <2>1, <2>2
<1> QED
  BY <1>4 DEF FreshInv, Rank, Slot, AssetAt

-----------------------------------------------------------------------------
(* One request after the other, none of them lost.  A request then reads    *)
(* the row it writes, and what it tells Product it writes next: a table of  *)
(* what the product and the rows do in a step.                              *)

Tells(q, verdict) ==
    \/ At(q, verdict)
    \/ verdict = "applied" /\ At(q, "applying")
    \/ verdict = "restored" /\ At(q, "restoring")
Pending(verdict, j) == \E q \in Requests : Tells(q, verdict) /\ request[q].job = j
Sequential == overlapped = {} /\ lost = 0
InHand(q) ==
    LET j == request[q].job IN
    /\ request[q].step \notin Saving => request[q].aggregate = row[j]
    /\ request[q].step \in Saving =>
           request[q].record = row[j] /\ \A k \in Jobs : row[k].at < request[q].aggregate.at
    /\ At(q, "applying") => row[j].status = "REVIEW_REQUIRED"
    /\ At(q, "restoring") => row[j].status = "APPLIED" /\ request[q].aggregate.starts = row[j].starts
Single ==
    /\ \A q, r \in Requests : ~At(q, "idle") /\ ~At(r, "idle") => q = r
    /\ \A q \in Requests : ~At(q, "idle") => InHand(q)
Told ==
    /\ \A j \in Jobs : Accepted(j) => j \in Lifecycle \/ Pending("applied", j)
    /\ \A j \in restored : row[j].status = "ROLLED_BACK" \/ Pending("restored", j)
TurnInv == Sequential => Single /\ Told /\ LatestInv

Verdicts == {"applied", "restored"}
Untold == \A j \in Jobs, step \in Verdicts : ~Pending(step, j)
Telling(step, j) == \A k \in Jobs, s \in Verdicts : Pending(s, k) <=> s = step /\ k = j

Rests ==
    /\ UNCHANGED <<job, row, snapshot, restored, replaced>>
    /\ product'.image = product.image /\ product'.shown = product.shown
    /\ edits' = 0 => product' = product
    /\ \A j \in Jobs, step \in Verdicts : Pending(step, j)' <=> Pending(step, j)
Creates(j) ==
    /\ UNCHANGED external
    /\ row[j].status = "NONE" /\ row'[j].status = "REVIEW_REQUIRED" /\ row'[j].at = row[j].at
    /\ \A k \in Jobs \ {j} : row'[k] = row[k] /\ job'[k] = job[k]
    /\ \A k \in Jobs, step \in Verdicts : Pending(step, k)' <=> Pending(step, k)
Applying(j) ==
    /\ UNCHANGED <<job, row>> /\ row[j].status = "REVIEW_REQUIRED"
    /\ TakesOver(j) /\ Untold /\ Telling("applied", j)'
RollingBack(j) ==
    /\ UNCHANGED <<job, row>> /\ row[j].status = "APPLIED"
    /\ PutsBack(j) /\ Untold /\ Telling("restored", j)'
Ends(j) ==
    /\ UNCHANGED <<job, external>> /\ Untold'
    /\ \A k \in Jobs \ {j} : row'[k] = row[k]
    /\ \A k \in Jobs : row[k].at < row'[j].at
    /\ \/ Telling("applied", j) /\ row[j].status = "REVIEW_REQUIRED" /\ row'[j].status = "APPLIED"
       \/ Telling("restored", j) /\ row[j].status = "APPLIED" /\ row'[j].status = "ROLLED_BACK"
Turn ==
    \/ Rests
    \/ \E j \in Jobs : Creates(j) \/ Applying(j) \/ RollingBack(j) \/ Ends(j)

\* What is pending when one request is open.
LEMMA OnePending ==
  ASSUME NEW q \in Requests, \A r \in Requests \ {q} : At(r, "idle")
  PROVE  \A j \in Jobs, s \in Verdicts : Pending(s, j) <=> Tells(q, s) /\ request[q].job = j
  BY DEF Verdicts, Pending, Tells, At

\* The same of the next state.
LEMMA OnePendingNext ==
  ASSUME NEW q \in Requests, \A r \in Requests \ {q} : request'[r].step = "idle"
  PROVE  \A j \in Jobs, s \in Verdicts :
             Pending(s, j)' <=> Tells(q, s)' /\ request'[q].job = j
  BY DEF Verdicts, Pending, Tells, At

\* The one open request, and the row it has read.
LEMMA OneRequest ==
  ASSUME TypeInv, TurnInv, Sequential, NEW q \in Requests, ~At(q, "idle")
  PROVE  /\ \A r \in Requests \ {q} : At(r, "idle")
         /\ request[q].job \in Jobs /\ InHand(q) /\ Told
         /\ request[q].step \notin Saving => request[q].aggregate = row[request[q].job]
  BY DEF TurnInv, Single, InHand, TypeInv

\* No request has been told anything Product has not stored.
LEMMA NothingPending ==
  ASSUME TypeInv, TurnInv, Sequential, NEW q \in Requests, ~At(q, "idle"),
         request[q].step \notin Answered
  PROVE  /\ Untold
         /\ \A j \in Jobs : Accepted(j) => j \in Lifecycle
         /\ \A j \in restored : row[j].status = "ROLLED_BACK"
<1>1. Untold
  BY OneRequest, OnePending DEF Untold, Verdicts, Tells, Answered, Saving, At
<1> QED
  BY <1>1, OneRequest DEF Told, Untold, Verdicts, TypeInv

\* Steps that leave the rows and all that is stored.
LEMMA StillAlone ==
  ASSUME Single, UNCHANGED <<request, row>>
  PROVE  Single'
  BY DEF Single, InHand, At

\* When the one open request closes, none is open and nothing is pending.
LEMMA ClosesAlone ==
  ASSUME TypeInv, TurnInv, Sequential, NEW q \in Requests, ~At(q, "idle"), Close(q)
  PROVE  /\ Single' /\ Untold'
<1>1. /\ request'[q] = NoRequest
      /\ \A r \in Requests \ {q} : request'[r] = request[r] /\ request[r].step = "idle"
  BY CloseType, OneRequest DEF At
<1>2. \A r \in Requests : request'[r].step = "idle"
  BY <1>1 DEF NoRequest
<1> QED
  BY <1>2 DEF Single, Untold, Pending, Tells, At, Verdicts

\* A request that moves on stays the only one.
LEMMA MovesAlone ==
  ASSUME TypeInv, TurnInv, Sequential, NEW q \in Requests, ~At(q, "idle"), UNCHANGED row,
         request[q].step \notin Saving,
         NEW step \in Verdicts, request' = [request EXCEPT ![q].step = step]
  PROVE  /\ Single'
         /\ \A j \in Jobs, s \in Verdicts : Pending(s, j)' <=> step = s /\ request[q].job = j
<1>1. /\ request'[q].step = step /\ request'[q].job = request[q].job
      /\ request'[q].aggregate = request[q].aggregate
      /\ \A r \in Requests \ {q} : request'[r] = request[r]
  BY GotoType DEF Verdicts, Steps
<1>2. \A r \in Requests \ {q} : request'[r].step = "idle"
  BY <1>1, OneRequest DEF At
<1>3. Single'
  BY <1>1, <1>2, OneRequest DEF Single, InHand, At, Verdicts, Saving
<1> QED
  BY <1>1, <1>2, <1>3, OnePendingNext DEF Tells, Verdicts, At

\* A request that opens after the others are closed reads the row it will write.
LEMMA OpenTurns ==
  ASSUME TypeInv, TurnInv, Sequential, overlapped' = {}, NEW q \in Requests, NEW j \in Jobs,
         ReadForApply(q, j) \/ ReadForRollback(q, j)
  PROVE  Rests /\ Single'
<1>1. PICK step \in {"apply", "rollback"} : Open(q, j, step)
  BY DEF ReadForApply, ReadForRollback
<1> DEFINE new == [NoRequest EXCEPT !.step = step, !.job = j, !.aggregate = row[j]]
<1>2. /\ \A r \in Requests : At(r, "idle")
      /\ UNCHANGED <<job, row, external>> /\ request' = [request EXCEPT ![q] = new]
  BY <1>1 DEF Open
<1>3. new.step \in {"apply", "rollback"} /\ new.job = j /\ new.aggregate = row[j]
  BY DEF NoRequest
<1> HIDE DEF new
<1>4. request'[q] = new /\ \A r \in Requests \ {q} : request'[r].step = "idle"
  BY <1>2 DEF TypeInv, At
<1>5. Single'
  BY <1>2, <1>3, <1>4 DEF Single, InHand, At, Saving
<1>6. \A k \in Jobs, s \in Verdicts : ~Pending(s, k) /\ ~Pending(s, k)'
  BY <1>2, <1>3, <1>4, OnePending, OnePendingNext DEF Verdicts, Tells, At
<1> QED
  BY <1>2, <1>5, <1>6 DEF Rests, external

\* A decision about the session moves nothing else.
LEMMA ResolveTurns ==
  ASSUME TypeInv, TurnInv, Sequential, NEW q \in Requests, ResolveBoundary(q)
  PROVE  Rests /\ Single'
<1> DEFINE new == [request[q] EXCEPT !.step = "call", !.starts = (Job(q).source = CoverAsset)]
<1>1. /\ At(q, "apply") /\ ~At(q, "idle") /\ UNCHANGED <<job, row, external>>
      /\ request' = [request EXCEPT ![q] = new]
  BY DEF ResolveBoundary, At
<1>2. request \in [Requests -> Request] /\ request[q] \in Request
  BY DEF TypeInv
<1>3. new.step = "call" /\ new.job = request[q].job /\ new.aggregate = request[q].aggregate
  BY <1>2 DEF Request
<1> HIDE DEF new
<1>4. /\ request'[q] = new
      /\ \A r \in Requests \ {q} : request'[r] = request[r] /\ request'[r].step = "idle"
  BY <1>1, <1>2, OneRequest DEF At
<1>5. Single'
  BY <1>1, <1>3, <1>4, OneRequest DEF Single, InHand, At, Saving
<1>6. \A k \in Jobs, s \in Verdicts : ~Pending(s, k) /\ ~Pending(s, k)'
  BY <1>1, <1>3, <1>4, OneRequest, OnePending, OnePendingNext DEF Verdicts, Tells, At
<1> QED
  BY <1>1, <1>5, <1>6 DEF Rests, external

\* Product does not show a job under review, so the call takes the product over.
LEMMA ApplyTurns ==
  ASSUME TypeInv, RequestInv, TurnInv, Sequential, NEW q \in Requests, CallApply(q)
  PROVE  (\E j \in Jobs : Applying(j)) /\ Single'
<1>1. PICK j : j = request[q].job
  OBVIOUS
<1>2. /\ At(q, "call") /\ ~At(q, "idle") /\ request[q].step \notin Answered /\ Accept(j)
      /\ UNCHANGED <<job, row>> /\ UNCHANGED row /\ request[q].step \notin Saving
      /\ request' = [request EXCEPT ![q].step = "applied"] /\ "applied" \in Verdicts
  BY <1>1 DEF CallApply, At, Verdicts, Answered, Saving
<1>3. j \in Jobs /\ row[j].status = "REVIEW_REQUIRED"
  <2>1. request[q].aggregate.status = "REVIEW_REQUIRED"
    BY <1>2 DEF RequestInv, ApplySteps, At
  <2> QED
    BY <1>1, <1>2, <2>1, OneRequest
<1>4. Untold /\ ~Accepted(j)
  BY <1>2, <1>3, NothingPending DEF Lifecycle
<1>5. TakesOver(j)
  BY <1>2, <1>3, <1>4, AcceptEffect DEF Accepted
<1>6. Single' /\ Telling("applied", j)'
  BY <1>1, <1>2, MovesAlone DEF Telling
<1> QED
  BY <1>2, <1>3, <1>4, <1>5, <1>6 DEF Applying

\* Product shows the job whose row a rollback has read, and the row is APPLIED.
LEMMA RollbackTurns ==
  ASSUME TypeInv, TurnInv, Sequential, NEW q \in Requests, CallRollback(q)
  PROVE  (\E j \in Jobs : RollingBack(j)) /\ Single'
<1>1. PICK j : j = request[q].job
  OBVIOUS
<1>2. /\ At(q, "rollback") /\ ~At(q, "idle") /\ request[q].step \notin Answered /\ Restore(j)
      /\ UNCHANGED <<job, row>> /\ UNCHANGED row /\ request[q].step \notin Saving
      /\ "restored" \in Verdicts
  BY <1>1 DEF CallRollback, At, Verdicts, Answered, Saving
<1>3. j \in Jobs /\ row[j].status # "ROLLED_BACK" /\ request[q].aggregate = row[j]
  BY <1>1, <1>2, OneRequest DEF TypeInv
<1>4. /\ Untold /\ j \notin restored
      /\ Accepted(j) => row[j].status = "APPLIED"
  BY <1>2, <1>3, NothingPending DEF Lifecycle
<1>5. product.shown = j
  BY <1>2, <1>4 DEF Restore
<1>6. row[j].status = "APPLIED"
  BY <1>4, <1>5 DEF Accepted
<1>7. PutsBack(j)
  <2>1. ~UNCHANGED external
    BY <1>2, <1>4, <1>5 DEF Restore, external
  <2> QED
    BY <1>2, <1>3, <2>1, RestoreEffect
<1>8. request' = [request EXCEPT ![q].step = "restored"]
  BY <1>3, <1>6 DEF CallRollback
<1>9. Single' /\ Telling("restored", j)'
  BY <1>1, <1>2, <1>8, MovesAlone DEF Telling
<1> QED
  BY <1>2, <1>3, <1>4, <1>6, <1>7, <1>9 DEF RollingBack

\* transition() and the read of the row leave the rows and the product alone.
LEMMA CompleteTurns ==
  ASSUME TypeInv, RequestInv, ClockInv, TurnInv, Sequential, NEW q \in Requests,
         CompleteApply(q) \/ CompleteRollback(q)
  PROVE  Rests /\ Single'
<1>1. PICK step, status, starts :
         /\ step \in Saving /\ Complete(q, step, status, starts)
         /\ \/ At(q, "applied") /\ step = "applying"
            \/ At(q, "restored") /\ step = "restoring" /\ starts = request[q].aggregate.starts
  BY DEF CompleteApply, CompleteRollback, Saving
<1> DEFINE j == request[q].job
           completed == [status |-> status, starts |-> starts, at |-> clock + 1, day |-> today]
           record == row[j]
           new == [request[q] EXCEPT !.step = step, !.aggregate = completed, !.record = record]
<1>2. /\ request' = [request EXCEPT ![q] = new] /\ UNCHANGED <<job, row, external>> /\ UNCHANGED row
      /\ UNCHANGED external
  BY <1>1 DEF Complete
<1>3. /\ request \in [Requests -> Request] /\ request[q] \in Request /\ ~At(q, "idle")
      /\ request[q].step \notin Saving
  BY <1>1 DEF TypeInv, At, Saving
<1>4. completed.starts = starts /\ completed.at = clock + 1
  OBVIOUS
<1> HIDE DEF completed
<1>5. new.step = step /\ new.job = j /\ new.aggregate = completed /\ new.record = record
  BY <1>3 DEF Request
<1> HIDE DEF new
<1>6. /\ request'[q] = new
      /\ \A r \in Requests \ {q} : request'[r] = request[r] /\ request'[r].step = "idle"
  BY <1>2, <1>3, OneRequest DEF At
<1>7. j \in Jobs /\ request[q].aggregate = row[j]
  BY <1>3, OneRequest
<1>8. \A k \in Jobs : row[k].at < clock + 1
  <2>1. \A k \in Jobs : row[k] \in Columns /\ row[k].at <= clock /\ clock \in Nat
    BY DEF TypeInv, ClockInv
  <2> QED
    BY <2>1 DEF Columns
<1>9. /\ step = "applying" => row[j].status = "REVIEW_REQUIRED"
      /\ step = "restoring" => row[j].status = "APPLIED" /\ starts = row[j].starts
  BY <1>1, <1>7 DEF RequestInv, ApplySteps, At
<1>10. InHand(q)'
  BY <1>1, <1>2, <1>4, <1>5, <1>6, <1>7, <1>8, <1>9 DEF InHand, At
<1>11. Single'
  BY <1>6, <1>10 DEF Single, At
<1>12. \A k \in Jobs, s \in Verdicts : Pending(s, k)' <=> Pending(s, k)
  <2>1. \A s \in Verdicts : Tells(q, s)' <=> Tells(q, s)
    BY <1>1, <1>5, <1>6 DEF Tells, Verdicts, At
  <2> QED
    BY <1>3, <1>5, <1>6, <2>1, OneRequest, OnePending, OnePendingNext
<1> QED
  BY <1>2, <1>11, <1>12 DEF Rests, external

\* The row is still what the request has read, so all that it writes is written.
LEMMA SaveTurns ==
  ASSUME TypeInv, RequestInv, TurnInv, Sequential, NEW q \in Requests, Save(q)
  PROVE  (\E j \in Jobs : Ends(j)) /\ Single'
<1> DEFINE j == request[q].job
           aggregate == request[q].aggregate
<1>1. /\ request[q].step \in Saving /\ ~At(q, "idle") /\ Close(q) /\ UNCHANGED <<job, external>>
  BY DEF Save, Saving, At
<1>2. j \in Jobs /\ InHand(q)
  BY <1>1, OneRequest
<1>3. request[q].record = row[j] /\ row[j] \in Columns /\ aggregate \in Columns
  <2>1. request[q] \in Request
    BY DEF TypeInv
  <2> QED
    BY <1>1, <1>2, <2>1 DEF InHand, TypeInv, Request
<1>4. row'[j] = aggregate /\ \A k \in Jobs \ {j} : row'[k] = row[k]
  BY <1>3, SaveEffect, WriteBackWhole
<1>5. Single' /\ Untold'
  BY <1>1, ClosesAlone
<1>6. \A k \in Jobs, s \in Verdicts : Pending(s, k) <=> Tells(q, s) /\ k = j
  BY <1>1, OneRequest, OnePending
<1>7. \A k \in Jobs : row[k].at < row'[j].at
  BY <1>1, <1>2, <1>4 DEF InHand
<1>8. CASE At(q, "applying")
  <2>1. /\ row[j].status = "REVIEW_REQUIRED" /\ row'[j].status = "APPLIED"
        /\ Telling("applied", j)
    BY <1>2, <1>4, <1>6, <1>8 DEF InHand, RequestInv, Telling, Tells, Verdicts, At
  <2> QED
    BY <1>1, <1>2, <1>4, <1>5, <1>7, <2>1 DEF Ends
<1>9. CASE At(q, "restoring")
  <2>1. /\ row[j].status = "APPLIED" /\ row'[j].status = "ROLLED_BACK"
        /\ Telling("restored", j)
    BY <1>2, <1>4, <1>6, <1>9 DEF InHand, RequestInv, Telling, Tells, Verdicts, At
  <2> QED
    BY <1>1, <1>2, <1>4, <1>5, <1>7, <2>1 DEF Ends
<1> QED
  BY <1>1, <1>8, <1>9 DEF Saving, At

\* A job that is created has no request.
LEMMA CreateTurns ==
  ASSUME TypeInv, RequestInv, TurnInv, Sequential, NEW j \in Jobs, CreateJob(j)
  PROVE  Creates(j) /\ Single'
<1>1. PICK new : job' = [job EXCEPT ![j] = new]
  BY DEF CreateJob
<1>2. /\ row[j].status = "NONE" /\ row' = [row EXCEPT ![j].status = "REVIEW_REQUIRED"]
      /\ UNCHANGED external /\ UNCHANGED request
  BY DEF CreateJob
<1>3. /\ job \in [Jobs -> [source : Asset, expected : Nat]] /\ row \in [Jobs -> Columns]
      /\ row[j] \in Columns
  BY DEF TypeInv
<1>4. row'[j].status = "REVIEW_REQUIRED" /\ row'[j].at = row[j].at
      /\ \A k \in Jobs \ {j} : row'[k] = row[k] /\ job'[k] = job[k]
  BY <1>1, <1>2, <1>3 DEF Columns
<1>5. Single'
  <2>1. \A q \in Requests : ~At(q, "idle") => request[q].job \in Jobs \ {j}
    BY <1>2 DEF RequestInv, Known
  <2>2. \A k \in Jobs : row'[k].at = row[k].at
    BY <1>4
  <2>3. \A q \in Requests : ~At(q, "idle") => InHand(q)'
    BY <1>2, <1>4, <2>1, <2>2 DEF TurnInv, Single, InHand, At
  <2> QED
    BY <1>2, <2>3 DEF TurnInv, Single, At
<1>6. \A k \in Jobs, step \in Verdicts : Pending(step, k)' <=> Pending(step, k)
  BY <1>2 DEF Pending, Tells, At
<1> QED
  BY <1>2, <1>4, <1>5, <1>6 DEF Creates

\* Every step of a sequential history is in the table, and comes from one.
LEMMA StepTurns ==
  ASSUME IInv, TurnInv, [Next]_vars, Sequential'
  PROVE  Sequential /\ Turn /\ Single'
<1>1. TypeInv /\ RequestInv /\ ClockInv /\ lost \in Nat /\ overlapped' = {} /\ lost' = 0
  BY ImpactAssumption DEF IInv, TypeInv, Sequential
<1>2. Sequential /\ ~(\E q \in Requests : AnswerLost(q))
  <2>1. \A q \in Requests : ~AnswerLost(q)
    BY <1>1 DEF AnswerLost
  <2>2. Effect
    BY <1>1, StepEffect
  <2>3. lost = 0 /\ overlapped = {}
    BY <1>1, <2>2 DEF Effect
  <2> QED
    BY <2>1, <2>3 DEF Sequential
<1>3. CASE \E q \in Requests, j \in Jobs : ReadForApply(q, j) \/ ReadForRollback(q, j)
  BY <1>1, <1>2, <1>3, OpenTurns DEF Turn
<1>4. CASE \E q \in Requests : ResolveBoundary(q)
  BY <1>1, <1>2, <1>4, ResolveTurns DEF Turn
<1>5. CASE \E q \in Requests : CallApply(q)
  BY <1>1, <1>2, <1>5, ApplyTurns DEF Turn
<1>6. CASE \E q \in Requests : CallRollback(q)
  BY <1>1, <1>2, <1>6, RollbackTurns DEF Turn
<1>complete. CASE \E q \in Requests : CompleteApply(q) \/ CompleteRollback(q)
  BY <1>1, <1>2, <1>complete, CompleteTurns DEF Turn
<1>7. CASE \E q \in Requests : Save(q)
  BY <1>1, <1>2, <1>7, SaveTurns DEF Turn
<1>8. ASSUME NEW q \in Requests, ServiceRefuses(q)
      PROVE  Rests /\ Single'
  <2>1. /\ ~At(q, "idle") /\ request[q].step \notin Answered /\ Close(q)
        /\ UNCHANGED <<job, row, external>>
    BY <1>8 DEF ServiceRefuses, At, Answered, Saving
  <2>2. Untold /\ Untold' /\ Single'
    BY <1>1, <1>2, <2>1, NothingPending, ClosesAlone
  <2> QED
    BY <2>1, <2>2 DEF Rests, Untold, external
<1>9. CASE \E j \in Jobs : CreateJob(j)
  BY <1>1, <1>2, <1>9, CreateTurns DEF Turn
<1>10. ASSUME UNCHANGED <<job, row, snapshot, restored, replaced, request>>,
              product'.image = product.image, product'.shown = product.shown,
              edits' = 0 => product' = product
       PROVE  Rests /\ Single'
  <2>1. Single'
    BY <1>2, <1>10, StillAlone DEF TurnInv
  <2>2. \A j \in Jobs, step \in Verdicts : Pending(step, j)' <=> Pending(step, j)
    BY <1>10 DEF Pending, Tells, At
  <2> QED
    BY <1>10, <2>1, <2>2 DEF Rests
<1>11. CASE ChooseCover
  <2>1. edits' # 0
    BY <1>1, <1>11, ImpactAssumption DEF ChooseCover, TypeInv
  <2>2. product'.image = product.image /\ product'.shown = product.shown
    BY <1>1, <1>11 DEF ChooseCover, TypeInv, Product
  <2> QED
    BY <1>2, <1>10, <1>11, <2>1, <2>2 DEF ChooseCover, Turn
<1>12. CASE NextDay \/ Visit \/ UNCHANGED vars
  BY <1>2, <1>10, <1>12 DEF NextDay, Visit, vars, external, Turn
<1> QED
  BY <1>2, <1>3, <1>4, <1>5, <1>6, <1>complete, <1>7, <1>8, <1>9, <1>11, <1>12
  DEF Next, RequestStep, Turn

\* A row that is written gets later than all.
LEMMA TimesHold ==
  ASSUME TypeInv, TypeInv', LatestInv, Turn
  PROVE  LatestInv'
<1>1. /\ \A j \in Jobs : row[j].at \in Nat /\ row'[j].at \in Nat
      /\ Lifecycle \subseteq Jobs /\ Lifecycle' \subseteq Jobs
  BY DEF TypeInv, Columns, Lifecycle
<1>2. CASE UNCHANGED row
  BY <1>2 DEF LatestInv, Lifecycle
<1>3. ASSUME NEW i \in Jobs, Creates(i) PROVE LatestInv'
  <2>1. Lifecycle' = Lifecycle /\ \A j \in Lifecycle : row'[j] = row[j]
    BY <1>3 DEF Creates, Lifecycle
  <2> QED
    BY <2>1 DEF LatestInv
<1>4. ASSUME NEW i \in Jobs, Ends(i) PROVE LatestInv'
  <2>1. \A m \in Lifecycle' : m # i => m \in Lifecycle /\ row'[m] = row[m] /\ row'[m].at < row'[i].at
    BY <1>1, <1>4 DEF Ends, Lifecycle
  <2> QED
    BY <1>1, <1>4, <2>1 DEF LatestInv
<1> QED
  BY <1>2, <1>3, <1>4 DEF Turn, Rests, Applying, RollingBack

\* A told request is the last word: what Product has accepted is in the rows, or
\* about to be written there.
LEMMA TurnHolds ==
  ASSUME IInv, IInv', GrantedInv, TurnInv, [Next]_vars
  PROVE  TurnInv'
<1> SUFFICES ASSUME Sequential' PROVE Single' /\ Told' /\ LatestInv'
  BY DEF TurnInv
<1>1. Sequential /\ Turn /\ Single'
  BY StepTurns
<1>2. Told /\ TypeInv /\ NoJob \notin Jobs
  BY <1>1, ImpactAssumption DEF TurnInv, IInv
<1>times. LatestInv'
  BY <1>1, TimesHold DEF TurnInv, IInv
<1>3. restored \subseteq Jobs
  BY <1>2 DEF TypeInv
<1>4. ASSUME Rests PROVE Told'
  <2>1. \A j \in Jobs : Accepted(j)' <=> Accepted(j)
    BY <1>4 DEF Rests, Accepted
  <2>2. Lifecycle' = Lifecycle
    BY <1>4 DEF Rests, Lifecycle
  <2>3. \A j \in Jobs : (Pending("applied", j)' <=> Pending("applied", j))
                        /\ (Pending("restored", j)' <=> Pending("restored", j))
    BY <1>4 DEF Rests, Verdicts
  <2>4. \A j \in Jobs : Accepted(j)' => j \in Lifecycle' \/ Pending("applied", j)'
    BY <1>2, <2>1, <2>2, <2>3 DEF Told
  <2>5. \A j \in restored' : row'[j].status = "ROLLED_BACK" \/ Pending("restored", j)'
    BY <1>2, <1>3, <1>4, <2>3 DEF Told, Rests
  <2> QED
    BY <2>4, <2>5 DEF Told
<1>5. ASSUME NEW i \in Jobs, Creates(i) PROVE Told'
  <2>1. /\ \A j \in Jobs : Accepted(j)' <=> Accepted(j)
        /\ restored' = restored
    BY <1>5 DEF Creates, external, Accepted
  <2>2. Lifecycle' = Lifecycle /\ \A j \in Jobs \ {i} : row'[j] = row[j]
    BY <1>5 DEF Creates, Lifecycle
  <2>3. \A j \in Jobs : (Pending("applied", j)' <=> Pending("applied", j))
                        /\ (Pending("restored", j)' <=> Pending("restored", j))
    BY <1>5 DEF Creates, Verdicts
  <2>4. \A j \in Jobs : Accepted(j)' => j \in Lifecycle' \/ Pending("applied", j)'
    BY <1>2, <2>1, <2>2, <2>3 DEF Told
  <2>5. row[i].status # "ROLLED_BACK"
    BY <1>5 DEF Creates
  <2>6. \A j \in restored' : row'[j].status = "ROLLED_BACK" \/ Pending("restored", j)'
    BY <1>2, <1>3, <2>1, <2>2, <2>3, <2>5 DEF Told
  <2> QED
    BY <2>4, <2>6 DEF Told
<1>6. ASSUME NEW i \in Jobs, Applying(i) PROVE Told'
  <2>1. \A j \in Jobs : Accepted(j) => j \in Lifecycle
    BY <1>2, <1>6 DEF Told, Applying, Untold, Verdicts
  <2>2. \A j \in restored : row[j].status = "ROLLED_BACK"
    BY <1>2, <1>3, <1>6 DEF Told, Applying, Untold, Verdicts
  <2>3. \A j \in Jobs : Accepted(j)' => Accepted(j) \/ j = i
    BY <1>6 DEF Applying, TakesOver, Accepted
  <2>4. Lifecycle' = Lifecycle /\ restored' = restored /\ row' = row
    BY <1>6 DEF Applying, TakesOver, Lifecycle
  <2>5. Pending("applied", i)'
    BY <1>6 DEF Applying, Telling, Verdicts
  <2> QED
    BY <2>1, <2>2, <2>3, <2>4, <2>5 DEF Told
<1>7. ASSUME NEW i \in Jobs, RollingBack(i) PROVE Told'
  <2>1. \A j \in Jobs : Accepted(j) => j \in Lifecycle
    BY <1>2, <1>7 DEF Told, RollingBack, Untold, Verdicts
  <2>2. \A j \in restored : row[j].status = "ROLLED_BACK"
    BY <1>2, <1>3, <1>7 DEF Told, RollingBack, Untold, Verdicts
  <2>3. \A j \in Jobs : Accepted(j)' => Accepted(j)
    BY <1>2, <1>7 DEF RollingBack, PutsBack, Accepted
  <2>4. Lifecycle' = Lifecycle /\ restored' = restored \cup {i} /\ row' = row
    BY <1>7 DEF RollingBack, PutsBack, Lifecycle
  <2>5. Pending("restored", i)'
    BY <1>7 DEF RollingBack, Telling, Verdicts
  <2> QED
    BY <2>1, <2>2, <2>3, <2>4, <2>5 DEF Told
<1>8. ASSUME NEW i \in Jobs, Ends(i) PROVE Told'
  <2>1. /\ \A j \in Jobs : Accepted(j)' <=> Accepted(j)
        /\ restored' = restored
    BY <1>8 DEF Ends, external, Accepted
  <2>2. Lifecycle' = Lifecycle \cup {i}
    BY <1>8 DEF Ends, Lifecycle
  <2>3. \A j \in Jobs \ {i} : ~Pending("applied", j) /\ ~Pending("restored", j)
    BY <1>8 DEF Ends, Telling, Verdicts
  <2>4. \A j \in Jobs : Accepted(j)' => j \in Lifecycle'
    BY <1>2, <2>1, <2>2, <2>3 DEF Told
  <2>5. i \in restored => row'[i].status = "ROLLED_BACK"
    BY <1>2, <1>8 DEF Told, Ends, Telling, Verdicts
  <2>6. \A j \in restored' : row'[j].status = "ROLLED_BACK"
    BY <1>2, <1>3, <1>8, <2>1, <2>3, <2>5 DEF Told, Ends
  <2> QED
    BY <2>4, <2>6 DEF Told
<1> QED
  BY <1>1, <1>times, <1>4, <1>5, <1>6, <1>7, <1>8 DEF Turn

-----------------------------------------------------------------------------
(* What the reports lean on.  The row completed last, if it is APPLIED, is  *)
(* the job whose image was put in its slot last; and unless the seller moved *)
(* the cover, the session that started last has its image there, and the    *)
(* applies since have found it there.                                       *)

NewestInv ==
    Sequential =>
        /\ \A j \in Jobs : Pending("applied", j) => product.image[Slot(j)] = j
        /\ Untold =>
               \A j \in Jobs :
                   IsLatest(j, Lifecycle) /\ row[j].status = "APPLIED" => product.image[Slot(j)] = j

CoverFits(j) ==
    /\ product.image[product.cover] = j
    /\ \A k \in Jobs : Accepted(k) /\ Rank(j) < Rank(k) => snapshot[k].image[product.cover] = j
CoverInv ==
    Sequential /\ edits = 0 =>
        /\ \A j \in replaced : Slot(j) = product.cover
        /\ \A j \in Jobs : Accepted(j) /\ Slot(j) = product.cover => j \in replaced
        /\ \A j \in Jobs : Pending("applied", j) => product.version = Rank(j) + 1
        /\ (\A j \in replaced, step \in Verdicts : ~Pending(step, j)) =>
               \A j \in Jobs :
                   IsLatest(j, Starting) /\ row[j].status = "APPLIED" => CoverFits(j)

\* A save follows its call, with no other call in between.
LEMMA NewestHolds ==
  ASSUME IInv, IInv', TurnInv, NewestInv, [Next]_vars
  PROVE  NewestInv'
<1> SUFFICES ASSUME Sequential'
             PROVE  /\ \A j \in Jobs : Pending("applied", j)' => product'.image[Slot(j)'] = j
                    /\ Untold' =>
                         \A j \in Jobs : IsLatest(j, Lifecycle)' /\ row'[j].status = "APPLIED"
                                             => product'.image[Slot(j)'] = j
  BY DEF NewestInv
<1>1. Sequential /\ Turn /\ TypeInv /\ RequestInv
  BY StepTurns DEF IInv
<1>2. /\ \A j \in Jobs : Pending("applied", j) => product.image[Slot(j)] = j
      /\ Untold => \A j \in Jobs : IsLatest(j, Lifecycle) /\ row[j].status = "APPLIED"
                                       => product.image[Slot(j)] = j
  BY <1>1 DEF NewestInv
<1>3. CASE Rests
  <2>1. /\ \A j \in Jobs : Slot(j)' = Slot(j) /\ (IsLatest(j, Lifecycle)' <=> IsLatest(j, Lifecycle))
        /\ row' = row /\ product'.image = product.image
    BY <1>3 DEF Rests, Slot, IsLatest, Lifecycle
  <2>2. (Untold' <=> Untold) /\ \A j \in Jobs : Pending("applied", j)' <=> Pending("applied", j)
    BY <1>3 DEF Rests, Untold, Verdicts
  <2> QED
    BY <1>2, <2>1, <2>2
<1>4. ASSUME NEW i \in Jobs, Creates(i)
      PROVE  /\ \A j \in Jobs : Pending("applied", j)' => product'.image[Slot(j)'] = j
             /\ Untold' => \A j \in Jobs : IsLatest(j, Lifecycle)' /\ row'[j].status = "APPLIED"
                                               => product'.image[Slot(j)'] = j
  <2>1. /\ product'.image = product.image /\ Lifecycle' = Lifecycle
        /\ \A j \in Jobs \ {i} : Slot(j)' = Slot(j) /\ row'[j] = row[j]
        /\ i \notin Lifecycle
    BY <1>4 DEF Creates, external, Slot, Lifecycle
  <2>2. ~Pending("applied", i)
    BY <1>1, <1>4 DEF RequestInv, Pending, Tells, Known, Creates, At
  <2>3. (Untold' <=> Untold) /\ \A j \in Jobs : Pending("applied", j)' <=> Pending("applied", j)
    BY <1>4 DEF Creates, Untold, Verdicts
  <2>4. \A j \in Jobs : IsLatest(j, Lifecycle)' => j # i /\ IsLatest(j, Lifecycle)
    BY <1>4, <2>1 DEF IsLatest, Creates, Lifecycle
  <2> QED
    BY <1>2, <2>1, <2>2, <2>3, <2>4
<1>5. ASSUME NEW i \in Jobs, Applying(i)
      PROVE  /\ \A j \in Jobs : Pending("applied", j)' => product'.image[Slot(j)'] = j
             /\ ~Untold'
  <2>1. (\A j \in Jobs : Pending("applied", j)' <=> j = i) /\ ~Untold'
    BY <1>5 DEF Applying, Telling, Untold, Verdicts
  <2>2. product'.image[Slot(i)'] = i
    BY <1>1, <1>5, HistoryTypes DEF Applying, TakesOver, Slot, Gallery
  <2> QED
    BY <2>1, <2>2
<1>6. ASSUME NEW i \in Jobs, RollingBack(i)
      PROVE  (\A j \in Jobs : ~Pending("applied", j)') /\ ~Untold'
  BY <1>6 DEF RollingBack, Telling, Untold, Verdicts
<1>7. ASSUME NEW i \in Jobs, Ends(i), NEW j \in Jobs
      PROVE  /\ ~Pending("applied", j)'
             /\ IsLatest(j, Lifecycle)' /\ row'[j].status = "APPLIED" => product'.image[Slot(j)'] = j
  <2>1. i \in Lifecycle' /\ Slot(j)' = Slot(j) /\ product'.image = product.image
    BY <1>7 DEF Ends, Lifecycle, Slot, external
  <2>2. \A k \in Jobs : row[k].at \in Nat /\ row'[k].at \in Nat
    BY DEF IInv, TypeInv, Columns
  <2>3. IsLatest(j, Lifecycle)' => j = i
    <3>1. IsLatest(j, Lifecycle)' => row'[i].at <= row'[j].at
      BY <2>1 DEF IsLatest
    <3>2. j # i => row'[j].at < row'[i].at
      BY <1>7, <2>2 DEF Ends
    <3> QED
      BY <2>2, <3>1, <3>2
  <2>4. row'[i].status = "APPLIED" => Pending("applied", i)
    BY <1>7 DEF Ends, Telling, Verdicts
  <2>5. ~Pending("applied", j)'
    BY <1>7 DEF Ends, Untold, Verdicts
  <2> QED
    BY <1>2, <2>1, <2>3, <2>4, <2>5
<1> QED
  BY <1>1, <1>3, <1>4, <1>5, <1>6, <1>7 DEF Turn
\* What a step leaves of a session: its job, its place in the rows and its cover.
LEMMA CoverHolds ==
  ASSUME IInv, IInv', GrantedInv, FreshInv, TurnInv, NewestInv, CoverInv, [Next]_vars
  PROVE  CoverInv'
<1> DEFINE Calm == \A j \in replaced, step \in Verdicts : ~Pending(step, j)
           Sits(j) == IsLatest(j, Starting) /\ row[j].status = "APPLIED" => CoverFits(j)
<1> SUFFICES ASSUME Sequential', edits' = 0
             PROVE  /\ \A j \in replaced' : Slot(j)' = product'.cover
                    /\ \A j \in Jobs : Accepted(j)' /\ Slot(j)' = product'.cover => j \in replaced'
                    /\ \A j \in Jobs : Pending("applied", j)' => product'.version = Rank(j)' + 1
                    /\ Calm' => \A j \in Jobs : Sits(j)'
  BY DEF CoverInv
<1>1. /\ Sequential /\ Turn /\ TypeInv /\ TypeInv' /\ RequestInv /\ HistoryInv
      /\ WrittenInv /\ WrittenInv' /\ MarkedInv'
  BY StepTurns DEF IInv
<1>2. edits = 0
  <2>1. edits \in Nat
    BY <1>1, ImpactAssumption DEF TypeInv
  <2>2. edits' = edits \/ edits' = edits + 1
    BY DEF Next, RequestStep, ReadForApply, ReadForRollback, Open, ResolveBoundary, CallApply,
           CallRollback, CompleteApply, CompleteRollback, Complete, Save, ServiceRefuses,
           AnswerLost, CreateJob,
           ChooseCover, NextDay, Visit, vars, counters
  <2> QED
    BY <2>1, <2>2
<1>3. /\ \A j \in replaced : Slot(j) = product.cover
      /\ \A j \in Jobs : Accepted(j) /\ Slot(j) = product.cover => j \in replaced
      /\ \A j \in Jobs : Pending("applied", j) => product.version = Rank(j) + 1
      /\ Calm => \A j \in Jobs : Sits(j)
  BY <1>1, <1>2 DEF CoverInv
<1>4. /\ replaced \subseteq Jobs /\ replaced' \subseteq Jobs /\ restored \subseteq Jobs
      /\ \A j \in Jobs : row[j].at \in Nat /\ row'[j].at \in Nat
      /\ \A j \in Jobs : row[j].starts \in BOOLEAN /\ row'[j].starts \in BOOLEAN
      /\ \A j \in replaced : Accepted(j)
      /\ \A j \in Jobs : Accepted(j) => Known(j) /\ Rank(j) < product.version
      /\ \A j \in Jobs : Rank(j) \in Nat
      /\ product.version \in Nat
  BY <1>1, HistoryTypes DEF TypeInv, Columns, HistoryInv, OrderInv
<1>5. \A j \in Starting : j \in Jobs /\ Accepted(j) /\ j \in replaced
  <2>1. \A j \in Starting : j \in Lifecycle /\ row[j].starts = TRUE /\ j \in Jobs
    BY <1>4 DEF Starting, Lifecycle
  <2> QED
    BY <1>1, <2>1 DEF WrittenInv, GrantedInv
<1> DEFINE Goal == /\ \A j \in replaced' : Slot(j)' = product'.cover
                   /\ \A j \in Jobs : Accepted(j)' /\ Slot(j)' = product'.cover => j \in replaced'
                   /\ \A j \in Jobs : Pending("applied", j)' => product'.version = Rank(j)' + 1
                   /\ Calm' => \A j \in Jobs : Sits(j)'
<1>6. CASE Rests
  <2>1. UNCHANGED <<job, row, product, snapshot, restored, replaced>>
    BY <1>6 DEF Rests
  <2>2. \A j \in Jobs : /\ Slot(j)' = Slot(j) /\ Rank(j)' = Rank(j)
                        /\ Accepted(j)' <=> Accepted(j)
    BY <2>1 DEF Slot, Rank, Accepted
  <2>3. \A j \in Jobs, step \in Verdicts : Pending(step, j)' <=> Pending(step, j)
    BY <1>6 DEF Rests
  <2>4. \A j \in Jobs : Sits(j)' <=> Sits(j)
    BY <2>1, <2>2 DEF IsLatest, Starting, Lifecycle, CoverFits, Rank
  <2>5. Calm' => Calm
    BY <1>4, <2>1, <2>3
  <2>6. \A j \in Jobs : Pending("applied", j)' <=> Pending("applied", j)
    BY <2>3 DEF Verdicts
  <2> HIDE DEF Calm, Sits
  <2> QED
    BY <1>3, <1>4, <2>1, <2>2, <2>4, <2>5, <2>6
<1>7. ASSUME NEW i \in Jobs, Creates(i) PROVE Goal
  <2>1. UNCHANGED <<product, snapshot, restored, replaced>> /\ ~Known(i) /\ i \notin Lifecycle
        /\ Lifecycle' = Lifecycle
        /\ \A j \in Jobs \ {i} : row'[j] = row[j] /\ job'[j] = job[j]
    BY <1>7 DEF Creates, external, Known, Lifecycle
  <2>2. /\ \A j \in Jobs : Accepted(j)' <=> Accepted(j)
        /\ \A j \in Jobs : Accepted(j) => j # i /\ Slot(j)' = Slot(j) /\ Rank(j)' = Rank(j)
    BY <1>4, <2>1 DEF Slot, Rank, Accepted
  <2>3. \A j \in Jobs : (Pending("applied", j)' <=> Pending("applied", j)) /\ ~Pending("applied", i)
    BY <1>1, <1>7, <2>1 DEF Creates, Verdicts, RequestInv, Pending, Tells, At
  <2>4. Calm' => Calm
    BY <1>4, <1>7, <2>1 DEF Creates
  <2>5. Starting' = Starting
    BY <1>4, <2>1 DEF Starting, Lifecycle
  <2>6. ASSUME NEW j \in Jobs, Sits(j) PROVE Sits(j)'
    <3> SUFFICES ASSUME IsLatest(j, Starting)', row'[j].status = "APPLIED" PROVE CoverFits(j)'
      OBVIOUS
    <3>1. j \in Starting /\ j # i
      BY <1>5, <2>2, <2>5 DEF IsLatest
    <3>2. IsLatest(j, Starting) /\ row[j].status = "APPLIED"
      BY <1>5, <2>1, <2>2, <2>5, <3>1 DEF IsLatest
    <3>3. CoverFits(j)
      BY <2>6, <3>2
    <3>4. \A k \in Jobs : Accepted(k) => Rank(k)' = Rank(k)
      BY <2>2
    <3>5. Rank(j)' = Rank(j)
      BY <1>5, <2>2, <3>1
    <3> QED
      BY <2>1, <2>2, <3>3, <3>4, <3>5 DEF CoverFits
  <2>7. \A j \in Jobs \ {i} : Rank(j)' = Rank(j)
    BY <2>1 DEF Rank
  <2> HIDE DEF Calm, Sits
  <2> QED
    BY <1>3, <1>4, <2>1, <2>2, <2>3, <2>4, <2>6, <2>7
<1>8. ASSUME NEW i \in Jobs, Applying(i) PROVE Goal
  <2>1. /\ UNCHANGED <<job, row>> /\ TakesOver(i) /\ product'.cover = product.cover
        /\ product.version = Rank(i) /\ product'.version = Rank(i) + 1
        /\ Known(i) /\ Untold
    BY <1>8 DEF Applying, TakesOver, Rank, Known
  <2>2. \A j \in Jobs : Slot(j)' = Slot(j) /\ Rank(j)' = Rank(j)
    BY <2>1 DEF Slot, Rank
  <2>3. \A j \in Jobs : Accepted(j)' => Accepted(j) \/ j = i
    BY <2>1 DEF TakesOver, Accepted
  <2>4. /\ i \in replaced' <=> i \in replaced \/ job[i].source = CoverAsset
        /\ \A j \in Jobs \ {i} : j \in replaced' <=> j \in replaced
    BY <2>1 DEF TakesOver
  <2>5. i \notin replaced /\ ~Accepted(i)
    BY <1>4, <2>1
  <2>6. i \in replaced' <=> Slot(i) = product.cover
    <3>1. job[i].source = AssetAt(Slot(i))
      BY <2>1 DEF FreshInv
    <3> QED
      BY <2>4, <2>5, <3>1 DEF CoverAsset, AssetAt, Slot
  <2>7. \A j \in Jobs : Pending("applied", j)' <=> j = i
    BY <1>8 DEF Applying, Telling, Verdicts
  <2>8. \A j \in replaced' : Slot(j)' = product'.cover
    BY <1>3, <1>4, <2>1, <2>2, <2>4, <2>6
  <2>9. \A j \in Jobs : Accepted(j)' /\ Slot(j)' = product'.cover => j \in replaced'
    BY <1>3, <2>1, <2>2, <2>3, <2>4, <2>6
  <2>10. ASSUME Calm', NEW j \in Jobs, IsLatest(j, Starting)', row'[j].status = "APPLIED"
         PROVE  CoverFits(j)'
    <3>1. i \notin replaced'
      BY <2>7, <2>10 DEF Verdicts
    <3>2. Calm
      BY <1>4, <2>1 DEF Untold
    <3>3. IsLatest(j, Starting) /\ row[j].status = "APPLIED"
      BY <2>1, <2>10 DEF IsLatest, Starting, Lifecycle
    <3>4. CoverFits(j)
      BY <1>3, <3>2, <3>3
    <3>5. product.image \in Gallery /\ product.cover \in Slots /\ Slot(i) \in Slots
      BY <1>1, HistoryTypes DEF TypeInv, Product, Slot
    <3>6. product'.image[product.cover] = j
      BY <2>1, <2>6, <3>1, <3>4, <3>5 DEF CoverFits, TakesOver, Slot, Gallery
    <3>7. \A k \in Jobs : Accepted(k)' /\ Rank(j)' < Rank(k)' => snapshot'[k].image[product.cover] = j
      <4> SUFFICES ASSUME NEW k \in Jobs, Accepted(k)', Rank(j)' < Rank(k)'
                   PROVE  snapshot'[k].image[product.cover] = j
        OBVIOUS
      <4>1. CASE k = i
        BY <2>1, <3>4, <4>1 DEF CoverFits, TakesOver
      <4>2. CASE k # i
        <5>1. Accepted(k) /\ snapshot'[k] = snapshot[k] /\ Rank(j) < Rank(k)
          BY <2>1, <2>2, <2>3, <4>2 DEF TakesOver
        <5> QED
          BY <3>4, <5>1 DEF CoverFits
      <4> QED
        BY <4>1, <4>2
    <3> QED
      BY <2>1, <3>6, <3>7 DEF CoverFits
  <2> HIDE DEF Calm
  <2> QED
    BY <2>1, <2>2, <2>7, <2>8, <2>9, <2>10
<1>9. ASSUME NEW i \in Jobs, RollingBack(i) PROVE Goal
  <2>1. /\ UNCHANGED <<job, row>> /\ PutsBack(i) /\ Untold /\ row[i].status = "APPLIED"
        /\ product'.cover = product.cover /\ UNCHANGED <<snapshot, replaced>>
    BY <1>9 DEF RollingBack, PutsBack
  <2>2. \A j \in Jobs : Slot(j)' = Slot(j) /\ Rank(j)' = Rank(j)
    BY <2>1 DEF Slot, Rank
  <2>3. \A j \in Jobs : Accepted(j)' => Accepted(j)
    BY <2>1, <1>1, HistoryTypes DEF PutsBack, Accepted
  <2>4. \A j \in Jobs : ~Pending("applied", j)' /\ Pending("restored", i)'
    BY <1>9 DEF RollingBack, Telling, Verdicts
  <2>5. ASSUME Calm', NEW j \in Jobs, IsLatest(j, Starting)', row'[j].status = "APPLIED"
         PROVE  CoverFits(j)'
    <3>1. i \notin replaced
      BY <2>1, <2>4, <2>5 DEF Verdicts
    <3>2. Calm
      BY <1>4, <2>1 DEF Untold
    <3>3. IsLatest(j, Starting) /\ row[j].status = "APPLIED" /\ j \in Starting
      BY <2>1, <2>5 DEF IsLatest, Starting, Lifecycle
    <3>4. CoverFits(j) /\ Accepted(j) /\ j \in replaced /\ j # i
      BY <1>3, <1>5, <3>1, <3>2, <3>3
    <3>5. j \notin restored
      BY <1>1, <2>1, <3>3 DEF TurnInv, Told, Untold, Verdicts
    <3>6. Rank(j) < Rank(i) /\ Accepted(i)
      <4>1. product.shown = i /\ Accepted(i)
        BY <2>1 DEF PutsBack, Accepted
      <4>2. ~(Rank(i) < Rank(j))
        BY <1>1, <3>4, <3>5, <4>1 DEF HistoryInv, StackInv
      <4>3. Rank(i) # Rank(j)
        BY <1>1, <3>4, <4>1 DEF HistoryInv, OrderInv
      <4> QED
        BY <1>4, <4>1, <4>2, <4>3
    <3>7. product'.image[product.cover] = j
      BY <2>1, <3>4, <3>6 DEF CoverFits, PutsBack
    <3> QED
      BY <2>1, <2>2, <2>3, <3>4, <3>7 DEF CoverFits
  <2> HIDE DEF Calm
  <2> QED
    BY <1>3, <1>4, <2>1, <2>2, <2>3, <2>4, <2>5
<1>10. ASSUME NEW i \in Jobs, Ends(i) PROVE Goal
  <2>1. /\ UNCHANGED <<job, product, snapshot, restored, replaced>>
        /\ \A j \in Jobs \ {i} : row'[j] = row[j]
        /\ \A j \in Jobs : row[j].at < row'[i].at
        /\ i \in Lifecycle'
    BY <1>10 DEF Ends, external, Lifecycle
  <2>2. \A j \in Jobs : /\ Slot(j)' = Slot(j) /\ Rank(j)' = Rank(j)
                        /\ Accepted(j)' <=> Accepted(j)
    BY <2>1 DEF Slot, Rank, Accepted
  <2>3. /\ \A j \in Jobs : ~Pending("applied", j)'
        /\ \A j \in Jobs \ {i}, step \in Verdicts : ~Pending(step, j)
    BY <1>10 DEF Ends, Untold, Telling, Verdicts
  <2>4. row'[i].starts = TRUE <=> i \in replaced
    <3>1. lost' = 0 /\ Alone(i)' /\ ~\E q \in Requests : Marks(q, i)'
      BY <2>3 DEF Sequential, Pending, Tells, Marks, Alone, At
    <3> QED
      BY <1>1, <2>1, <3>1 DEF WrittenInv, MarkedInv
  <2>5. ASSUME NEW j \in Jobs, IsLatest(j, Starting)', row'[j].status = "APPLIED"
        PROVE  CoverFits(j)
    <3>1. CASE i \in replaced
      <4>1. i \in Starting'
        BY <2>1, <2>4, <3>1 DEF Starting
      <4>2. j = i
        <5>1. row'[i].at <= row'[j].at
          BY <2>5, <4>1 DEF IsLatest
        <5>2. j # i => row'[j].at < row'[i].at
          BY <2>1
        <5> QED
          BY <1>4, <5>1, <5>2
      <4>3. Pending("applied", i)
        BY <1>10, <2>5, <4>2 DEF Ends, Telling, Verdicts
      <4>4. product.version = Rank(i) + 1 /\ product.image[Slot(i)] = i /\ Slot(i) = product.cover
        BY <1>1, <1>3, <3>1, <4>3 DEF NewestInv
      <4>5. \A k \in Jobs : Accepted(k) => ~(Rank(i) < Rank(k))
        BY <1>4, <4>4
      <4> QED
        BY <4>2, <4>4, <4>5 DEF CoverFits
    <3>2. CASE i \notin replaced
      <4>1. Calm
        BY <1>4, <2>3, <3>2
      <4>2. row'[i].starts = FALSE /\ i \notin Starting
        BY <1>4, <1>5, <2>4, <3>2
      <4>3. Starting' = Starting
        BY <2>1, <4>2 DEF Starting, Lifecycle
      <4>4. j \in Starting /\ j # i
        BY <2>5, <4>2, <4>3 DEF IsLatest
      <4>5. IsLatest(j, Starting) /\ row[j].status = "APPLIED"
        BY <1>5, <2>1, <2>5, <4>2, <4>3, <4>4 DEF IsLatest
      <4> QED
        BY <1>3, <4>1, <4>5
    <3> QED
      BY <3>1, <3>2
  <2>6. \A j \in Jobs : CoverFits(j)' <=> CoverFits(j)
    BY <2>1, <2>2 DEF CoverFits
  <2> HIDE DEF Calm
  <2> QED
    BY <1>3, <1>4, <2>1, <2>2, <2>3, <2>5, <2>6
<1> QED
  BY <1>1, <1>6, <1>7, <1>8, <1>9, <1>10 DEF Turn

\* At first nothing is known, told or shown.
LEMMA ReportsInit == Init => GrantedInv /\ FreshInv /\ TurnInv /\ NewestInv /\ CoverInv
<1> SUFFICES ASSUME Init PROVE GrantedInv /\ FreshInv /\ TurnInv /\ NewestInv /\ CoverInv
  OBVIOUS
<1>1. /\ \A j \in Jobs : row[j].status = "NONE" /\ ~Known(j)
      /\ \A q \in Requests : request[q].step = "idle"
      /\ restored = {} /\ replaced = {} /\ Lifecycle = {} /\ Starting = {}
  BY DEF Init, NoColumns, NoRequest, Known, Lifecycle, Starting
<1>2. \A j \in Jobs : ~Accepted(j)
  BY InitIInv, <1>1 DEF IInv, HistoryInv, OrderInv
<1>3. \A j \in Jobs : ~Pending("applied", j)
  BY <1>1 DEF Pending, Tells, At
<1> QED
  BY <1>1, <1>2, <1>3 DEF GrantedInv, FreshInv, TurnInv, Single, Told, LatestInv, NewestInv, CoverInv,
                          IsLatest, At

\* sqlalchemy_repository.py:180 and 210 against the product: for any number of
\* jobs, images and requests that come one after the other and get their answers, a
\* product counted as optimized has a job's image, and the session compared is
\* the cover's unless the seller moved it.
THEOREM ReportsAgree == Spec => []ReportsMatchProduct
<1>1. IInv /\ TurnInv /\ NewestInv /\ CoverInv => ReportsMatchProduct
  <2> SUFFICES ASSUME IInv, TurnInv, NewestInv, CoverInv,
                      overlapped = {}, lost = 0, \A q \in Requests : At(q, "idle")
               PROVE  /\ CountedApplied => \E s \in Slots : product.image[s] # NoJob
                      /\ edits = 0 /\ Session # NoJob /\ row[Session].status = "APPLIED" =>
                             product.image[product.cover] = Session
    BY DEF ReportsMatchProduct
  <2>1. /\ Sequential /\ TypeInv /\ ClockInv /\ NoJob \notin Jobs /\ replaced \subseteq Jobs
        /\ \A j \in Jobs, step \in Verdicts : ~Pending(step, j)
        /\ Lifecycle \subseteq Jobs /\ Starting \subseteq Jobs
    BY ImpactAssumption DEF Sequential, Verdicts, Pending, Tells, At, IInv, TypeInv, Lifecycle, Starting
  <2>times. LatestInv
    BY <2>1 DEF TurnInv
  <2>2. ASSUME CountedApplied PROVE \E s \in Slots : product.image[s] # NoJob
    <3>1. PICK j \in Jobs : IsLatest(j, Lifecycle)
      BY <2>1, <2>2, HasLatest DEF CountedApplied
    <3>2. row[j].status = "APPLIED"
      BY <2>1, <2>times, <2>2, <3>1, SessionIs DEF CountedApplied
    <3>3. product.image[Slot(j)] = j
      BY <2>1, <3>1, <3>2 DEF NewestInv, Untold
    <3> QED
      BY <2>1, <3>3, HistoryTypes DEF Slot
  <2>3. ASSUME edits = 0, Session # NoJob, row[Session].status = "APPLIED"
        PROVE  product.image[product.cover] = Session
    <3>1. PICK j \in Jobs : IsLatest(j, Starting)
      BY <2>1, <2>3, SessionAmong, HasLatest
    <3>2. Session = j
      BY <2>1, <2>times, <3>1, SessionIs
    <3>3. CoverFits(j)
      BY <2>1, <2>3, <3>1, <3>2 DEF CoverInv
    <3> QED
      BY <3>2, <3>3 DEF CoverFits
  <2> QED
    BY <2>2, <2>3
<1>2. IInv /\ IInv' /\ GrantedInv /\ FreshInv /\ TurnInv /\ NewestInv /\ CoverInv /\ [Next]_vars
        => GrantedInv' /\ FreshInv' /\ TurnInv' /\ NewestInv' /\ CoverInv'
  <2> SUFFICES ASSUME IInv, IInv', GrantedInv, FreshInv, TurnInv, NewestInv, CoverInv, [Next]_vars
               PROVE  GrantedInv' /\ FreshInv' /\ TurnInv' /\ NewestInv' /\ CoverInv'
    OBVIOUS
  <2>1. Effect
    BY StepEffect DEF IInv
  <2> QED
    BY <2>1, GrantedHolds, FreshHolds, TurnHolds, NewestHolds, CoverHolds
<1> QED
  BY <1>1, <1>2, ReportsInit, Invariance, PTL DEF Spec
=============================================================================
