----------------------- MODULE EmbeddingWorkerProofs -----------------------
(***************************************************************************)
(* Theorems about EmbeddingWorker, for every number of items, workers,     *)
(* messages and faults.                                                    *)
(***************************************************************************)
EXTENDS EmbeddingWorker, TLAPS, FiniteSetTheorems

-----------------------------------------------------------------------------
(* Types: a busy worker has a message of the partition, and only a request *)
(* that was parsed reaches the provider, the cache and the producer.       *)

BusySteps == {"parse", "call", "store", "publish", "reject", "commit"}
Busy(w) == ~At(w, "next")

WorkerType ==
    /\ worker \in [Workers -> {Free} \cup [step : BusySteps, at : 1..Len(log)]]
    /\ \A w \in Workers : worker[w].step \in {"call", "store", "publish"} => Message(w) \in Items

TypeInv ==
    /\ log \in Seq(Items \cup {Malformed}) /\ Len(log) <= MaxLog
    /\ committed \in 0..Len(log)
    /\ position \in 0..Len(log)
    /\ owner \in Workers
    /\ WorkerType
    /\ joined \in BOOLEAN
    /\ skipped \subseteq 1..MaxLog
    /\ cache \subseteq Items
    /\ paid \in [Items -> Nat]
    /\ generated \subseteq Items
    /\ dlq \subseteq 1..MaxLog
    /\ rebalances \in Nat /\ crashes \in Nat /\ sendErrors \in Nat /\ cacheFaults \in Nat

LEMMA BusyWorker ==
  ASSUME TypeInv, NEW w \in Workers, Busy(w)
  PROVE  /\ worker[w] \in [step : BusySteps, at : 1..Len(log)]
         /\ worker[w].at \in 1..Len(log) /\ worker[w].at \in 1..MaxLog
         /\ Message(w) \in Items \cup {Malformed}
<1>1. worker[w] \in [step : BusySteps, at : 1..Len(log)]
  BY DEF TypeInv, WorkerType, Busy, At, Free
<1>2. worker[w].at \in 1..Len(log) /\ Len(log) \in Nat
  BY <1>1 DEF TypeInv
<1> QED
  BY <1>1, <1>2, EmbeddingAssumption DEF TypeInv, Message

LEMMA GotoType ==
  ASSUME TypeInv, NEW w \in Workers, Busy(w), NEW s \in BusySteps, Goto(w, s), log' = log,
         s \in {"call", "store", "publish"} => Message(w) \in Items
  PROVE  WorkerType'
<1>1. /\ worker' = [worker EXCEPT ![w] = [worker[w] EXCEPT !.step = s]]
      /\ [worker[w] EXCEPT !.step = s] \in [step : BusySteps, at : 1..Len(log)]
  BY BusyWorker DEF Goto
<1>2. \A v \in Workers : worker'[v].at = worker[v].at /\ (v # w => worker'[v] = worker[v])
  BY <1>1 DEF TypeInv, WorkerType, Free
<1>3. worker'[w].step = s
  BY <1>1 DEF TypeInv, WorkerType
<1> QED
  BY <1>1, <1>2, <1>3 DEF TypeInv, WorkerType, Message

LEMMA ReleaseType ==
  ASSUME TypeInv, NEW w \in Workers, Release(w), log' = log
  PROVE  WorkerType'
  BY DEF TypeInv, WorkerType, Release, Message, Free

LEMMA ResumeType ==
  ASSUME TypeInv, Resume
  PROVE  position' \in 0..Len(log) /\ skipped' \subseteq 1..MaxLog
<1>1. Len(log) \in Nat /\ committed \in 0..Len(log)
  BY DEF TypeInv
<1>2. committed + 1 .. Len(log) \subseteq 1..MaxLog
  BY <1>1, EmbeddingAssumption DEF TypeInv
<1>3. CASE joined
  BY <1>1, <1>3 DEF Resume, TypeInv
<1>4. CASE ~joined
  <2>1. position' = Len(log) /\ skipped' = skipped \cup (committed + 1 .. Len(log))
    BY <1>4 DEF Resume
  <2>2. skipped' \subseteq 1..MaxLog
    BY <1>2, <2>1 DEF TypeInv
  <2>3. position' \in 0..Len(log)
    BY <1>1, <2>1
  <2> QED
    BY <2>2, <2>3
<1> QED
  BY <1>3, <1>4

LEMMA TypeStep == TypeInv /\ [Next]_vars => TypeInv'
<1> SUFFICES ASSUME TypeInv, [Next]_vars PROVE TypeInv'
  OBVIOUS
<1> USE EmbeddingAssumption DEF BusySteps
<1>1. ASSUME NEW m \in Items \cup {Malformed}, Request(m) PROVE TypeInv'
  <2>1. /\ log' \in Seq(Items \cup {Malformed}) /\ Len(log') = Len(log) + 1
        /\ Len(log) \in Nat
        /\ \A o \in 1..Len(log) : log'[o] = log[o]
    BY <1>1 DEF Request, TypeInv
  <2>2. WorkerType'
    <3>1. \A w \in Workers : worker[w] = Free \/ (Message(w)' = Message(w) /\ Busy(w))
      BY <1>1, <2>1 DEF Request, TypeInv, WorkerType, Message, Busy, At
    <3>2. worker' = worker /\ 1..Len(log) \subseteq 1..Len(log')
      BY <1>1, <2>1 DEF Request
    <3>3. worker' \in [Workers -> {Free} \cup [step : BusySteps, at : 1..Len(log')]]
      BY <3>2 DEF TypeInv, WorkerType
    <3> QED
      BY <3>1, <3>2, <3>3 DEF TypeInv, WorkerType, Free
  <2>3. Len(log') <= MaxLog
    BY <1>1, <2>1 DEF Request
  <2> QED
    BY <1>1, <2>1, <2>2, <2>3 DEF Request, TypeInv, outputs, faults
<1>2. ASSUME NEW w \in Workers, Fetch(w) PROVE TypeInv'
  <2>1. position + 1 \in 1..Len(log) /\ log' = log
    BY <1>2 DEF Fetch, TypeInv
  <2>2. worker' = [worker EXCEPT ![w] = [step |-> "parse", at |-> position + 1]]
    BY <1>2 DEF Fetch
  <2>3. WorkerType'
    BY <2>1, <2>2 DEF TypeInv, WorkerType, Message
  <2> QED
    BY <1>2, <2>1, <2>3 DEF Fetch, TypeInv, outputs, faults
<1>3. ASSUME NEW w \in Workers, Refuse(w) \/ LookUp(w) \/ LookUpFails(w) PROVE TypeInv'
  <2>1. Busy(w) /\ log' = log
    BY <1>3 DEF Refuse, LookUp, LookUpFails, Busy, At, partition
  <2>2. cache \subseteq Items /\ Message(w) \in Items \cup {Malformed}
    BY <2>1, BusyWorker DEF TypeInv
  <2>3. WorkerType'
    <3>1. CASE Refuse(w)
      BY <3>1, <2>1, GotoType DEF Refuse
    <3>2. CASE LookUp(w)
      BY <3>2, <2>1, <2>2, GotoType DEF LookUp
    <3>3. CASE LookUpFails(w)
      BY <3>3, <2>1, <2>2, GotoType DEF LookUpFails
    <3> QED
      BY <1>3, <3>1, <3>2, <3>3
  <2>4. /\ UNCHANGED <<partition, cache, outputs, rebalances, crashes, sendErrors>>
        /\ cacheFaults' \in Nat
    BY <1>3 DEF Refuse, LookUp, LookUpFails, faults, TypeInv
  <2> QED
    BY <2>3, <2>4 DEF TypeInv, partition, outputs
<1>4. ASSUME NEW w \in Workers, CallSucceeds(w) PROVE TypeInv'
  <2>1. Busy(w) /\ log' = log /\ Message(w) \in Items
    BY <1>4 DEF CallSucceeds, Busy, At, partition, TypeInv, WorkerType
  <2>2. WorkerType'
    BY <1>4, <2>1, GotoType DEF CallSucceeds
  <2>3. paid' \in [Items -> Nat]
    BY <1>4, <2>1 DEF CallSucceeds, TypeInv
  <2> QED
    BY <1>4, <2>2, <2>3 DEF CallSucceeds, TypeInv, partition, faults
<1>5. ASSUME NEW w \in Workers, CallFails(w) PROVE TypeInv'
  <2>1. WorkerType'
    BY <1>5, GotoType DEF CallFails, Busy, At, partition
  <2> QED
    BY <1>5, <2>1 DEF CallFails, TypeInv, partition, outputs, faults
<1>6. ASSUME NEW w \in Workers, Store(w) \/ StoreFails(w) PROVE TypeInv'
  <2>1. Busy(w) /\ log' = log /\ Message(w) \in Items /\ Goto(w, "publish")
    BY <1>6 DEF Store, StoreFails, Busy, At, partition, TypeInv, WorkerType
  <2>2. WorkerType'
    BY <2>1, GotoType
  <2>3. /\ UNCHANGED <<partition, outputs, rebalances, crashes, sendErrors>>
        /\ cache' \subseteq Items /\ cacheFaults' \in Nat
    BY <1>6, <2>1 DEF Store, StoreFails, faults, TypeInv
  <2> QED
    BY <2>2, <2>3 DEF TypeInv, partition, outputs
<1>7. ASSUME NEW w \in Workers, Publish(w) PROVE TypeInv'
  <2>1. Busy(w) /\ log' = log /\ Message(w) \in Items
    BY <1>7 DEF Publish, Busy, At, partition, TypeInv, WorkerType
  <2>2. WorkerType'
    BY <1>7, <2>1, GotoType DEF Publish
  <2> QED
    BY <1>7, <2>1, <2>2 DEF Publish, TypeInv, partition, faults
<1>8. ASSUME NEW w \in Workers, PublishFails(w) PROVE TypeInv'
  <2>1. log' = log /\ Message(w) \in Items
    BY <1>8 DEF PublishFails, At, partition, TypeInv, WorkerType
  <2>2. WorkerType'
    BY <1>8, <2>1, ReleaseType DEF PublishFails
  <2> QED
    BY <1>8, <2>1, <2>2 DEF PublishFails, TypeInv, partition
<1>9. ASSUME NEW w \in Workers, SendDlq(w) PROVE TypeInv'
  <2>1. Busy(w) /\ log' = log
    BY <1>9 DEF SendDlq, Busy, At, partition
  <2>2. WorkerType' /\ worker[w].at \in 1..MaxLog
    BY <1>9, <2>1, GotoType, BusyWorker DEF SendDlq
  <2> QED
    BY <1>9, <2>2 DEF SendDlq, TypeInv, partition, faults
<1>10. ASSUME NEW w \in Workers, Commit(w) \/ CommitRejected(w) PROVE TypeInv'
  <2>1. log' = log /\ Release(w) /\ worker[w].at \in 1..Len(log)
    BY <1>10, BusyWorker DEF Commit, CommitRejected, Busy, At, partition
  <2>2. WorkerType'
    BY <2>1, ReleaseType
  <2>3. committed' \in 0..Len(log) /\ joined' \in BOOLEAN
    <3>1. CASE Commit(w)
      BY <3>1, <2>1 DEF Commit, TypeInv
    <3>2. CASE CommitRejected(w)
      BY <3>2, Zenon DEF CommitRejected, partition, TypeInv
    <3> QED
      BY <1>10, <3>1, <3>2
  <2> QED
    BY <1>10, <2>1, <2>2, <2>3
    DEF Commit, CommitRejected, TypeInv, partition, outputs, faults
<1>11. ASSUME NEW i \in Items, Expire(i) PROVE TypeInv'
  BY <1>11 DEF Expire, TypeInv, WorkerType, Message, partition, outputs
<1>12. ASSUME NEW w \in Workers, Rebalance(w) PROVE TypeInv'
  <2>1. position' \in 0..Len(log) /\ skipped' \subseteq 1..MaxLog
    BY <1>12, ResumeType DEF Rebalance
  <2> QED
    BY <1>12, <2>1 DEF Rebalance, TypeInv, WorkerType, Message, outputs
<1>13. ASSUME NEW w \in Workers, Crash(w) PROVE TypeInv'
  <2>1. /\ position' \in 0..Len(log) /\ skipped' \subseteq 1..MaxLog
        /\ owner' \in Workers
    BY <1>13, ResumeType DEF Crash, TypeInv
  <2>2. WorkerType'
    BY <1>13, ReleaseType DEF Crash
  <2> QED
    BY <1>13, <2>1, <2>2 DEF Crash, TypeInv, outputs
<1>14. CASE UNCHANGED vars
  BY <1>14 DEF vars, TypeInv, WorkerType, Message, partition, outputs, faults
<1> QED
  BY <1>1, <1>2, <1>3, <1>4, <1>5, <1>6, <1>7, <1>8, <1>9, <1>10, <1>11, <1>12, <1>13, <1>14
  DEF Next, Step

LEMMA TypeInit == Init => TypeInv
<1> SUFFICES ASSUME Init PROVE TypeInv
  OBVIOUS
<1>1. log \in Seq(Items \cup {Malformed}) /\ Len(log) = 0
  BY DEF Init
<1>2. WorkerType
  BY DEF Init, WorkerType, Free
<1> QED
  BY <1>1, <1>2, EmbeddingAssumption DEF Init, TypeInv

\* The partition, the workers, the cache and the topics keep their types.
THEOREM TypeCorrect == Spec => []TypeOK
<1>1. TypeInv => TypeOK
  <2> SUFFICES ASSUME TypeInv PROVE TypeOK
    OBVIOUS
  <2>1. ASSUME NEW w \in Workers
        PROVE  /\ worker[w] \in
                   [step : {"next", "parse", "call", "store", "publish", "reject", "commit"},
                    at : (1..MaxLog) \cup {Nothing}]
               /\ worker[w].step = "next" <=> worker[w].at = Nothing
    <3>1. CASE worker[w] = Free
      BY <3>1 DEF Free
    <3>2. CASE worker[w] # Free
      <4>1. worker[w] \in [step : BusySteps, at : 1..Len(log)]
        BY <3>2 DEF TypeInv, WorkerType
      <4>2. worker[w].at \in 1..MaxLog /\ worker[w].at # Nothing
        BY <4>1, EmbeddingAssumption DEF TypeInv
      <4> QED
        BY <4>1, <4>2 DEF BusySteps
    <3> QED
      BY <3>1, <3>2
  <2>2. worker \in [Workers ->
           [step : {"next", "parse", "call", "store", "publish", "reject", "commit"},
            at : (1..MaxLog) \cup {Nothing}]]
    BY <2>1 DEF TypeInv, WorkerType
  <2> QED
    BY <2>1, <2>2 DEF TypeInv, TypeOK
<1> QED
  BY <1>1, TypeInit, TypeStep, PTL DEF Spec

-----------------------------------------------------------------------------
(* At least once.  The owner takes one message at a time, and only when     *)
(* everything it fetched before is handled; a new owner starts where all is *)
(* committed, or skips to the end.  So whatever a worker commits, even when *)
(* the partition was away and came back, has only handled messages before   *)
(* it.  Handled messages stay handled.                                      *)

Handled(o) == Answered(o) \/ o \in skipped

HandledInv ==
    sendErrors = 0 =>
        /\ \A o \in 1..committed : Handled(o)
        /\ \A o \in 1..position : Handled(o) \/ worker[owner].at = o
        /\ \A w \in Workers : Busy(w) => \A o \in 1..(worker[w].at - 1) : Handled(o)
        /\ \A w \in Workers : At(w, "commit") => Answered(worker[w].at)

LEMMA HandledStays ==
  ASSUME TypeInv, generated \subseteq generated', dlq \subseteq dlq', skipped \subseteq skipped',
         log' = log, NEW o, Handled(o)
  PROVE  Handled(o)'
  BY DEF Handled, Answered

LEMMA AnsweredStays ==
  ASSUME TypeInv, generated \subseteq generated', dlq \subseteq dlq', log' = log,
         NEW o, Answered(o)
  PROVE  Answered(o)'
  BY DEF Answered

\* A worker that moves on with its message, which is answered before it commits.
LEMMA GotoHandled ==
  ASSUME TypeInv, HandledInv, sendErrors' = 0 => sendErrors = 0,
         NEW w \in Workers, Busy(w), NEW s \in BusySteps, Goto(w, s), UNCHANGED partition,
         generated \subseteq generated', dlq \subseteq dlq',
         s = "commit" => Answered(worker[w].at)'
  PROVE  HandledInv'
<1> SUFFICES ASSUME sendErrors = 0 PROVE HandledInv'
  BY DEF HandledInv
<1>1. /\ \A v \in Workers : worker'[v].at = worker[v].at /\ (v # w => worker'[v] = worker[v])
      /\ worker'[w].step = s
  BY BusyWorker DEF TypeInv, WorkerType, Goto, Free
<1>2. \A o : Handled(o) => Handled(o)'
  BY HandledStays DEF partition
<1>3. \A o \in 1..committed' : Handled(o)'
  BY <1>2 DEF HandledInv, partition
<1>4. \A o \in 1..position' : Handled(o)' \/ worker'[owner'].at = o
  BY <1>1, <1>2 DEF HandledInv, partition, TypeInv
<1>5. ASSUME NEW v \in Workers, Busy(v)' PROVE \A o \in 1..(worker'[v].at - 1) : Handled(o)'
  <2>1. Busy(v)
    BY <1>1, <1>5 DEF Busy, At
  <2> QED
    BY <1>1, <1>2, <2>1 DEF HandledInv
<1>6. ASSUME NEW v \in Workers, At(v, "commit")' PROVE Answered(worker[v].at)'
  <2>1. CASE v = w
    BY <1>1, <1>6, <2>1 DEF At
  <2>2. CASE v # w
    <3>1. Answered(worker[v].at)
      BY <1>1, <1>6, <2>2 DEF At, HandledInv
    <3>2. worker'[v].at = worker[v].at
      BY <1>1
    <3> QED
      BY <3>1, <3>2, AnsweredStays DEF partition, Answered
  <2> QED
    BY <2>1, <2>2
<1> QED
  BY <1>1, <1>3, <1>4, <1>5, <1>6 DEF HandledInv

\* A worker that gives its message up; with the message goes its duty only if
\* it is handled, or the owner is another one.
LEMMA ReleaseHandled ==
  ASSUME TypeInv, HandledInv, sendErrors' = sendErrors, NEW w \in Workers, Release(w),
         UNCHANGED <<log, position, owner, skipped, outputs>>,
         (owner = w => Handled(worker[w].at)),
         (committed' = committed \/ (Busy(w) /\ Handled(worker[w].at) /\ committed' = worker[w].at))
  PROVE  HandledInv'
<1> SUFFICES ASSUME sendErrors = 0 PROVE HandledInv'
  BY DEF HandledInv
<1>1. worker'[w] = Free /\ \A v \in Workers \ {w} : worker'[v] = worker[v]
  BY DEF Release, TypeInv, WorkerType
<1>2. \A o : Handled(o) => Handled(o)'
  BY HandledStays DEF outputs
<1>3. \A o \in 1..committed' : Handled(o)'
  <2>1. CASE committed' = committed
    BY <1>2, <2>1 DEF HandledInv
  <2>2. CASE Busy(w) /\ Handled(worker[w].at) /\ committed' = worker[w].at
    <3>1. worker[w].at \in Nat \ {0}
      BY <2>2, BusyWorker DEF TypeInv
    <3>2. \A o \in 1..worker[w].at : o = worker[w].at \/ o \in 1..(worker[w].at - 1)
      BY <3>1
    <3> QED
      BY <1>2, <2>2, <3>2 DEF HandledInv
  <2> QED
    BY <2>1, <2>2
<1>4. \A o \in 1..position' : Handled(o)' \/ worker'[owner'].at = o
  BY <1>1, <1>2 DEF HandledInv, TypeInv
<1>5. \A v \in Workers : Busy(v)' => Busy(v) /\ worker'[v] = worker[v]
  BY <1>1 DEF Busy, At, Free
<1>6. \A v \in Workers : At(v, "commit")' => At(v, "commit") /\ worker'[v] = worker[v]
  BY <1>1 DEF At, Free
<1>7. ASSUME NEW v \in Workers, At(v, "commit")' PROVE Answered(worker[v].at)'
  <2>1. Answered(worker[v].at) /\ worker'[v].at = worker[v].at
    BY <1>6, <1>7 DEF HandledInv
  <2> QED
    BY <2>1 DEF Answered, outputs
<1> QED
  BY <1>2, <1>3, <1>4, <1>5, <1>7 DEF HandledInv

\* Wherever a new owner starts, all before it is handled.
LEMMA ResumeHandled ==
  ASSUME TypeInv, HandledInv, sendErrors' = sendErrors, Resume, owner' \in Workers,
         UNCHANGED <<log, committed, outputs>>,
         \A w \in Workers : worker'[w] = worker[w] \/ worker'[w] = Free
  PROVE  HandledInv'
<1> SUFFICES ASSUME sendErrors = 0 PROVE HandledInv'
  BY DEF HandledInv
<1>1. skipped \subseteq skipped'
  <2>1. CASE joined
    BY <2>1 DEF Resume
  <2>2. CASE ~joined
    BY <2>2 DEF Resume
  <2> QED
    BY <2>1, <2>2
<1>2. \A o : Handled(o) => Handled(o)'
  BY <1>1, HandledStays DEF outputs
<1>3. \A o \in 1..position' : Handled(o)'
  <2>1. CASE joined
    BY <1>2, <2>1 DEF Resume, HandledInv
  <2>2. CASE ~joined
    <3>1. position' = Len(log) /\ committed + 1 .. Len(log) \subseteq skipped'
      BY <2>2 DEF Resume
    <3>2. \A o \in 1..Len(log) : o \in 1..committed \/ o \in committed + 1 .. Len(log)
      BY DEF TypeInv
    <3> QED
      BY <1>2, <3>1, <3>2 DEF HandledInv, Handled
  <2> QED
    BY <2>1, <2>2
<1>4. \A w \in Workers : Busy(w)' => Busy(w) /\ worker'[w] = worker[w]
  BY DEF Busy, At, Free
<1>5. ASSUME NEW w \in Workers, At(w, "commit")' PROVE Answered(worker[w].at)'
  <2>1. worker'[w] = worker[w] /\ Answered(worker[w].at)
    BY <1>5 DEF At, Free, HandledInv
  <2> QED
    BY <2>1 DEF Answered, outputs
<1> QED
  BY <1>2, <1>3, <1>4, <1>5 DEF HandledInv

LEMMA HandledStep == TypeInv /\ HandledInv /\ [Next]_vars => HandledInv'
<1> SUFFICES ASSUME TypeInv, HandledInv, [Next]_vars PROVE HandledInv'
  OBVIOUS
<1> USE DEF BusySteps
<1>1. ASSUME NEW m \in Items \cup {Malformed}, Request(m) PROVE HandledInv'
  <2>1. /\ Len(log) \in Nat /\ DOMAIN log = 1..Len(log) /\ DOMAIN log \subseteq DOMAIN log'
        /\ \A o \in DOMAIN log : log'[o] = log[o]
    BY <1>1 DEF Request, TypeInv
  <2>2. \A o : (Handled(o) => Handled(o)') /\ (Answered(o) => Answered(o)')
    BY <1>1, <2>1 DEF Request, outputs, Handled, Answered
  <2>3. /\ UNCHANGED <<sendErrors, committed, position, owner, worker>>
        /\ \A w \in Workers : (Busy(w)' <=> Busy(w)) /\ (At(w, "commit")' <=> At(w, "commit"))
    BY <1>1 DEF Request, faults, Busy, At
  <2> QED
    BY <2>2, <2>3 DEF HandledInv
<1>2. ASSUME NEW w \in Workers, Fetch(w) PROVE HandledInv'
  <2> SUFFICES ASSUME sendErrors = 0 PROVE HandledInv'
    BY <1>2 DEF Fetch, faults, HandledInv
  <2>1. /\ UNCHANGED <<log, committed, owner, skipped, outputs>>
        /\ owner = w /\ position \in Nat /\ position' = position + 1
        /\ worker'[w] = [step |-> "parse", at |-> position + 1]
        /\ \A v \in Workers \ {w} : worker'[v] = worker[v]
    BY <1>2 DEF Fetch, TypeInv, WorkerType
  <2>2. \A o : (Handled(o) <=> Handled(o)') /\ (Answered(o) <=> Answered(o)')
    BY <2>1 DEF outputs, Handled, Answered
  <2>3. worker[w].at = Nothing
    BY <1>2 DEF Fetch, At, TypeInv, WorkerType, Free
  <2>4. \A o \in 1..position : Handled(o)
    BY <2>1, <2>3, EmbeddingAssumption DEF HandledInv
  <2>5. \A o \in 1..position' : Handled(o)' \/ worker'[owner'].at = o
    BY <2>1, <2>2, <2>4
  <2>6. ASSUME NEW v \in Workers, Busy(v)'
        PROVE  \A o \in 1..(worker'[v].at - 1) : Handled(o)'
    <3>1. CASE v = w
      BY <2>1, <2>2, <2>4, <3>1
    <3>2. CASE v # w
      BY <2>1, <2>2, <2>6, <3>2 DEF Busy, At, HandledInv
    <3> QED
      BY <3>1, <3>2
  <2>7. ASSUME NEW v \in Workers, At(v, "commit")' PROVE Answered(worker[v].at)'
    <3>1. v # w /\ worker'[v] = worker[v]
      BY <2>1, <2>7 DEF At
    <3>2. Answered(worker[v].at)
      BY <2>7, <3>1 DEF At, HandledInv
    <3> QED
      BY <2>1, <3>1, <3>2 DEF Answered, outputs
  <2> QED
    BY <2>1, <2>2, <2>5, <2>6, <2>7 DEF HandledInv
<1>3. ASSUME NEW w \in Workers,
             Refuse(w) \/ LookUp(w) \/ LookUpFails(w) \/ CallSucceeds(w) \/ CallFails(w)
                 \/ Store(w) \/ StoreFails(w)
      PROVE  HandledInv'
  <2>1. /\ Busy(w) /\ UNCHANGED <<partition, generated, dlq, sendErrors>>
        /\ \E s \in BusySteps \ {"commit"} : Goto(w, s)
    BY <1>3 DEF Refuse, LookUp, LookUpFails, CallSucceeds, CallFails, Store, StoreFails,
                Busy, At, outputs, faults
  <2> QED
    BY <2>1, GotoHandled
<1>4. ASSUME NEW w \in Workers, Publish(w) \/ SendDlq(w) PROVE HandledInv'
  <2>1. /\ Busy(w) /\ Goto(w, "commit") /\ UNCHANGED <<partition, sendErrors>>
        /\ generated \subseteq generated' /\ dlq \subseteq dlq'
        /\ Message(w) \in generated' \/ worker[w].at \in dlq'
    BY <1>4 DEF Publish, SendDlq, Busy, At, faults
  <2>2. worker[w].at \in DOMAIN log /\ worker'[w].at = worker[w].at
    BY <2>1, BusyWorker DEF TypeInv, WorkerType, Goto
  <2>3. Answered(worker[w].at)'
    BY <2>1, <2>2 DEF Answered, Message, partition
  <2> QED
    BY <2>1, <2>3, GotoHandled
<1>5. ASSUME NEW w \in Workers, PublishFails(w) PROVE HandledInv'
  <2>1. sendErrors' # 0
    BY <1>5 DEF PublishFails, TypeInv
  <2> QED
    BY <2>1 DEF HandledInv
<1>6. ASSUME NEW w \in Workers, Commit(w) \/ CommitRejected(w) PROVE HandledInv'
  <2> SUFFICES ASSUME sendErrors = 0 PROVE HandledInv'
    BY <1>6 DEF Commit, CommitRejected, faults, HandledInv
  <2>1. At(w, "commit") /\ Busy(w) /\ Handled(worker[w].at)
    BY <1>6 DEF Commit, CommitRejected, Busy, At, Handled, HandledInv
  <2>2. /\ Release(w) /\ UNCHANGED <<log, position, owner, skipped, outputs, sendErrors>>
        /\ committed' = committed \/ committed' = worker[w].at
    BY <1>6 DEF Commit, CommitRejected, partition, faults
  <2>3. UNCHANGED <<log, position, owner, skipped, outputs>> /\ sendErrors' = sendErrors
    BY <2>2
  <2>4. committed' = committed \/ (Busy(w) /\ Handled(worker[w].at) /\ committed' = worker[w].at)
    BY <2>1, <2>2
  <2>5. Release(w) /\ (owner = w => Handled(worker[w].at))
    BY <2>1, <2>2
  <2> HIDE DEF BusySteps
  <2> QED
    BY <2>3, <2>4, <2>5, ReleaseHandled
<1>7. ASSUME NEW i \in Items, Expire(i) PROVE HandledInv'
  BY <1>7 DEF Expire, HandledInv, Handled, Answered, Busy, At, partition, outputs
<1>8. ASSUME NEW w \in Workers, Rebalance(w) PROVE HandledInv'
  BY <1>8, ResumeHandled DEF Rebalance
<1>9. ASSUME NEW w \in Workers, Crash(w) PROVE HandledInv'
  <2>1. /\ Release(w) /\ UNCHANGED <<log, committed, outputs, sendErrors>>
        /\ \A v \in Workers : worker'[v] = worker[v] \/ worker'[v] = Free
    BY <1>9 DEF Crash, Release, TypeInv, WorkerType
  <2>2. CASE owner = w
    BY <1>9, <2>1, <2>2, ResumeHandled DEF Crash
  <2>3. CASE owner # w
    <3>1. UNCHANGED <<log, position, owner, skipped, outputs>>
      BY <1>9, <2>1, <2>3 DEF Crash
    <3>2. Release(w) /\ sendErrors' = sendErrors /\ committed' = committed
      BY <2>1
    <3>3. owner = w => Handled(worker[w].at)
      BY <2>3
    <3> HIDE DEF BusySteps
    <3> QED
      BY <3>1, <3>2, <3>3, ReleaseHandled
  <2> QED
    BY <2>2, <2>3
<1>10. CASE UNCHANGED vars
  BY <1>10 DEF vars, HandledInv, Handled, Answered, Busy, At, partition, outputs, faults
<1> QED
  BY <1>1, <1>2, <1>3, <1>4, <1>5, <1>6, <1>7, <1>8, <1>9, <1>10 DEF Next, Step

LEMMA HandledInit == Init => HandledInv
  BY DEF Init, HandledInv, Busy, At, Free

\* worker.py:97, at least once: for all crashes, rebalances, offset resets and
\* Redis faults, no request is committed unanswered while no publish failed.
THEOREM NothingUnansweredCommitted == Spec => []CommittedWasAnswered
<1>1. HandledInv => CommittedWasAnswered
  BY DEF HandledInv, CommittedWasAnswered, Handled
<1> QED
  BY <1>1, TypeInit, TypeStep, HandledInit, HandledStep, PTL DEF Spec

-----------------------------------------------------------------------------
(* Paid calls and their causes.  Every call beyond the first for an item is *)
(* charged to a crash, a rebalance or a failure of Redis, some of them      *)
(* before it is made: a worker that lost the partition before it looked at  *)
(* the cache may still call, and so may the owner for an item that was      *)
(* asked for, is not cached and not in the owner's hands.  All sets counted *)
(* here change by one element, so they are finite although Items and        *)
(* Workers need not be.                                                     *)

Calling == {w \in Workers : At(w, "call")}
Asked == {i \in Items : paid[i] > 0 \/ \E w \in Calling : Message(w) = i}
Attended(i) == worker[owner].step \in {"call", "store"} /\ Message(owner) = i
Exposed == {i \in Asked \ cache : ~Attended(i)}
Strayed == {w \in Workers \ {owner} : At(w, "parse")}
Causes == crashes + rebalances + cacheFaults

StoresPaid == \A w \in Workers : At(w, "store") => paid[Message(w)] > 0
Charged ==
    /\ IsFiniteSet(PaidCalls) /\ IsFiniteSet(Calling) /\ IsFiniteSet(Asked)
    /\ IsFiniteSet(Exposed) /\ IsFiniteSet(Strayed)
    /\ Cardinality(PaidCalls) + Cardinality(Calling) + Cardinality(Exposed) + Cardinality(Strayed)
         <= Cardinality(Asked) + Causes
CausesInv == StoresPaid /\ Charged

LEMMA OneMore ==
  ASSUME NEW S, IsFiniteSet(S), NEW x, NEW T \in SUBSET (S \cup {x})
  PROVE  /\ IsFiniteSet(T) /\ Cardinality(T) \in Nat /\ Cardinality(S) \in Nat
         /\ Cardinality(T) <= Cardinality(S) + 1
         /\ T \subseteq S => Cardinality(T) <= Cardinality(S)
<1>1. /\ IsFiniteSet(S \cup {x}) /\ Cardinality(S \cup {x}) <= Cardinality(S) + 1
      /\ Cardinality(S) \in Nat
  BY FS_AddElement, FS_CardinalityType
<1>2. IsFiniteSet(T) /\ Cardinality(T) <= Cardinality(S \cup {x})
  BY <1>1, FS_Subset
<1>3. /\ Cardinality(T) \in Nat /\ Cardinality(S \cup {x}) \in Nat
  BY <1>1, <1>2, FS_CardinalityType
<1>4. T \subseteq S => Cardinality(T) <= Cardinality(S)
  BY FS_Subset
<1> QED
  BY <1>1, <1>2, <1>3, <1>4

LEMMA ChargedNats ==
  ASSUME Charged
  PROVE  /\ Cardinality(PaidCalls) \in Nat /\ Cardinality(Calling) \in Nat
         /\ Cardinality(Asked) \in Nat /\ Cardinality(Exposed) \in Nat
         /\ Cardinality(Strayed) \in Nat
  BY FS_CardinalityType DEF Charged

LEMMA CausesNat == TypeInv => Causes \in Nat
  BY DEF TypeInv, Causes
LEMMA CausesNatNext == TypeInv' => Causes' \in Nat
<1>1. TypeInv' => rebalances' \in Nat /\ crashes' \in Nat /\ cacheFaults' \in Nat
  BY DEF TypeInv
<1> QED
  BY <1>1 DEF Causes

\* A step that starts and ends no call.  It may expose one item, or let one more
\* worker go astray, if it is one of the causes.
LEMMA ChargedStays ==
  ASSUME TypeInv, TypeInv', Charged, paid' = paid, Calling' = Calling, Asked' = Asked,
         Causes <= Causes',
         NEW x, Exposed' \subseteq Exposed \cup {x}, Strayed' \subseteq Strayed \cup {x},
         Exposed' \subseteq Exposed \/ Strayed' \subseteq Strayed,
         (Exposed' \subseteq Exposed /\ Strayed' \subseteq Strayed) \/ Causes < Causes'
  PROVE  Charged'
<1>1. PaidCalls' = PaidCalls
  BY DEF PaidCalls
<1>2. /\ IsFiniteSet(Exposed') /\ Cardinality(Exposed') \in Nat
      /\ Cardinality(Exposed') <= Cardinality(Exposed) + 1
      /\ Exposed' \subseteq Exposed => Cardinality(Exposed') <= Cardinality(Exposed)
  BY OneMore DEF Charged
<1>3. /\ IsFiniteSet(Strayed') /\ Cardinality(Strayed') \in Nat
      /\ Cardinality(Strayed') <= Cardinality(Strayed) + 1
      /\ Strayed' \subseteq Strayed => Cardinality(Strayed') <= Cardinality(Strayed)
  BY OneMore DEF Charged
<1>4. Causes \in Nat /\ Causes' \in Nat
  BY CausesNat, CausesNatNext
<1>5. /\ Cardinality(PaidCalls) + Cardinality(Calling) + Cardinality(Exposed) + Cardinality(Strayed)
           <= Cardinality(Asked) + Causes
      /\ IsFiniteSet(PaidCalls) /\ IsFiniteSet(Calling) /\ IsFiniteSet(Asked)
  BY DEF Charged
<1>6. Cardinality(Exposed') + Cardinality(Strayed') + Causes
         <= Cardinality(Exposed) + Cardinality(Strayed) + Causes'
  BY <1>2, <1>3, <1>4, ChargedNats
<1>7. Cardinality(PaidCalls) + Cardinality(Calling) + Cardinality(Exposed') + Cardinality(Strayed')
         <= Cardinality(Asked) + Causes'
  BY <1>2, <1>3, <1>4, <1>5, <1>6, ChargedNats
<1> QED
  BY <1>1, <1>2, <1>3, <1>5, <1>7 DEF Charged

\* A worker that moves on, and nobody else.
Moved(w) == \A v \in Workers \ {w} : worker'[v] = worker[v] /\ Message(v)' = Message(v)

LEMMA GotoMoves ==
  ASSUME TypeInv, NEW w \in Workers, Busy(w), NEW s, Goto(w, s), log' = log
  PROVE  /\ Moved(w)
         /\ worker'[w].step = s /\ Message(w)' = Message(w)
         /\ \A v \in Workers : Message(v)' = Message(v)
<1>1. worker' = [worker EXCEPT ![w] = [worker[w] EXCEPT !.step = s]]
  BY DEF Goto
<1>2. worker'[w].step = s /\ worker'[w].at = worker[w].at
  BY <1>1, BusyWorker DEF TypeInv, WorkerType
<1>3. \A v \in Workers \ {w} : worker'[v] = worker[v]
  BY <1>1 DEF TypeInv, WorkerType
<1> QED
  BY <1>2, <1>3 DEF Moved, Message

LEMMA ReleaseMoves ==
  ASSUME TypeInv, NEW w \in Workers, Release(w), log' = log
  PROVE  Moved(w) /\ worker'[w].step = "next"
  BY DEF TypeInv, WorkerType, Release, Moved, Message, Free

\* A worker that neither begins nor ends a call.
LEMMA QuietMove ==
  ASSUME TypeInv, NEW w \in Workers, Moved(w), paid' = paid,
         ~At(w, "call"), ~At(w, "call")'
  PROVE  Calling' = Calling /\ Asked' = Asked
<1>1. \A v \in Workers : At(v, "call")' <=> At(v, "call")
  BY DEF Moved, At
<1>2. \A v \in Calling : Message(v)' = Message(v)
  BY DEF Moved, Calling
<1> QED
  BY <1>1, <1>2 DEF Calling, Asked

\* Only a busy worker that is not the owner strays, and only the owner keeps an
\* item in its hands.
LEMMA MoveKeeps ==
  ASSUME TypeInv, NEW w \in Workers, Moved(w), owner' = owner \/ owner = w
  PROVE  /\ ~At(w, "parse")' \/ (owner = w /\ owner' = w) => Strayed' \subseteq Strayed \ {w}
         /\ \A i : Attended(i) => Attended(i)' \/ (owner = w /\ Message(w) = i)
         /\ owner # w => \A i : Attended(i)' <=> Attended(i)
<1>1. \A v \in Workers \ {w} : (At(v, "parse")' <=> At(v, "parse")) /\ worker'[v].step = worker[v].step
  BY DEF Moved, At
<1>2. owner # w => owner' = owner /\ worker'[owner] = worker[owner] /\ Message(owner)' = Message(owner)
  BY DEF Moved, TypeInv
<1>3. ~At(w, "parse")' \/ (owner = w /\ owner' = w) => Strayed' \subseteq Strayed \ {w}
  BY <1>1 DEF Strayed
<1> QED
  BY <1>2, <1>3 DEF Attended

\* The steps of a worker that start and end no call.
LEMMA QuietCharged ==
  ASSUME TypeInv, TypeInv', Charged, NEW w \in Workers, Moved(w),
         paid' = paid, owner' = owner, ~At(w, "call"), ~At(w, "call")',
         ~At(w, "parse")' \/ owner = w,
         Causes' = Causes, cache \subseteq cache',
         At(w, "store") => Message(w) \in cache'
  PROVE  Charged'
<1>1. Calling' = Calling /\ Asked' = Asked
  BY QuietMove
<1>2. Strayed' \subseteq Strayed
  BY MoveKeeps
<1>3. Exposed' \subseteq Exposed
  <2> SUFFICES ASSUME NEW i \in Exposed' PROVE i \in Exposed
    OBVIOUS
  <2>1. i \in Asked /\ i \notin cache /\ i \notin cache' /\ ~Attended(i)'
    BY <1>1 DEF Exposed
  <2>2. ASSUME Attended(i) PROVE FALSE
    <3>1. owner = w /\ Message(w) = i
      BY <2>1, <2>2, MoveKeeps
    <3>2. At(w, "store")
      BY <2>2, <3>1 DEF Attended, At
    <3> QED
      BY <2>1, <3>1, <3>2
  <2> QED
    BY <2>1, <2>2 DEF Exposed
<1>4. Causes <= Causes'
  BY CausesNat
<1> QED
  BY <1>1, <1>2, <1>3, <1>4, ChargedStays

\* A request that is not in the cache goes to the provider.
LEMMA MissCharged ==
  ASSUME TypeInv, TypeInv', Charged, NEW w \in Workers, At(w, "parse"), Goto(w, "call"),
         log' = log, owner' = owner, paid' = paid, cache' = cache, Message(w) \in Items,
         IF Message(w) \in cache THEN Causes' = Causes + 1 ELSE Causes' = Causes
  PROVE  Charged'
<1> DEFINE i == Message(w)
<1>1. /\ Moved(w) /\ At(w, "call")' /\ Message(w)' = i
      /\ \A v \in Workers : Message(v)' = Message(v)
  BY GotoMoves DEF Busy, At
<1>2. w \notin Calling /\ Calling' = Calling \cup {w}
  BY <1>1 DEF Calling, Moved, At
<1>3. Asked' = Asked \cup {i}
  <2>1. ASSUME NEW k \in Items
        PROVE  (\E v \in Calling' : Message(v)' = k) <=> (\E v \in Calling : Message(v) = k) \/ k = i
    BY <1>1, <1>2 DEF Calling
  <2>2. ASSUME NEW k \in Items
        PROVE  k \in Asked' <=> k \in Asked \/ k = i
    BY <2>1 DEF Asked
  <2> QED
    BY <2>2 DEF Asked
<1>4. PaidCalls' = PaidCalls
  BY DEF PaidCalls
<1>5. /\ IsFiniteSet(Calling') /\ Cardinality(Calling') = Cardinality(Calling) + 1
      /\ IsFiniteSet(Asked')
      /\ Cardinality(Asked') = Cardinality(Asked) + (IF i \in Asked THEN 0 ELSE 1)
  <2>1. IsFiniteSet(Calling) /\ IsFiniteSet(Asked) /\ Cardinality(Asked) \in Nat
    BY ChargedNats DEF Charged
  <2>2. IsFiniteSet(Calling') /\ Cardinality(Calling') = Cardinality(Calling) + 1
    BY <1>2, <2>1, FS_AddElement
  <2> HIDE DEF i
  <2>3. /\ IsFiniteSet(Asked \cup {i})
        /\ Cardinality(Asked \cup {i}) = IF i \in Asked THEN Cardinality(Asked) ELSE Cardinality(Asked) + 1
    BY <2>1, FS_AddElement
  <2> QED
    BY <1>3, <2>1, <2>2, <2>3
<1>6. /\ Strayed' \subseteq Strayed \ {w}
      /\ \A k \in Items \ {i} : Attended(k) => Attended(k)'
  BY <1>1, MoveKeeps DEF At
<1>7. /\ IsFiniteSet(Strayed') /\ Cardinality(Strayed') \in Nat
      /\ Cardinality(Strayed') <= Cardinality(Strayed)
      /\ owner # w => Cardinality(Strayed') <= Cardinality(Strayed) - 1
  <2>1. /\ IsFiniteSet(Strayed \ {w})
        /\ Cardinality(Strayed \ {w}) = Cardinality(Strayed) - (IF w \in Strayed THEN 1 ELSE 0)
    BY ChargedNats, FS_RemoveElement DEF Charged
  <2>2. /\ IsFiniteSet(Strayed') /\ Cardinality(Strayed') \in Nat
        /\ Cardinality(Strayed') <= Cardinality(Strayed \ {w})
    BY <1>6, <2>1, FS_Subset, FS_CardinalityType
  <2>3. owner # w => w \in Strayed
    BY DEF Strayed
  <2> QED
    BY <2>1, <2>2, <2>3, ChargedNats
<1>8. Exposed' \subseteq Exposed \cup {i}
  BY <1>3, <1>6 DEF Exposed, Asked
<1>9. i \in Asked \/ i \in cache \/ owner = w => Exposed' \subseteq Exposed
  <2>1. i \in cache => i \notin Exposed'
    BY DEF Exposed
  <2>2. owner = w => i \notin Exposed'
    BY <1>1 DEF Exposed, Attended, At
  <2>3. i \in Asked /\ owner # w /\ i \in Exposed' => i \in Exposed
    BY <1>1, MoveKeeps DEF Exposed
  <2> QED
    BY <1>8, <2>1, <2>2, <2>3
<1>10. owner = w /\ i \in Asked /\ i \notin cache => i \in Exposed /\ Exposed' \subseteq Exposed \ {i}
  <2>1. owner = w => ~Attended(i) /\ i \notin Exposed'
    BY <1>1 DEF Exposed, Attended, At
  <2> QED
    BY <1>9, <2>1 DEF Exposed
<1>11. /\ IsFiniteSet(Exposed') /\ Cardinality(Exposed') \in Nat
       /\ Cardinality(Exposed') <= Cardinality(Exposed) + 1
       /\ i \in Asked \/ i \in cache \/ owner = w => Cardinality(Exposed') <= Cardinality(Exposed)
  BY <1>8, <1>9, OneMore DEF Charged
<1>12. owner = w /\ i \in Asked /\ i \notin cache =>
           Cardinality(Exposed') <= Cardinality(Exposed) - 1
  <2> SUFFICES ASSUME owner = w, i \in Asked, i \notin cache
               PROVE  Cardinality(Exposed') <= Cardinality(Exposed) - 1
    OBVIOUS
  <2>1. IsFiniteSet(Exposed \ {i}) /\ Cardinality(Exposed \ {i}) = Cardinality(Exposed) - 1
    BY <1>10, FS_RemoveElement DEF Charged
  <2> QED
    BY <1>10, <2>1, FS_Subset
<1>13. Causes \in Nat /\ Causes' \in Nat
  BY CausesNat, CausesNatNext
<1>14. /\ Cardinality(PaidCalls) + Cardinality(Calling) + Cardinality(Exposed) + Cardinality(Strayed)
            <= Cardinality(Asked) + Causes
       /\ IsFiniteSet(PaidCalls)
  BY DEF Charged
<1> HIDE DEF i
<1>15. Cardinality(PaidCalls) + Cardinality(Calling') + Cardinality(Exposed') + Cardinality(Strayed')
         <= Cardinality(Asked') + Causes'
  <2>1. CASE i \in cache
    BY <2>1, <1>5, <1>7, <1>11, <1>13, <1>14, ChargedNats DEF i
  <2>2. CASE i \notin cache /\ owner = w /\ i \in Asked
    BY <2>2, <1>5, <1>7, <1>11, <1>12, <1>13, <1>14, ChargedNats DEF i
  <2>3. CASE i \notin cache /\ owner = w /\ i \notin Asked
    BY <2>3, <1>5, <1>7, <1>11, <1>13, <1>14, ChargedNats DEF i
  <2>4. CASE i \notin cache /\ owner # w
    BY <2>4, <1>5, <1>7, <1>11, <1>13, <1>14, ChargedNats DEF i
  <2> QED
    BY <2>1, <2>2, <2>3, <2>4
<1> QED
  BY <1>4, <1>5, <1>7, <1>11, <1>14, <1>15 DEF Charged

\* A step of a worker that is one of the causes: at worst it leaves its item
\* asked for and uncached.
LEMMA CausedCharged ==
  ASSUME TypeInv, TypeInv', Charged, NEW w \in Workers, Moved(w),
         paid' = paid, cache' = cache, owner' = owner \/ owner = w,
         ~At(w, "call"), ~At(w, "call")', ~At(w, "parse")', Causes < Causes'
  PROVE  Charged'
<1>1. Calling' = Calling /\ Asked' = Asked
  BY QuietMove
<1>2. Strayed' \subseteq Strayed
  BY MoveKeeps
<1>3. Exposed' \subseteq Exposed \cup {Message(w)}
  BY <1>1, MoveKeeps DEF Exposed
<1>4. Causes <= Causes'
  BY CausesNat, CausesNatNext
<1> QED
  BY <1>1, <1>2, <1>3, <1>4, ChargedStays

\* A paid call: what was a call is now a paid one.
LEMMA PaidMore ==
  ASSUME TypeInv, IsFiniteSet(PaidCalls), NEW i \in Items, paid' = [paid EXCEPT ![i] = @ + 1]
  PROVE  IsFiniteSet(PaidCalls') /\ Cardinality(PaidCalls') = Cardinality(PaidCalls) + 1
<1>1. paid[i] \in Nat /\ paid'[i] = paid[i] + 1
      /\ \A k \in Items \ {i} : paid'[k] = paid[k]
  BY DEF TypeInv
<1> DEFINE new == <<i, paid[i] + 1>>
<1>2. new \notin PaidCalls
  BY <1>1 DEF PaidCalls
<1>3. 1..paid'[i] = 1..paid[i] \cup {paid[i] + 1}
  BY <1>1
<1>4. ASSUME NEW x PROVE x \in PaidCalls' <=> x \in PaidCalls \cup {new}
  <2>1. x \in PaidCalls' <=> \E k \in Items : x \in {k} \X (1..paid'[k])
    BY DEF PaidCalls
  <2>2. x \in PaidCalls <=> \E k \in Items : x \in {k} \X (1..paid[k])
    BY DEF PaidCalls
  <2>3. x \in {i} \X (1..paid'[i]) <=> x \in {i} \X (1..paid[i]) \/ x = new
    BY <1>3
  <2> QED
    BY <1>1, <2>1, <2>2, <2>3
<1>5. PaidCalls' = PaidCalls \cup {new}
  BY <1>4
<1> QED
  BY <1>2, <1>5, FS_AddElement

LEMMA PaidCharged ==
  ASSUME TypeInv, TypeInv', Charged, NEW w \in Workers, CallSucceeds(w)
  PROVE  Charged' /\ paid'[Message(w)] > 0
<1> DEFINE i == Message(w)
<1>1. /\ At(w, "call") /\ Busy(w) /\ i \in Items /\ log' = log /\ owner' = owner /\ cache' = cache
      /\ paid' = [paid EXCEPT ![i] = @ + 1] /\ Causes' = Causes
  BY DEF CallSucceeds, TypeInv, WorkerType, At, Busy, partition, faults, Causes
<1>2. /\ Moved(w) /\ worker'[w].step = "store" /\ Message(w)' = i
      /\ \A v \in Workers : Message(v)' = Message(v)
  BY <1>1, GotoMoves DEF CallSucceeds
<1>3. /\ paid'[i] > 0
      /\ \A k \in Items : paid[k] > 0 => paid'[k] > 0
      /\ \A k \in Items \ {i} : paid'[k] = paid[k]
  BY <1>1 DEF TypeInv
<1>4. w \in Calling /\ Calling' = Calling \ {w}
  BY <1>1, <1>2 DEF Calling, Moved, At
<1>5. Asked' = Asked
  <2>1. ASSUME NEW k \in Items, k # i
        PROVE  (\E v \in Calling' : Message(v)' = k) <=> (\E v \in Calling : Message(v) = k)
    BY <1>2, <1>4, <2>1 DEF Calling
  <2>2. ASSUME NEW k \in Items PROVE k \in Asked' <=> k \in Asked
    <3>1. CASE k = i
      BY <1>1, <1>3, <1>4, <3>1 DEF Asked
    <3>2. CASE k # i
      BY <1>3, <2>1, <3>2 DEF Asked
    <3> QED
      BY <3>1, <3>2
  <2> QED
    BY <2>2 DEF Asked
<1>6. Strayed' \subseteq Strayed
  BY <1>1, <1>2, MoveKeeps DEF At
<1>7. Exposed' \subseteq Exposed
  <2> SUFFICES ASSUME NEW k \in Exposed' PROVE k \in Exposed
    OBVIOUS
  <2>1. k \in Asked /\ k \notin cache /\ ~Attended(k)'
    BY <1>1, <1>5 DEF Exposed
  <2>2. owner = w => Attended(i)'
    BY <1>1, <1>2 DEF Attended
  <2>3. ~Attended(k)
    BY <1>1, <1>2, <2>1, <2>2, MoveKeeps
  <2> QED
    BY <2>1, <2>3 DEF Exposed
<1>8. /\ IsFiniteSet(PaidCalls') /\ Cardinality(PaidCalls') = Cardinality(PaidCalls) + 1
      /\ IsFiniteSet(Calling') /\ Cardinality(Calling') = Cardinality(Calling) - 1
  BY <1>1, <1>4, PaidMore, FS_RemoveElement DEF Charged
<1>9. /\ IsFiniteSet(Exposed') /\ Cardinality(Exposed') \in Nat /\ Cardinality(Exposed') <= Cardinality(Exposed)
      /\ IsFiniteSet(Strayed') /\ Cardinality(Strayed') \in Nat /\ Cardinality(Strayed') <= Cardinality(Strayed)
  BY <1>6, <1>7, FS_Subset, FS_CardinalityType DEF Charged
<1>10. /\ IsFiniteSet(Asked)
       /\ Cardinality(PaidCalls) + Cardinality(Calling) + Cardinality(Exposed) + Cardinality(Strayed)
            <= Cardinality(Asked) + Causes
  BY DEF Charged
<1>11. Causes \in Nat
  BY CausesNat
<1>12. Cardinality(PaidCalls') + Cardinality(Calling') + Cardinality(Exposed') + Cardinality(Strayed')
         <= Cardinality(Asked) + Causes
  BY <1>8, <1>9, <1>10, <1>11, ChargedNats
<1> QED
  BY <1>1, <1>3, <1>5, <1>8, <1>9, <1>10, <1>12 DEF Charged

\* A call that fails or dies with its worker: the item is not asked for any more,
\* or the call is not needed and its charge goes to the item.
LEMMA LostCallCharged ==
  ASSUME TypeInv, TypeInv', Charged, NEW w \in Workers, At(w, "call"), Moved(w),
         worker'[w].step \notin {"parse", "call"},
         paid' = paid, cache' = cache, owner' = owner \/ owner = w, Causes <= Causes'
  PROVE  Charged'
<1> DEFINE i == Message(w)
<1>1. w \in Calling /\ Calling' = Calling \ {w}
  BY DEF Calling, Moved, At
<1>2. Asked' \subseteq Asked /\ Asked \subseteq Asked' \cup {i}
  <2>1. ASSUME NEW k \in Items
        PROVE  /\ (\E v \in Calling' : Message(v)' = k) => \E v \in Calling : Message(v) = k
               /\ (\E v \in Calling : Message(v) = k) => k = i \/ \E v \in Calling' : Message(v)' = k
    BY <1>1 DEF Calling, Moved
  <2> QED
    BY <2>1 DEF Asked
<1>3. Strayed' \subseteq Strayed
  BY MoveKeeps DEF At
<1>4. Exposed' \subseteq Exposed \cup {i} /\ (i \notin Asked' => Exposed' \subseteq Exposed)
  <2> SUFFICES ASSUME NEW k \in Exposed', k \notin Exposed
               PROVE  k = i /\ i \in Asked'
    OBVIOUS
  <2>1. k \in Asked /\ k \in Asked' /\ k \notin cache /\ ~Attended(k)'
    BY <1>2 DEF Exposed
  <2>2. Attended(k)
    BY <2>1 DEF Exposed
  <2> QED
    BY <2>1, <2>2, MoveKeeps
<1> HIDE DEF i
<1>5. /\ IsFiniteSet(Calling') /\ Cardinality(Calling') = Cardinality(Calling) - 1
      /\ PaidCalls' = PaidCalls
  BY <1>1, FS_RemoveElement DEF Charged, PaidCalls
<1>6. /\ IsFiniteSet(Asked') /\ Cardinality(Asked') \in Nat
      /\ Cardinality(Asked) <= Cardinality(Asked') + 1
      /\ i \in Asked' => Asked' = Asked
  <2>1. IsFiniteSet(Asked') /\ Cardinality(Asked') \in Nat
    BY <1>2, FS_Subset, FS_CardinalityType DEF Charged
  <2>2. Cardinality(Asked) <= Cardinality(Asked') + 1
    BY <1>2, <2>1, OneMore
  <2> QED
    BY <1>2, <2>1, <2>2
<1>7. /\ IsFiniteSet(Exposed') /\ Cardinality(Exposed') \in Nat
      /\ Cardinality(Exposed') <= Cardinality(Exposed) + 1
      /\ i \notin Asked' => Cardinality(Exposed') <= Cardinality(Exposed)
  BY <1>4, OneMore DEF Charged
<1>8. /\ IsFiniteSet(Strayed') /\ Cardinality(Strayed') \in Nat
      /\ Cardinality(Strayed') <= Cardinality(Strayed)
  BY <1>3, FS_Subset, FS_CardinalityType DEF Charged
<1>9. Causes \in Nat /\ Causes' \in Nat
  BY CausesNat, CausesNatNext
<1>10. /\ IsFiniteSet(PaidCalls)
       /\ Cardinality(PaidCalls) + Cardinality(Calling) + Cardinality(Exposed) + Cardinality(Strayed)
            <= Cardinality(Asked) + Causes
  BY DEF Charged
<1>11. Cardinality(PaidCalls) + Cardinality(Calling') + Cardinality(Exposed') + Cardinality(Strayed')
         <= Cardinality(Asked') + Causes'
  <2>1. CASE i \in Asked'
    BY <2>1, <1>5, <1>6, <1>7, <1>8, <1>9, <1>10, ChargedNats
  <2>2. CASE i \notin Asked'
    BY <2>2, <1>5, <1>6, <1>7, <1>8, <1>9, <1>10, ChargedNats
  <2> QED
    BY <2>1, <2>2
<1> QED
  BY <1>5, <1>6, <1>7, <1>8, <1>10, <1>11 DEF Charged

\* A rebalance under a busy owner: it strays, or its item is left exposed.
LEMMA RebalanceCharged ==
  ASSUME TypeInv, TypeInv', Charged, NEW w \in Workers, Rebalance(w)
  PROVE  Charged'
<1>1. /\ UNCHANGED <<log, worker, cache, paid>> /\ owner \in Workers /\ owner' = w
      /\ crashes' = crashes /\ cacheFaults' = cacheFaults /\ rebalances' = rebalances + 1
  BY DEF Rebalance, TypeInv, outputs
<1>2. Causes <= Causes' /\ Causes < Causes'
  <2>1. Causes' = Causes + 1
    BY <1>1 DEF Causes, TypeInv
  <2> QED
    BY <2>1, CausesNat
<1>3. /\ \A v \in Workers : (At(v, "call")' <=> At(v, "call")) /\ Message(v)' = Message(v)
      /\ \A v \in Workers : At(v, "parse")' <=> At(v, "parse")
  BY <1>1 DEF At, Message
<1>4. Calling' = Calling
  BY <1>3 DEF Calling
<1>5. Asked' = Asked
  BY <1>1, <1>3, <1>4 DEF Asked, Calling
<1>6. CASE At(owner, "parse")
  <2>1. Exposed' \subseteq Exposed
    BY <1>1, <1>5, <1>6 DEF Exposed, Attended, At
  <2>2. Strayed' \subseteq Strayed \cup {owner}
    BY <1>1, <1>3 DEF Strayed
  <2> QED
    BY <1>1, <1>2, <1>4, <1>5, <2>1, <2>2, ChargedStays
<1>7. CASE ~At(owner, "parse")
  <2>1. Exposed' \subseteq Exposed \cup {Message(owner)}
    BY <1>1, <1>5 DEF Exposed, Attended
  <2>2. Strayed' \subseteq Strayed
    BY <1>1, <1>3, <1>7 DEF Strayed
  <2> QED
    BY <1>1, <1>2, <1>4, <1>5, <2>1, <2>2, ChargedStays
<1> QED
  BY <1>6, <1>7

\* What happens to no worker: requests come in, results expire.
LEMMA OutsideCharged ==
  ASSUME TypeInv, TypeInv', CausesInv,
         (\E m \in Items \cup {Malformed} : Request(m)) \/ (\E i \in Items : Expire(i))
  PROVE  CausesInv'
<1>1. /\ UNCHANGED <<worker, owner, paid>>
      /\ \A v \in Workers : Busy(v) => Message(v)' = Message(v)
  <2>1. CASE \E m \in Items \cup {Malformed} : Request(m)
    <3>1. UNCHANGED <<worker, owner, paid>> /\ \E m : log' = Append(log, m)
      BY <2>1 DEF Request, outputs
    <3>2. \A o \in 1..Len(log) : log'[o] = log[o]
      BY <3>1 DEF TypeInv
    <3> QED
      BY <3>1, <3>2, BusyWorker DEF Message
  <2>2. CASE \E i \in Items : Expire(i)
    BY <2>2 DEF Expire, partition, outputs, Message
  <2> QED
    BY <2>1, <2>2
<1>2. Calling' = Calling /\ Strayed' = Strayed
  BY <1>1 DEF Calling, Strayed, At
<1>3. \A v \in Calling : Message(v)' = Message(v)
  BY <1>1 DEF Calling, Busy, At
<1>4. Asked' = Asked
  BY <1>1, <1>2, <1>3 DEF Asked
<1>5. \A k : Attended(k)' <=> Attended(k)
  BY <1>1 DEF Attended, Busy, At, TypeInv
<1>6. StoresPaid'
  BY <1>1 DEF CausesInv, StoresPaid, At, Busy
<1>7. CASE \E m \in Items \cup {Malformed} : Request(m)
  <2>1. cache' = cache /\ Causes' = Causes
    BY <1>7 DEF Request, faults, Causes
  <2>2. Exposed' \subseteq Exposed
    BY <1>4, <1>5, <2>1 DEF Exposed
  <2>3. Causes <= Causes'
    BY <2>1, CausesNat
  <2> QED
    BY <1>1, <1>2, <1>4, <1>6, <2>2, <2>3, ChargedStays DEF CausesInv
<1>8. CASE \E i \in Items : Expire(i)
  <2> PICK i \in Items : Expire(i)
    BY <1>8
  <2>1. cache' = cache \ {i} /\ Causes' = Causes + 1
    BY DEF Expire, Causes, TypeInv
  <2>2. Exposed' \subseteq Exposed \cup {i}
    BY <1>4, <1>5, <2>1 DEF Exposed
  <2>3. Causes <= Causes' /\ Causes < Causes'
    BY <2>1, CausesNat
  <2> QED
    BY <1>1, <1>2, <1>4, <1>6, <2>2, <2>3, ChargedStays DEF CausesInv
<1> QED
  BY <1>7, <1>8

LEMMA StoresStayPaid ==
  ASSUME TypeInv, StoresPaid, NEW w \in Workers, Moved(w),
         paid' = paid, ~At(w, "store")'
  PROVE  StoresPaid'
  BY DEF StoresPaid, Moved, At

LEMMA CausesStep == TypeInv /\ TypeInv' /\ CausesInv /\ [Next]_vars => CausesInv'
<1> SUFFICES ASSUME TypeInv, TypeInv', CausesInv, [Next]_vars PROVE CausesInv'
  OBVIOUS
<1>a. StoresPaid /\ Charged
  BY DEF CausesInv
<1>1. ASSUME NEW w \in Workers, Fetch(w) PROVE CausesInv'
  <2>1. /\ At(w, "next") /\ owner = w /\ owner' = owner /\ paid' = paid /\ cache' = cache /\ Causes' = Causes
        /\ log' = log /\ worker' = [worker EXCEPT ![w] = [step |-> "parse", at |-> position + 1]]
    BY <1>1 DEF Fetch, outputs, faults, Causes
  <2>2. Moved(w) /\ worker'[w].step = "parse"
    BY <2>1 DEF Moved, Message, TypeInv, WorkerType
  <2>3. Charged'
    BY <1>a, <2>1, <2>2, QuietCharged DEF At
  <2> QED
    BY <1>a, <2>1, <2>2, <2>3, StoresStayPaid DEF CausesInv, At
<1>2. ASSUME NEW w \in Workers, Refuse(w) \/ Publish(w) \/ SendDlq(w) \/ Store(w) \/ (LookUp(w) /\ Message(w) \in cache)
      PROVE  CausesInv'
  <2>1. /\ Busy(w) /\ ~At(w, "call") /\ UNCHANGED <<partition, paid>> /\ Causes' = Causes
        /\ \E s \in {"publish", "reject", "commit"} : Goto(w, s)
    BY <1>2 DEF Refuse, Publish, SendDlq, Store, LookUp, Busy, At, outputs, faults, Causes
  <2>2. cache \subseteq cache' /\ (At(w, "store") => Message(w) \in cache')
    BY <1>2 DEF Refuse, Publish, SendDlq, Store, LookUp, At
  <2>3. Moved(w) /\ worker'[w].step \in {"publish", "reject", "commit"}
    BY <2>1, GotoMoves DEF partition
  <2>4. Charged'
    BY <1>a, <2>1, <2>2, <2>3, QuietCharged DEF At, partition
  <2> QED
    BY <1>a, <2>1, <2>3, <2>4, StoresStayPaid DEF CausesInv, At
<1>3. ASSUME NEW w \in Workers, PublishFails(w) \/ Commit(w) \/ CommitRejected(w)
      PROVE  CausesInv'
  <2>1. /\ ~At(w, "call") /\ ~At(w, "store") /\ Release(w) /\ Causes' = Causes
        /\ UNCHANGED <<log, owner, paid, cache>>
    BY <1>3 DEF PublishFails, Commit, CommitRejected, At, partition, outputs, faults, Causes
  <2>2. Moved(w) /\ worker'[w].step = "next"
    BY <2>1, ReleaseMoves
  <2>3. Charged'
    BY <1>a, <2>1, <2>2, QuietCharged DEF At
  <2> QED
    BY <1>a, <2>1, <2>2, <2>3, StoresStayPaid DEF CausesInv, At
<1>4. ASSUME NEW w \in Workers, LookUpFails(w) \/ (LookUp(w) /\ Message(w) \notin cache)
      PROVE  CausesInv'
  <2>1. /\ At(w, "parse") /\ Goto(w, "call") /\ UNCHANGED <<partition, paid, cache>>
    BY <1>4 DEF LookUpFails, LookUp, outputs
  <2>2. Message(w) \in Items
    BY <1>4, <2>1, BusyWorker DEF LookUpFails, LookUp, TypeInv, Busy, At
  <2>3. IF Message(w) \in cache THEN Causes' = Causes + 1 ELSE Causes' = Causes
    <3>1. CASE LookUpFails(w)
      <4>1. Causes' = Causes + 1
        BY <3>1 DEF LookUpFails, Causes, TypeInv
      <4> QED
        BY <3>1, <4>1 DEF LookUpFails
    <3>2. CASE LookUp(w) /\ Message(w) \notin cache
      BY <3>2 DEF LookUp, faults, Causes
    <3> QED
      BY <1>4, <3>1, <3>2
  <2>4. Charged'
    BY <1>a, <2>1, <2>2, <2>3, MissCharged DEF partition
  <2>5. Moved(w) /\ worker'[w].step = "call"
    BY <2>1, GotoMoves DEF Busy, At, partition
  <2> QED
    BY <1>a, <2>1, <2>4, <2>5, StoresStayPaid DEF CausesInv, At
<1>5. ASSUME NEW w \in Workers, CallSucceeds(w) PROVE CausesInv'
  <2>1. Charged' /\ paid'[Message(w)] > 0
    BY <1>a, <1>5, PaidCharged
  <2>2. /\ Message(w) \in Items /\ Busy(w) /\ log' = log
        /\ paid' = [paid EXCEPT ![Message(w)] = @ + 1]
    BY <1>5 DEF CallSucceeds, TypeInv, WorkerType, At, Busy, partition
  <2>3. Moved(w) /\ Message(w)' = Message(w)
    BY <1>5, <2>2, GotoMoves DEF CallSucceeds
  <2>4. \A i \in Items : paid[i] > 0 => paid'[i] > 0
    BY <2>1, <2>2 DEF TypeInv
  <2>5. ASSUME NEW v \in Workers \ {w}, At(v, "store")' PROVE paid'[Message(v)'] > 0
    <3>1. At(v, "store") /\ Message(v)' = Message(v)
      BY <2>3, <2>5 DEF Moved, At
    <3>2. Message(v) \in Items /\ paid[Message(v)] > 0
      BY <1>a, <3>1 DEF StoresPaid, TypeInv, WorkerType, At
    <3> QED
      BY <2>4, <3>1, <3>2
  <2>6. StoresPaid'
    BY <2>1, <2>3, <2>5 DEF StoresPaid
  <2> QED
    BY <2>1, <2>6 DEF CausesInv
<1>6. ASSUME NEW w \in Workers, CallFails(w) PROVE CausesInv'
  <2>1. /\ At(w, "call") /\ Goto(w, "reject") /\ UNCHANGED <<partition, paid, cache>> /\ Causes' = Causes
    BY <1>6 DEF CallFails, outputs, faults, Causes
  <2>2. Moved(w) /\ worker'[w].step = "reject"
    BY <2>1, GotoMoves DEF Busy, At, partition
  <2>3. Causes <= Causes'
    BY <2>1, CausesNat
  <2>4. Charged'
    BY <1>a, <2>1, <2>2, <2>3, LostCallCharged DEF partition
  <2> QED
    BY <1>a, <2>1, <2>2, <2>4, StoresStayPaid DEF CausesInv, At
<1>7. ASSUME NEW w \in Workers, StoreFails(w) PROVE CausesInv'
  <2>1. /\ At(w, "store") /\ Goto(w, "publish") /\ UNCHANGED <<partition, paid, cache>>
        /\ Causes' = Causes + 1
    BY <1>7 DEF StoreFails, outputs, Causes, TypeInv
  <2>2. Moved(w) /\ worker'[w].step = "publish"
    BY <2>1, GotoMoves DEF Busy, At, partition
  <2>3. Causes < Causes'
    BY <2>1, CausesNat
  <2>4. Charged'
    BY <1>a, <2>1, <2>2, <2>3, CausedCharged DEF partition, At
  <2> QED
    BY <1>a, <2>1, <2>2, <2>4, StoresStayPaid DEF CausesInv, At
<1>8. ASSUME NEW w \in Workers, Crash(w) PROVE CausesInv'
  <2>1. /\ Release(w) /\ UNCHANGED <<log, paid, cache>> /\ (owner' = owner \/ owner = w)
        /\ Causes' = Causes + 1
    BY <1>8 DEF Crash, outputs, Causes, TypeInv
  <2>2. Moved(w) /\ worker'[w].step = "next"
    BY <2>1, ReleaseMoves
  <2>3. Causes < Causes' /\ Causes <= Causes'
    BY <2>1, CausesNat
  <2>4. CASE At(w, "call")
    <3>1. Charged'
      BY <1>a, <2>1, <2>2, <2>3, <2>4, LostCallCharged
    <3> QED
      BY <1>a, <2>1, <2>2, <3>1, StoresStayPaid DEF CausesInv, At
  <2>5. CASE ~At(w, "call")
    <3>1. Charged'
      BY <1>a, <2>1, <2>2, <2>3, <2>5, CausedCharged DEF At
    <3> QED
      BY <1>a, <2>1, <2>2, <3>1, StoresStayPaid DEF CausesInv, At
  <2> QED
    BY <2>4, <2>5
<1>9. ASSUME NEW w \in Workers, Rebalance(w) PROVE CausesInv'
  <2>1. UNCHANGED <<log, worker, paid>>
    BY <1>9 DEF Rebalance, outputs
  <2> QED
    BY <1>a, <1>9, <2>1, RebalanceCharged DEF CausesInv, StoresPaid, At, Message
<1>10. CASE UNCHANGED vars
  BY <1>10 DEF vars, partition, outputs, faults, CausesInv, StoresPaid, Charged, PaidCalls, Calling, Asked,
               Exposed, Attended, Strayed, Causes, At, Message
<1> QED
  BY <1>1, <1>2, <1>3, <1>4, <1>5, <1>6, <1>7, <1>8, <1>9, <1>10, OutsideCharged DEF Next, Step

LEMMA CausesInit == Init => CausesInv
<1> SUFFICES ASSUME Init PROVE CausesInv
  OBVIOUS
<1>1. PaidCalls = {} /\ Calling = {} /\ Strayed = {} /\ Causes = 0 /\ StoresPaid
  BY DEF Init, PaidCalls, Calling, Strayed, Causes, StoresPaid, At, Free
<1>2. Asked = {} /\ Exposed = {}
  BY <1>1 DEF Init, Asked, Exposed
<1> QED
  BY <1>1, <1>2, FS_EmptySet DEF CausesInv, Charged

\* worker.py:169: for any number of items, workers and redeliveries, every item is
\* paid for once, and once more at most for each crash, rebalance and failure of Redis.
THEOREM RepeatsAreCaused == Spec => []RepeatsHaveCauses
<1>1. TypeInv /\ CausesInv => RepeatsHaveCauses
  <2> SUFFICES ASSUME TypeInv, CausesInv PROVE RepeatsHaveCauses
    OBVIOUS
  <2>1. Charged
    BY DEF CausesInv
  <2> DEFINE asking == [w \in Calling |-> Message(w)]
             called == {i \in Asked : \E w \in Calling : asking[w] = i}
  <2>2. IsFiniteSet(called) /\ Cardinality(called) <= Cardinality(Calling)
    <3>1. \A w \in Calling : asking[w] \in called
      BY DEF TypeInv, WorkerType, Calling, At, Asked
    <3>2. asking \in Surjection(Calling, called)
      BY <3>1 DEF Surjection
    <3> QED
      BY <2>1, <3>2, FS_Surjection DEF Charged
  <2>3. PaidItems \subseteq Asked /\ Asked \subseteq PaidItems \cup called
    BY DEF Asked, PaidItems
  <2> HIDE DEF called
  <2>4. IsFiniteSet(PaidItems) /\ Cardinality(PaidItems) \in Nat /\ Cardinality(called) \in Nat
    BY <2>1, <2>2, <2>3, FS_Subset, FS_CardinalityType DEF Charged
  <2>5. Cardinality(Asked) <= Cardinality(PaidItems) + Cardinality(called)
    <3>1. /\ IsFiniteSet(PaidItems \cup called)
          /\ Cardinality(PaidItems \cup called) <= Cardinality(PaidItems) + Cardinality(called)
      <4>1. IsFiniteSet(PaidItems \cap called)
        BY <2>2, FS_Subset
      <4>2. Cardinality(PaidItems \cap called) \in Nat
        BY <4>1, FS_CardinalityType
      <4>3. /\ IsFiniteSet(PaidItems \cup called)
            /\ Cardinality(PaidItems \cup called) =
                 Cardinality(PaidItems) + Cardinality(called) - Cardinality(PaidItems \cap called)
        BY <2>2, <2>4, FS_Union
      <4> QED
        BY <2>4, <4>2, <4>3
    <3>2. Cardinality(PaidItems \cup called) \in Nat /\ Cardinality(Asked) \in Nat
      BY <2>1, <3>1, FS_CardinalityType DEF Charged
    <3> QED
      BY <2>3, <2>4, <3>1, <3>2, FS_Subset
  <2>6. Cardinality(PaidCalls) <= Cardinality(PaidItems) + Causes
    BY <2>1, <2>2, <2>4, <2>5, ChargedNats, CausesNat DEF Charged
  <2> QED
    BY <2>4, <2>6, CausesNat DEF RepeatsHaveCauses, Causes, TypeInv
<1> QED
  BY <1>1, TypeInit, TypeStep, CausesInit, CausesStep, PTL DEF Spec
=============================================================================
