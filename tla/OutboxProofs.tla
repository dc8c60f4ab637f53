---------------------------- MODULE OutboxProofs ----------------------------
(***************************************************************************)
(* Theorems about Outbox, for every number of events, relays, attempts,    *)
(* failures and crashes.                                                   *)
(***************************************************************************)
EXTENDS Outbox, TLAPS, FiniteSetTheorems

-----------------------------------------------------------------------------
(* The backoff and the clock arithmetic stay in Nat.                       *)

\* The smaller of two delays (min of the backoff and the cap) bounds both.
LEMMA LeastNat == \A a, b \in Nat : Least(a, b) \in Nat /\ Least(a, b) <= a /\ Least(a, b) <= b
  BY DEF Least

\* The time left to next_attempt_at is never negative.
LEMMA LeftNat == \A d, p \in Nat : Left(d, p) \in Nat
  BY DEF Left

\* Every counted failure has a backoff, however many attempts were made.
LEMMA DelayNat == \A n \in Nat \ {0} : Delay(n) \in Nat
<1> SUFFICES ASSUME NEW n \in Nat \ {0} PROVE Delay(n) \in Nat
  OBVIOUS
<1>1. Least(n, 8) \in 1 .. 8
  BY DEF Least
<1>2. Backoff[Least(n, 8)] \in Nat
  BY <1>1 DEF Backoff
<1> QED
  BY <1>2, LeastNat, OutboxAssumption DEF Delay

\* A relay that is not polling works on an event of the table.
LEMMA BusyRelay ==
  ASSUME TypeOK, NEW r \in Relays, relay[r].step # "poll"
  PROVE  relay[r] \in Busy /\ Current(r) \in Events
  BY DEF TypeOK, Idle, Busy, Current

\* Starting a batch, turning to its next event and moving within the handling
\* of one event keep every relay a well-formed process.
LEMMA StartType ==
  ASSUME TypeOK, NEW r \in Relays, NEW rows \in SUBSET Events, NEW elapsed \in Nat,
         Start(r, rows, elapsed)
  PROVE  relay' \in [Relays -> {Idle} \cup Busy]
<1>1. PICK e \in rows : relay' = [relay EXCEPT ![r] =
          [step |-> "send", event |-> e, queue |-> rows \ {e}, elapsed |-> elapsed]]
  BY DEF Start
<1>2. [step |-> "send", event |-> e, queue |-> rows \ {e}, elapsed |-> elapsed] \in Busy
  BY DEF Busy
<1> QED
  BY <1>1, <1>2 DEF TypeOK

\* Turning to the next event of a batch keeps the relay well formed.
LEMMA AdvanceType ==
  ASSUME TypeOK, NEW r \in Relays, relay[r].step # "poll", Advance(r)
  PROVE  relay' \in [Relays -> {Idle} \cup Busy]
<1>1. CASE relay[r].queue = {}
  BY <1>1 DEF TypeOK, Advance
<1>2. CASE relay[r].queue # {}
  BY <1>2, BusyRelay, StartType DEF Advance, Busy
<1> QED
  BY <1>1, <1>2

\* Moving on within one event keeps the relay well formed.
LEMMA GotoType ==
  ASSUME TypeOK, NEW r \in Relays, relay[r].step # "poll",
         NEW step \in {"send", "ack", "fail", "dlq", "dead"}, Goto(r, step)
  PROVE  relay' \in [Relays -> {Idle} \cup Busy]
<1>1. [relay[r] EXCEPT !.step = step] \in Busy
  BY BusyRelay DEF Busy
<1> QED
  BY <1>1 DEF Goto, TypeOK

\* The columns a failed attempt writes keep their types.
LEMMA RecordFailureType ==
  ASSUME TypeOK, NEW r \in Relays, relay[r].step # "poll",
         NEW e \in Events, NEW delay \in Nat, RecordFailure(r, e, delay)
  PROVE  /\ attempts' \in [Events -> Nat]
         /\ wait' \in [Events -> Nat]
         /\ lockedBy' \in [Events -> Relays \cup {NoRelay, GoneRelay}]
         /\ lockAge' \in [Events -> Nat]
<1>1. Left(delay, relay[r].elapsed) \in Nat
  BY BusyRelay, LeftNat DEF Busy
<1> QED
  BY <1>1 DEF RecordFailure, TypeOK

-----------------------------------------------------------------------------
(* Type correctness.                                                       *)

\* Every action of the relay, of the API and of the clock keeps the columns of
\* the outbox table and the state of the relay processes well typed.
LEMMA TypeStep == TypeOK /\ [Next]_vars => TypeOK'
<1> SUFFICES ASSUME TypeOK, [Next]_vars PROVE TypeOK'
  OBVIOUS
<1>1. ASSUME NEW e \in Events, Enqueue(e) PROVE TypeOK'
  BY <1>1 DEF TypeOK, Enqueue, brokerVars
<1>2. ASSUME NEW r \in Relays, ClaimBatch(r) PROVE TypeOK'
  <2> DEFINE rows == FirstRows(Claimable)
  <2>1. rows \in SUBSET Events
    BY DEF FirstRows, Claimable, TypeOK
  <2>2. Start(r, rows, 0)
    BY <1>2 DEF ClaimBatch
  <2> HIDE DEF rows
  <2>3. relay' \in [Relays -> {Idle} \cup Busy]
    BY <2>1, <2>2, StartType
  <2> QED
    BY <1>2, <2>3 DEF ClaimBatch, TypeOK, brokerVars
<1>3. ASSUME NEW r \in Relays, SendAccepted(r) PROVE TypeOK'
  BY <1>3, BusyRelay, GotoType DEF SendAccepted, TypeOK, rowVars
<1>4. ASSUME NEW r \in Relays, SendFailed(r) PROVE TypeOK'
  BY <1>4, BusyRelay, GotoType DEF SendFailed, TypeOK, rowVars
<1>5. ASSUME NEW r \in Relays, MarkPublished(r) PROVE TypeOK'
  BY <1>5, BusyRelay, AdvanceType DEF MarkPublished, TypeOK, brokerVars
<1>6. ASSUME NEW r \in Relays, SkipLost(r) PROVE TypeOK'
  BY <1>6, BusyRelay, AdvanceType DEF SkipLost, TypeOK, rowVars, brokerVars
<1>7. ASSUME NEW r \in Relays, ScheduleRetry(r) PROVE TypeOK'
  <2>1. relay[r].step # "poll" /\ Current(r) \in Events
    BY <1>7, BusyRelay DEF ScheduleRetry
  <2>2. Delay(attempts[Current(r)] + 1) \in Nat
    BY <2>1, DelayNat DEF TypeOK
  <2> QED
    BY <1>7, <2>1, <2>2, AdvanceType, RecordFailureType
    DEF ScheduleRetry, TypeOK, brokerVars
<1>8. ASSUME NEW r \in Relays, OpenDlqTransaction(r) PROVE TypeOK'
  BY <1>8, BusyRelay, GotoType DEF OpenDlqTransaction, TypeOK, brokerVars
<1>9. ASSUME NEW r \in Relays, DlqAccepted(r) PROVE TypeOK'
  BY <1>9, BusyRelay, GotoType DEF DlqAccepted, TypeOK, rowVars
<1>10. ASSUME NEW r \in Relays, DlqFailed(r) PROVE TypeOK'
  <2>1. relay[r].step # "poll" /\ Current(r) \in Events /\ LockTTL \in Nat
    BY <1>10, BusyRelay, OutboxAssumption DEF DlqFailed
  <2>2. RecordFailure(r, Current(r), LockTTL) /\ Advance(r)
    BY <1>10 DEF DlqFailed
  <2>3. dlq' \subseteq Events /\ failures' \in Nat
    BY <1>10, <2>1 DEF DlqFailed, TypeOK
  <2> QED
    BY <1>10, <2>1, <2>2, <2>3, AdvanceType, RecordFailureType DEF DlqFailed, TypeOK
<1>11. ASSUME NEW r \in Relays, CommitDeadLetter(r) PROVE TypeOK'
  BY <1>11, BusyRelay, AdvanceType, RecordFailureType
  DEF CommitDeadLetter, TypeOK, brokerVars
<1>12. ASSUME NEW r \in Relays, Crash(r) PROVE TypeOK'
  BY <1>12 DEF Crash, TypeOK, brokerVars
<1>13. CASE Tick
  <2>1. \A e \in Events : Least(lockAge[e] + 1, LockTTL + 1) \in Nat /\ Left(wait[e], 1) \in Nat
    BY OutboxAssumption DEF TypeOK, Least, Left
  <2>2. ASSUME NEW r \in Relays, relay[r].step # "poll"
        PROVE  [relay[r] EXCEPT !.elapsed = Least(@ + 1, LockTTL + DelayCap)] \in Busy
    <3>1. relay[r] \in Busy
      BY <2>2, BusyRelay
    <3>2. Least(relay[r].elapsed + 1, LockTTL + DelayCap) \in Nat
      BY <3>1, OutboxAssumption DEF Busy, Least
    <3> QED
      BY <3>1, <3>2 DEF Busy
  <2>3. lockAge' \in [Events -> Nat] /\ wait' \in [Events -> Nat]
    BY <1>13, <2>1 DEF Tick
  <2>4. relay' \in [Relays -> {Idle} \cup Busy]
    BY <1>13, <2>2 DEF Tick, TypeOK
  <2> QED
    BY <1>13, <2>3, <2>4 DEF Tick, TypeOK, brokerVars
<1>14. CASE UNCHANGED vars
  BY <1>14 DEF vars, rowVars, brokerVars, TypeOK
<1> QED
  BY <1>1, <1>2, <1>3, <1>4, <1>5, <1>6, <1>7, <1>8, <1>9, <1>10, <1>11, <1>12, <1>13, <1>14
  DEF Next, RelayStep

\* The outbox table and the relays are well typed in every reachable state.
THEOREM TypeCorrect == Spec => []TypeOK
<1>1. Init => TypeOK
  BY OutboxAssumption DEF Init, TypeOK, Idle
<1> QED
  BY <1>1, TypeStep, PTL DEF Spec

-----------------------------------------------------------------------------
(* The inductive invariant.                                                *)

\* Leaving an event touches no other relay, and whatever the relay turns to
\* next was already in its batch.
LEMMA AdvanceEffect ==
  ASSUME TypeOK, NEW r \in Relays, relay[r].step # "poll", Advance(r)
  PROVE  /\ \A s \in Relays : s # r => relay'[s] = relay[s]
         /\ relay'[r].step \in {"poll", "send"}
         /\ relay'[r].step # "poll"
                => {relay'[r].event} \cup relay'[r].queue \subseteq relay[r].queue
<1>1. CASE relay[r].queue = {}
  BY <1>1 DEF Advance, TypeOK, Idle
<1>2. CASE relay[r].queue # {}
  <2>1. PICK e \in relay[r].queue : relay' = [relay EXCEPT ![r] =
            [step |-> "send", event |-> e, queue |-> relay[r].queue \ {e},
             elapsed |-> relay[r].elapsed]]
    BY <1>2 DEF Advance, Start
  <2> QED
    BY <2>1 DEF TypeOK
<1> QED
  BY <1>1, <1>2

\* Moving on within one event changes neither the event, nor the rest of the
\* batch, nor any other relay.
LEMMA GotoEffect ==
  ASSUME TypeOK, NEW r \in Relays, relay[r].step # "poll", NEW step, Goto(r, step)
  PROVE  /\ \A s \in Relays : s # r => relay'[s] = relay[s]
         /\ relay'[r].step = step
         /\ relay'[r].event = relay[r].event
         /\ relay'[r].queue = relay[r].queue
<1>1. relay[r] \in Busy
  BY BusyRelay
<1> QED
  BY <1>1 DEF Goto, TypeOK, Busy

\* Recording a failed attempt only touches the columns of its row, gives up the
\* claim and counts the attempt.
LEMMA RecordFailureEffect ==
  ASSUME TypeOK, NEW r \in Relays, NEW e \in Events, NEW delay, RecordFailure(r, e, delay)
  PROVE  /\ attempts'[e] = attempts[e] + 1
         /\ lockedBy'[e] = NoRelay
         /\ \A f \in Events : f # e => attempts'[f] = attempts[f] /\ lockedBy'[f] = lockedBy[f]
  BY DEF RecordFailure, TypeOK

\* A step that moves no relay, grows the topics and the committed rows and leaves
\* the columns alone keeps every conjunct: the API inserting a row is one.
LEMMA EnqueueInv == ASSUME Inv, NEW e \in Events, Enqueue(e) PROVE Inv'
<1>1. TypeOK'
  BY TypeStep DEF Inv, Next
<1> QED
  BY <1>1 DEF Inv, Enqueue, brokerVars, ClaimsAwaitVerdict, DeadOnlyAfterAttempts,
              RelaysBelieveTruth, VerdictsBacked, Current, TypeOK

\* A claim only takes rows without verdict that nobody holds FOR UPDATE, so it
\* cannot take the row of an open dead-letter transaction.
LEMMA ClaimInv == ASSUME Inv, NEW r \in Relays, ClaimBatch(r) PROVE Inv'
<1>1. TypeOK'
  BY TypeStep DEF Inv, Next, RelayStep
<1> DEFINE rows == FirstRows(Claimable)
<1>2. /\ rows \subseteq committed \ (published \cup deadLettered)
      /\ \A e \in rows : rowLock[e] = NoRelay
  BY DEF FirstRows, Claimable
<1>3. /\ lockedBy' = [e \in Events |-> IF e \in rows THEN r ELSE lockedBy[e]]
      /\ Start(r, rows, 0)
      /\ relay[r].step = "poll"
      /\ UNCHANGED <<committed, published, deadLettered, attempts, rowLock, topic, dlq>>
  BY DEF ClaimBatch, brokerVars
<1> HIDE DEF rows
<1>4. ClaimsAwaitVerdict'
  BY <1>2, <1>3 DEF ClaimsAwaitVerdict, Inv
<1>5. DeadOnlyAfterAttempts' /\ VerdictsBacked'
  BY <1>3 DEF DeadOnlyAfterAttempts, VerdictsBacked, Inv
<1>6. RelaysBelieveTruth'
  <2>1. PICK e \in rows : relay' = [relay EXCEPT ![r] =
            [step |-> "send", event |-> e, queue |-> rows \ {e}, elapsed |-> 0]]
    BY <1>3 DEF Start
  <2> SUFFICES ASSUME NEW s \in Relays PROVE RelaysBelieveTruth!(s)'
    BY DEF RelaysBelieveTruth
  <2>2. CASE s = r
    BY <2>1, <2>2, <1>2, <1>3 DEF Inv, TypeOK, Current
  <2>3. CASE s # r
    <3>1. relay'[s] = relay[s]
      BY <2>1, <2>3 DEF Inv, TypeOK
    <3>2. relay[s].step \in {"dlq", "dead"} => Current(s) \notin rows /\ Current(s) \in Events
      BY <1>2, OutboxAssumption, BusyRelay DEF Inv, RelaysBelieveTruth, TypeOK
    <3> QED
      BY <3>1, <3>2, <1>3 DEF Inv, RelaysBelieveTruth, Current
  <2> QED
    BY <2>2, <2>3
<1> QED
  BY <1>1, <1>4, <1>5, <1>6 DEF Inv

\* The broker's answer to a send changes no row; after an acknowledgement the
\* topic holds the event.
LEMMA SendInv ==
  ASSUME Inv, NEW r \in Relays, SendAccepted(r) \/ SendFailed(r)
  PROVE  Inv'
<1>1. TypeOK'
  BY TypeStep DEF Inv, Next, RelayStep
<1>2. /\ UNCHANGED rowVars
      /\ topic \subseteq topic'
      /\ dlq' = dlq
      /\ relay[r].step = "send"
  BY DEF SendAccepted, SendFailed
<1>3. PICK step \in {"ack", "fail"} : Goto(r, step) /\ (step = "ack" => Current(r) \in topic')
  BY DEF SendAccepted, SendFailed
<1>4. ClaimsAwaitVerdict' /\ DeadOnlyAfterAttempts' /\ VerdictsBacked'
  BY <1>2 DEF rowVars, ClaimsAwaitVerdict, DeadOnlyAfterAttempts, VerdictsBacked, Inv
<1>5. RelaysBelieveTruth'
  BY <1>2, <1>3, GotoEffect DEF Inv, RelaysBelieveTruth, Current, rowVars
<1> QED
  BY <1>1, <1>4, <1>5 DEF Inv

\* Only the owner of the claim publishes, so no dead-letter transaction of
\* another relay can be open on the row.
LEMMA MarkPublishedInv == ASSUME Inv, NEW r \in Relays, MarkPublished(r) PROVE Inv'
<1>1. TypeOK'
  BY TypeStep DEF Inv, Next, RelayStep
<1> DEFINE e == Current(r)
<1>2. /\ relay[r].step = "ack"
      /\ e \in Events
      /\ lockedBy[e] = r
  BY BusyRelay DEF MarkPublished, Owns, Inv
<1>3. /\ published' = published \cup {e}
      /\ attempts' = [attempts EXCEPT ![e] = @ + 1]
      /\ lockedBy' = [lockedBy EXCEPT ![e] = NoRelay]
      /\ Advance(r)
      /\ UNCHANGED <<committed, deadLettered, rowLock, topic, dlq>>
  BY DEF MarkPublished, brokerVars
<1>4. e \in committed \ (published \cup deadLettered) /\ e \in topic
  BY <1>2, OutboxAssumption DEF Inv, ClaimsAwaitVerdict, RelaysBelieveTruth
<1>5. ClaimsAwaitVerdict' /\ DeadOnlyAfterAttempts' /\ VerdictsBacked'
  BY <1>2, <1>3, <1>4 DEF Inv, TypeOK, ClaimsAwaitVerdict, DeadOnlyAfterAttempts, VerdictsBacked
<1>6. RelaysBelieveTruth'
  <2> SUFFICES ASSUME NEW s \in Relays PROVE RelaysBelieveTruth!(s)'
    BY DEF RelaysBelieveTruth
  <2>1. CASE s = r
    BY <1>2, <1>3, <2>1, AdvanceEffect DEF Inv, RelaysBelieveTruth, Current
  <2>2. CASE s # r
    <3>1. relay'[s] = relay[s]
      BY <1>2, <1>3, <2>2, AdvanceEffect DEF Inv
    <3>2. relay[s].step \in {"dlq", "dead"} => Current(s) # e
      BY <1>2, <2>2 DEF Inv, RelaysBelieveTruth
    <3> QED
      BY <1>3, <3>1, <3>2 DEF Inv, RelaysBelieveTruth, Current, TypeOK
  <2> QED
    BY <2>1, <2>2
<1> QED
  BY <1>1, <1>5, <1>6 DEF Inv

\* Returning early from a mark leaves the table alone, and what the relay knows
\* of its next event was already known of its batch.
LEMMA SkipLostInv == ASSUME Inv, NEW r \in Relays, SkipLost(r) PROVE Inv'
<1>1. TypeOK'
  BY TypeStep DEF Inv, Next, RelayStep
<1>2. /\ relay[r].step # "poll"
      /\ Advance(r)
      /\ UNCHANGED <<rowVars, topic, dlq>>
  BY DEF SkipLost, brokerVars
<1>3. ClaimsAwaitVerdict' /\ DeadOnlyAfterAttempts' /\ VerdictsBacked'
  BY <1>2 DEF rowVars, ClaimsAwaitVerdict, DeadOnlyAfterAttempts, VerdictsBacked, Inv
<1>4. RelaysBelieveTruth'
  BY <1>2, AdvanceEffect DEF Inv, RelaysBelieveTruth, Current, rowVars
<1> QED
  BY <1>1, <1>3, <1>4 DEF Inv

\* The failed attempt gives up the claim; an open dead-letter transaction of
\* another relay is on another row, because that relay owns its claim.
LEMMA RecordFailureTruth ==
  ASSUME Inv, NEW r \in Relays, NEW delay, relay[r].step # "poll",
         Owns(r, Current(r)), RecordFailure(r, Current(r), delay), Advance(r),
         committed' = committed, topic' = topic, dlq \subseteq dlq',
         \A f \in Events \ {Current(r)} : rowLock'[f] = rowLock[f]
  PROVE  RelaysBelieveTruth'
<1> DEFINE e == Current(r)
<1>1. e \in Events /\ lockedBy[e] = r
  BY BusyRelay DEF Inv, Owns
<1>2. /\ attempts'[e] = attempts[e] + 1
      /\ \A f \in Events : f # e => attempts'[f] = attempts[f] /\ lockedBy'[f] = lockedBy[f]
  BY <1>1, RecordFailureEffect DEF Inv
<1> SUFFICES ASSUME NEW s \in Relays PROVE RelaysBelieveTruth!(s)'
  BY DEF RelaysBelieveTruth
<1>3. CASE s = r
  BY <1>3, AdvanceEffect DEF Inv, RelaysBelieveTruth, Current
<1>4. CASE s # r
  <2>1. relay'[s] = relay[s]
    BY <1>4, AdvanceEffect DEF Inv
  <2>2. relay[s].step \in {"dlq", "dead"} => Current(s) # e /\ Current(s) \in Events
    BY <1>1, <1>4, BusyRelay DEF Inv, RelaysBelieveTruth
  <2> QED
    BY <1>2, <2>1, <2>2 DEF Inv, RelaysBelieveTruth, Current
<1> QED
  BY <1>3, <1>4

\* A scheduled retry gives the claim back on a row that still has no verdict.
LEMMA ScheduleRetryInv == ASSUME Inv, NEW r \in Relays, ScheduleRetry(r) PROVE Inv'
<1>1. TypeOK'
  BY TypeStep DEF Inv, Next, RelayStep
<1> DEFINE e == Current(r)
           delay == Delay(attempts[e] + 1)
<1>2. /\ relay[r].step # "poll"
      /\ Owns(r, e)
      /\ RecordFailure(r, e, delay)
      /\ Advance(r)
      /\ UNCHANGED <<committed, published, deadLettered, rowLock, topic, dlq>>
  BY DEF ScheduleRetry, brokerVars
<1> HIDE DEF delay
<1>3. e \in Events
  BY <1>2, BusyRelay DEF Inv
<1>4. ClaimsAwaitVerdict' /\ DeadOnlyAfterAttempts' /\ VerdictsBacked'
  <2>1. /\ attempts'[e] = attempts[e] + 1
        /\ lockedBy'[e] = NoRelay
        /\ \A f \in Events : f # e => attempts'[f] = attempts[f] /\ lockedBy'[f] = lockedBy[f]
    BY <1>2, <1>3, RecordFailureEffect DEF Inv
  <2>2. e \notin deadLettered
    BY <1>2, <1>3, OutboxAssumption DEF Inv, ClaimsAwaitVerdict, Owns
  <2>3. DeadOnlyAfterAttempts'
    BY <1>2, <2>1, <2>2 DEF Inv, TypeOK, DeadOnlyAfterAttempts
  <2> QED
    BY <1>2, <2>1, <2>3 DEF Inv, ClaimsAwaitVerdict, VerdictsBacked
<1>5. RelaysBelieveTruth'
  BY <1>2, RecordFailureTruth
<1> QED
  BY <1>1, <1>4, <1>5 DEF Inv

\* Opening the dead-letter transaction is what establishes the claim, the row
\* lock and the spent attempts the later steps rely on.
LEMMA OpenDlqInv == ASSUME Inv, NEW r \in Relays, OpenDlqTransaction(r) PROVE Inv'
<1>1. TypeOK'
  BY TypeStep DEF Inv, Next, RelayStep
<1> DEFINE e == Current(r)
<1>2. /\ relay[r].step # "poll"
      /\ e \in Events
      /\ rowLock[e] = NoRelay
      /\ lockedBy[e] = r
      /\ attempts[e] + 1 >= MaxAttempts
      /\ rowLock' = [rowLock EXCEPT ![e] = r]
      /\ Goto(r, "dlq")
      /\ UNCHANGED <<committed, published, deadLettered, attempts, lockedBy, topic, dlq>>
  BY BusyRelay DEF OpenDlqTransaction, Owns, brokerVars, Inv
<1>3. ClaimsAwaitVerdict' /\ DeadOnlyAfterAttempts' /\ VerdictsBacked'
  BY <1>2 DEF Inv, ClaimsAwaitVerdict, DeadOnlyAfterAttempts, VerdictsBacked
<1>4. RelaysBelieveTruth'
  <2> SUFFICES ASSUME NEW s \in Relays PROVE RelaysBelieveTruth!(s)'
    BY DEF RelaysBelieveTruth
  <2>1. CASE s = r
    BY <1>2, <2>1, GotoEffect DEF Inv, RelaysBelieveTruth, Current, TypeOK
  <2>2. CASE s # r
    BY <1>2, <2>2, GotoEffect DEF Inv, RelaysBelieveTruth, Current, TypeOK
  <2> QED
    BY <2>1, <2>2
<1> QED
  BY <1>1, <1>3, <1>4 DEF Inv

\* Only the dead-letter topic learns the event while its row stays locked.
LEMMA DlqAcceptedInv == ASSUME Inv, NEW r \in Relays, DlqAccepted(r) PROVE Inv'
<1>1. TypeOK'
  BY TypeStep DEF Inv, Next, RelayStep
<1>2. /\ relay[r].step = "dlq"
      /\ dlq' = dlq \cup {Current(r)}
      /\ Goto(r, "dead")
      /\ UNCHANGED rowVars /\ topic' = topic
  BY DEF DlqAccepted
<1>3. ClaimsAwaitVerdict' /\ DeadOnlyAfterAttempts' /\ VerdictsBacked'
  BY <1>2 DEF rowVars, Inv, ClaimsAwaitVerdict, DeadOnlyAfterAttempts, VerdictsBacked
<1>4. RelaysBelieveTruth'
  BY <1>2, GotoEffect DEF rowVars, Inv, RelaysBelieveTruth, Current
<1> QED
  BY <1>1, <1>3, <1>4 DEF Inv

\* A dead-letter send that fails gives back the claim and the row together.
LEMMA DlqFailedInv == ASSUME Inv, NEW r \in Relays, DlqFailed(r) PROVE Inv'
<1>1. TypeOK'
  BY TypeStep DEF Inv, Next, RelayStep
<1> DEFINE e == Current(r)
<1>2. /\ relay[r].step = "dlq"
      /\ Owns(r, e)
      /\ e \in Events
      /\ RecordFailure(r, e, LockTTL)
      /\ Advance(r)
      /\ dlq \subseteq dlq'
      /\ rowLock' = [rowLock EXCEPT ![e] = NoRelay]
      /\ UNCHANGED <<committed, published, deadLettered, topic>>
  BY BusyRelay DEF DlqFailed, Inv, RelaysBelieveTruth, Owns
<1>3. ClaimsAwaitVerdict' /\ DeadOnlyAfterAttempts' /\ VerdictsBacked'
  <2>1. /\ attempts'[e] = attempts[e] + 1
        /\ lockedBy'[e] = NoRelay
        /\ \A f \in Events : f # e => attempts'[f] = attempts[f] /\ lockedBy'[f] = lockedBy[f]
    BY <1>2, RecordFailureEffect DEF Inv
  <2>2. e \notin deadLettered
    BY <1>2, OutboxAssumption DEF Inv, ClaimsAwaitVerdict, Owns
  <2>3. DeadOnlyAfterAttempts'
    BY <1>2, <2>1, <2>2 DEF Inv, TypeOK, DeadOnlyAfterAttempts
  <2> QED
    BY <1>2, <2>1, <2>3 DEF Inv, ClaimsAwaitVerdict, VerdictsBacked
<1>4. \A f \in Events \ {e} : rowLock'[f] = rowLock[f]
  BY <1>2 DEF Inv, TypeOK
<1>5. RelaysBelieveTruth'
  BY <1>2, <1>4, RecordFailureTruth
<1> QED
  BY <1>1, <1>3, <1>5 DEF Inv

\* The row dies in the transaction that counts its last attempt and drops its
\* claim, after the dead-letter topic has it.
LEMMA CommitDeadLetterInv == ASSUME Inv, NEW r \in Relays, CommitDeadLetter(r) PROVE Inv'
<1>1. TypeOK'
  BY TypeStep DEF Inv, Next, RelayStep
<1> DEFINE e == Current(r)
<1>2. /\ relay[r].step = "dead"
      /\ e \in Events
      /\ lockedBy[e] = r
      /\ attempts[e] + 1 >= MaxAttempts
      /\ e \in dlq
      /\ RecordFailure(r, e, 0)
      /\ Advance(r)
      /\ deadLettered' = deadLettered \cup {e}
      /\ rowLock' = [rowLock EXCEPT ![e] = NoRelay]
      /\ UNCHANGED <<committed, published, topic, dlq>>
  BY BusyRelay DEF CommitDeadLetter, Inv, RelaysBelieveTruth, brokerVars
<1>3. e \in committed \ (published \cup deadLettered)
  BY <1>2, OutboxAssumption DEF Inv, ClaimsAwaitVerdict
<1>4. ClaimsAwaitVerdict' /\ DeadOnlyAfterAttempts' /\ VerdictsBacked'
  BY <1>2, <1>3, RecordFailureEffect
  DEF Inv, TypeOK, ClaimsAwaitVerdict, DeadOnlyAfterAttempts, VerdictsBacked
<1>5. \A f \in Events \ {e} : rowLock'[f] = rowLock[f]
  BY <1>2 DEF Inv, TypeOK
<1>6. RelaysBelieveTruth'
  BY <1>2, <1>5, RecordFailureTruth DEF Owns
<1> QED
  BY <1>1, <1>4, <1>6 DEF Inv

\* A crash rolls the open transaction back and leaves the claims to a process
\* that no longer exists.
LEMMA CrashInv == ASSUME Inv, NEW r \in Relays, Crash(r) PROVE Inv'
<1>1. TypeOK'
  BY TypeStep DEF Inv, Next
<1>2. /\ relay' = [relay EXCEPT ![r] = Idle]
      /\ rowLock' = [e \in Events |-> IF rowLock[e] = r THEN NoRelay ELSE rowLock[e]]
      /\ lockedBy' = [e \in Events |-> IF lockedBy[e] = r THEN GoneRelay ELSE lockedBy[e]]
      /\ UNCHANGED <<committed, published, deadLettered, attempts, topic, dlq>>
  BY DEF Crash, brokerVars
<1>3. ClaimsAwaitVerdict'
  BY <1>2, OutboxAssumption DEF Inv, ClaimsAwaitVerdict
<1>4. DeadOnlyAfterAttempts' /\ VerdictsBacked'
  BY <1>2 DEF Inv, DeadOnlyAfterAttempts, VerdictsBacked
<1>5. RelaysBelieveTruth'
  <2> SUFFICES ASSUME NEW s \in Relays PROVE RelaysBelieveTruth!(s)'
    BY DEF RelaysBelieveTruth
  <2>1. CASE s = r
    BY <1>2, <2>1 DEF Inv, TypeOK, Idle
  <2>2. CASE s # r
    <3>1. relay'[s] = relay[s]
      BY <1>2, <2>2 DEF Inv, TypeOK
    <3>2. relay[s].step \in {"dlq", "dead"} => Current(s) \in Events
      BY BusyRelay DEF Inv
    <3> QED
      BY <1>2, <2>2, <3>1, <3>2 DEF Inv, RelaysBelieveTruth, Current
  <2> QED
    BY <2>1, <2>2
<1> QED
  BY <1>1, <1>3, <1>4, <1>5 DEF Inv

\* Time only moves distances; no conjunct but the types mentions one.
LEMMA TickInv == ASSUME Inv, Tick PROVE Inv'
<1>1. TypeOK'
  BY TypeStep DEF Inv, Next
<1>2. /\ \A s \in Relays : relay'[s].step = relay[s].step /\ relay'[s].event = relay[s].event
                           /\ relay'[s].queue = relay[s].queue
      /\ UNCHANGED <<committed, published, deadLettered, attempts, lockedBy, rowLock, topic, dlq>>
  <2>1. ASSUME NEW s \in Relays, relay[s].step # "poll"
        PROVE  relay'[s].step = relay[s].step /\ relay'[s].event = relay[s].event
                 /\ relay'[s].queue = relay[s].queue
    BY <2>1, BusyRelay DEF Tick, Inv, Busy
  <2>2. ASSUME NEW s \in Relays, relay[s].step = "poll" PROVE relay'[s] = relay[s]
    BY <2>2 DEF Tick
  <2> QED
    BY <2>1, <2>2 DEF Tick, brokerVars
<1> QED
  BY <1>1, <1>2 DEF Inv, ClaimsAwaitVerdict, DeadOnlyAfterAttempts, RelaysBelieveTruth,
                    VerdictsBacked, Current

\* Every step of the outbox preserves the inductive invariant.
LEMMA InvStep == Inv /\ [Next]_vars => Inv'
<1> SUFFICES ASSUME Inv, [Next]_vars PROVE Inv'
  OBVIOUS
<1>1. CASE UNCHANGED vars
  BY <1>1 DEF vars, rowVars, brokerVars, Inv, TypeOK, ClaimsAwaitVerdict, DeadOnlyAfterAttempts,
              RelaysBelieveTruth, VerdictsBacked, Current
<1> QED
  BY <1>1, EnqueueInv, ClaimInv, SendInv, MarkPublishedInv, SkipLostInv, ScheduleRetryInv,
     OpenDlqInv, DlqAcceptedInv, DlqFailedInv, CommitDeadLetterInv, CrashInv, TickInv
  DEF Next, RelayStep

\* The inductive invariant holds in every reachable state of every instance.
THEOREM InvHolds == Spec => []Inv
<1>1. Init => Inv
  BY OutboxAssumption DEF Init, Inv, TypeOK, Idle, ClaimsAwaitVerdict, DeadOnlyAfterAttempts,
                          RelaysBelieveTruth, VerdictsBacked
<1> QED
  BY <1>1, InvStep, PTL DEF Spec

\* A late relay can never overwrite a verdict: claims only sit on open rows.
THEOREM ClaimsAreSafe == Spec => []ClaimsAwaitVerdict
<1>1. Inv => ClaimsAwaitVerdict
  BY DEF Inv
<1> QED
  BY <1>1, InvHolds, PTL

\* No row is given up before max_attempts.
THEOREM DeadLettersSpentTheirAttempts == Spec => []DeadOnlyAfterAttempts
<1>1. Inv => DeadOnlyAfterAttempts
  BY DEF Inv
<1> QED
  BY <1>1, InvHolds, PTL

-----------------------------------------------------------------------------
(* Refinement: the outbox delivers at least once before its verdict.       *)

\* Every step of the outbox is a step of EventDelivery or leaves its state alone.
LEMMA DeliveryStep == Inv /\ [Next]_vars => [Delivery!Next]_(Delivery!vars)
<1> SUFFICES ASSUME Inv, [Next]_vars PROVE Delivery!Next \/ UNCHANGED Delivery!vars
  OBVIOUS
<1> USE DEF Delivery!Next, Delivery!vars, Delivery!Known
<1>1. ASSUME NEW e \in Events, Enqueue(e) PROVE Delivery!Enqueue(e)
  BY <1>1 DEF Enqueue, brokerVars, Delivery!Enqueue, Inv, VerdictsBacked
<1>2. ASSUME NEW r \in Relays, SendAccepted(r) \/ SendFailed(r)
      PROVE  Delivery!HandOver(Current(r)) \/ UNCHANGED Delivery!vars
  <2>1. Current(r) \in committed /\ dlq' = dlq /\ UNCHANGED <<committed, published, deadLettered>>
    BY <1>2 DEF SendAccepted, SendFailed, rowVars, Inv, RelaysBelieveTruth
  <2>2. topic' = topic \/ topic' = topic \cup {Current(r)}
    BY <1>2 DEF SendAccepted, SendFailed
  <2> QED
    BY <2>1, <2>2 DEF Delivery!HandOver
<1>3. ASSUME NEW r \in Relays, MarkPublished(r) PROVE Delivery!Publish(Current(r))
  <2>1. /\ Current(r) \in topic
        /\ Current(r) \in committed \ (published \cup deadLettered)
    BY <1>3, BusyRelay, OutboxAssumption
    DEF MarkPublished, Owns, Inv, RelaysBelieveTruth, ClaimsAwaitVerdict
  <2> QED
    BY <1>3, <2>1 DEF MarkPublished, brokerVars, Delivery!Publish
<1>4. ASSUME NEW r \in Relays, CommitDeadLetter(r) PROVE Delivery!DeadLetter(Current(r))
  <2>1. /\ Current(r) \in dlq
        /\ Current(r) \in committed \ (published \cup deadLettered)
    BY <1>4, BusyRelay, OutboxAssumption
    DEF CommitDeadLetter, Inv, RelaysBelieveTruth, ClaimsAwaitVerdict
  <2> QED
    BY <1>4, <2>1 DEF CommitDeadLetter, brokerVars, Delivery!DeadLetter
<1>5. ASSUME NEW r \in Relays, DlqAccepted(r) \/ DlqFailed(r)
      PROVE  Delivery!HandOverDead(Current(r)) \/ UNCHANGED Delivery!vars
  <2>1. Current(r) \in committed \ (published \cup deadLettered)
    BY <1>5, BusyRelay, OutboxAssumption
    DEF DlqAccepted, DlqFailed, Inv, RelaysBelieveTruth, ClaimsAwaitVerdict
  <2>2. dlq' = dlq \/ dlq' = dlq \cup {Current(r)}
    BY <1>5 DEF DlqAccepted, DlqFailed
  <2>3. UNCHANGED <<committed, published, deadLettered, topic>>
    BY <1>5 DEF DlqAccepted, DlqFailed, rowVars
  <2> QED
    BY <2>1, <2>2, <2>3 DEF Delivery!HandOverDead
<1>6. ASSUME NEW r \in Relays,
             ClaimBatch(r) \/ SkipLost(r) \/ ScheduleRetry(r) \/ OpenDlqTransaction(r) \/ Crash(r)
      PROVE  UNCHANGED Delivery!vars
  BY <1>6 DEF ClaimBatch, SkipLost, ScheduleRetry, OpenDlqTransaction, Crash, rowVars, brokerVars
<1>7. CASE Tick
  BY <1>7 DEF Tick, brokerVars
<1>8. CASE UNCHANGED vars
  BY <1>8 DEF vars, rowVars, brokerVars
<1>9. \A r \in Relays : relay[r].step # "poll" => Current(r) \in Events
  BY BusyRelay DEF Inv
<1>10. ASSUME NEW r \in Relays, RelayStep(r) PROVE Delivery!Next \/ UNCHANGED Delivery!vars
  <2>1. CASE SendAccepted(r) \/ SendFailed(r)
    BY <2>1, <1>2, <1>9 DEF SendAccepted, SendFailed
  <2>2. CASE MarkPublished(r)
    BY <2>2, <1>3, <1>9 DEF MarkPublished
  <2>3. CASE CommitDeadLetter(r)
    BY <2>3, <1>4, <1>9 DEF CommitDeadLetter
  <2>4. CASE DlqAccepted(r) \/ DlqFailed(r)
    BY <2>4, <1>5, <1>9 DEF DlqAccepted, DlqFailed
  <2> QED
    BY <1>10, <2>1, <2>2, <2>3, <2>4, <1>6 DEF RelayStep
<1> QED
  BY <1>1, <1>6, <1>7, <1>8, <1>10 DEF Next

\* The outbox table with its relays implements the hand-off EventDelivery states.
THEOREM OutboxImplementsDelivery == Spec => HandOffRefined
<1>1. Init => Delivery!Init
  BY DEF Init, Delivery!Init
<1>2. QED
  BY <1>1, DeliveryStep, InvHolds, PTL DEF Spec, HandOffRefined, Delivery!Spec

-----------------------------------------------------------------------------
(* Attempts and sends.  A failed send that is not in the table yet is the   *)
(* current event of a relay, so the table never gets ahead of the broker.   *)
(* All sets counted here start empty and change by one element, so they are *)
(* finite although Events and Relays need not be.                           *)

Failing == {r \in Relays : relay[r].step \in {"fail", "dlq", "dead"}}
SendsInv ==
    /\ IsFiniteSet(Counted) /\ IsFiniteSet(published) /\ IsFiniteSet(Failing)
    /\ Cardinality(Counted) + Cardinality(Failing) <= failures + Cardinality(published)

\* One attempt more is one element more.
LEMMA CountsOne ==
  ASSUME TypeOK, IsFiniteSet(Counted), NEW e \in Events,
         attempts' = [attempts EXCEPT ![e] = @ + 1]
  PROVE  IsFiniteSet(Counted') /\ Cardinality(Counted') = Cardinality(Counted) + 1
<1>1. attempts[e] \in Nat /\ attempts'[e] = attempts[e] + 1
      /\ \A f \in Events \ {e} : attempts'[f] = attempts[f]
  BY DEF TypeOK
<1> DEFINE new == <<e, attempts[e] + 1>>
<1>2. new \notin Counted
  BY <1>1 DEF Counted
<1>3. 1..attempts'[e] = 1..attempts[e] \cup {attempts[e] + 1}
  BY <1>1
<1>4. ASSUME NEW x PROVE x \in Counted' <=> x \in Counted \cup {new}
  <2>1. x \in Counted' <=> \E f \in Events : x \in {f} \X (1..attempts'[f])
    BY DEF Counted
  <2>2. x \in Counted <=> \E f \in Events : x \in {f} \X (1..attempts[f])
    BY DEF Counted
  <2>3. x \in {e} \X (1..attempts'[e]) <=> x \in {e} \X (1..attempts[e]) \/ x = new
    BY <1>3
  <2> QED
    BY <1>1, <2>1, <2>2, <2>3
<1>5. Counted' = Counted \cup {new}
  BY <1>4
<1> QED
  BY <1>2, <1>5, FS_AddElement

\* What a step of a relay does to its own entry of the batch.
LEMMA FailingIs ==
  ASSUME NEW r \in Relays, \A s \in Relays : s # r => relay'[s] = relay[s]
  PROVE  /\ relay'[r].step \in {"fail", "dlq", "dead"} => Failing' = Failing \cup {r}
         /\ relay'[r].step \notin {"fail", "dlq", "dead"} => Failing' = Failing \ {r}
  BY DEF Failing

\* A step that counts nothing, with no new failed send in the hands of a relay.
LEMMA CountsNothing ==
  ASSUME TypeOK, TypeOK', SendsInv, UNCHANGED <<attempts, published>>, failures <= failures',
         Failing' \subseteq Failing
  PROVE  SendsInv'
<1>1. Counted' = Counted
  BY DEF Counted
<1>2. /\ IsFiniteSet(Failing') /\ Cardinality(Failing') <= Cardinality(Failing)
      /\ Cardinality(Failing') \in Nat /\ Cardinality(Failing) \in Nat
      /\ Cardinality(Counted) \in Nat /\ Cardinality(published) \in Nat
  BY FS_Subset, FS_CardinalityType DEF SendsInv
<1> QED
  BY <1>1, <1>2 DEF SendsInv, TypeOK

LEMMA SendsStep == Inv /\ Inv' /\ SendsInv /\ [Next]_vars => SendsInv'
<1> SUFFICES ASSUME Inv, Inv', SendsInv, [Next]_vars PROVE SendsInv'
  OBVIOUS
<1>1. /\ TypeOK /\ TypeOK' /\ failures \in Nat /\ failures' \in Nat
      /\ \A r \in Relays : relay[r].step # "poll" => Current(r) \in Events
  BY BusyRelay DEF Inv, TypeOK
<1>2. /\ IsFiniteSet(Counted) /\ IsFiniteSet(published) /\ IsFiniteSet(Failing)
      /\ Cardinality(Counted) \in Nat /\ Cardinality(published) \in Nat /\ Cardinality(Failing) \in Nat
      /\ Cardinality(Counted) + Cardinality(Failing) <= failures + Cardinality(published)
  BY FS_CardinalityType DEF SendsInv
<1>3. ASSUME NEW r \in Relays, SkipLost(r) \/ ScheduleRetry(r) \/ CommitDeadLetter(r) \/ DlqFailed(r)
                              \/ MarkPublished(r)
      PROVE  Failing' = Failing \ {r}
  <2>1. relay[r].step # "poll" /\ Advance(r)
    BY <1>3 DEF SkipLost, ScheduleRetry, CommitDeadLetter, DlqFailed, MarkPublished
  <2> QED
    BY <1>1, <2>1, AdvanceEffect, FailingIs
<1>4. ASSUME NEW r \in Relays, ScheduleRetry(r) \/ CommitDeadLetter(r) \/ DlqFailed(r)
      PROVE  SendsInv'
  <2>1. /\ r \in Failing /\ relay[r].step # "poll" /\ published' = published /\ failures <= failures'
        /\ \E delay : RecordFailure(r, Current(r), delay)
    BY <1>1, <1>4 DEF ScheduleRetry, CommitDeadLetter, DlqFailed, Failing, brokerVars
  <2>2. IsFiniteSet(Counted') /\ Cardinality(Counted') = Cardinality(Counted) + 1
    BY <1>1, <1>2, <2>1, CountsOne DEF RecordFailure
  <2>3. IsFiniteSet(Failing') /\ Cardinality(Failing') = Cardinality(Failing) - 1
    BY <1>2, <1>3, <1>4, <2>1, FS_RemoveElement
  <2> QED
    BY <1>1, <1>2, <2>1, <2>2, <2>3 DEF SendsInv
<1>5. ASSUME NEW r \in Relays, MarkPublished(r)
      PROVE  SendsInv'
  <2>1. /\ relay[r].step = "ack" /\ published' = published \cup {Current(r)} /\ failures' = failures
        /\ attempts' = [attempts EXCEPT ![Current(r)] = @ + 1] /\ Current(r) \in Events
        /\ Failing' = Failing /\ lockedBy[Current(r)] = r
    BY <1>1, <1>3, <1>5 DEF MarkPublished, brokerVars, Failing, Owns
  <2>2. IsFiniteSet(Counted') /\ Cardinality(Counted') = Cardinality(Counted) + 1
    BY <1>1, <1>2, <2>1, CountsOne
  <2>3. Current(r) \notin published
    BY <2>1, OutboxAssumption DEF Inv, ClaimsAwaitVerdict
  <2>4. IsFiniteSet(published') /\ Cardinality(published') = Cardinality(published) + 1
    BY <1>2, <2>1, <2>3, FS_AddElement
  <2> QED
    BY <1>1, <1>2, <2>1, <2>2, <2>4 DEF SendsInv
<1>6. ASSUME NEW r \in Relays, SendFailed(r)
      PROVE  SendsInv'
  <2>1. /\ relay[r].step = "send" /\ failures' = failures + 1 /\ Goto(r, "fail")
        /\ UNCHANGED <<attempts, published>>
    BY <1>6 DEF SendFailed, rowVars
  <2>2. Failing' = Failing \cup {r} /\ r \notin Failing
    BY <1>1, <2>1, GotoEffect, FailingIs DEF Failing
  <2>3. IsFiniteSet(Failing') /\ Cardinality(Failing') = Cardinality(Failing) + 1
    BY <1>2, <2>2, FS_AddElement
  <2>4. Counted' = Counted
    BY <2>1 DEF Counted
  <2> QED
    BY <1>1, <1>2, <2>1, <2>3, <2>4 DEF SendsInv
<1>7. ASSUME NEW r \in Relays, SendAccepted(r) \/ OpenDlqTransaction(r) \/ DlqAccepted(r)
      PROVE  SendsInv'
  <2>1. UNCHANGED <<attempts, published, failures>>
    BY <1>7 DEF SendAccepted, OpenDlqTransaction, DlqAccepted, rowVars, brokerVars
  <2>2. CASE SendAccepted(r)
    BY <1>1, <2>1, <2>2, GotoEffect, FailingIs, CountsNothing DEF SendAccepted
  <2>3. CASE OpenDlqTransaction(r) \/ DlqAccepted(r)
    <3>1. r \in Failing /\ relay[r].step # "poll" /\ (Goto(r, "dlq") \/ Goto(r, "dead"))
      BY <2>3 DEF OpenDlqTransaction, DlqAccepted, Failing
    <3>2. Failing' = Failing \cup {r}
      BY <1>1, <3>1, GotoEffect, FailingIs
    <3> QED
      BY <1>1, <2>1, <3>1, <3>2, CountsNothing
  <2> QED
    BY <1>7, <2>2, <2>3
<1>8. ASSUME NEW r \in Relays, SkipLost(r)
      PROVE  SendsInv'
  <2>1. UNCHANGED <<attempts, published, failures>>
    BY <1>8 DEF SkipLost, rowVars, brokerVars
  <2> QED
    BY <1>1, <1>3, <1>8, <2>1, CountsNothing
<1>9. ASSUME NEW r \in Relays, ClaimBatch(r)
      PROVE  SendsInv'
  <2>1. UNCHANGED <<attempts, published, failures>> /\ Start(r, FirstRows(Claimable), 0)
    BY <1>9 DEF ClaimBatch, brokerVars
  <2>2. relay'[r].step = "send" /\ \A s \in Relays : s # r => relay'[s] = relay[s]
    BY <1>1, <2>1 DEF Start, TypeOK
  <2> QED
    BY <1>1, <2>1, <2>2, FailingIs, CountsNothing
<1>10. ASSUME NEW r \in Relays, Crash(r)
       PROVE  SendsInv'
  <2>1. UNCHANGED <<attempts, published, failures>> /\ relay' = [relay EXCEPT ![r] = Idle]
    BY <1>10 DEF Crash, brokerVars
  <2>2. Failing' = Failing \ {r}
    BY <1>1, <2>1, FailingIs DEF TypeOK, Idle
  <2> QED
    BY <1>1, <2>1, <2>2, CountsNothing
<1>11. CASE Tick
  <2>1. UNCHANGED <<attempts, published, failures>>
    BY <1>11 DEF Tick, brokerVars
  <2>2. \A r \in Relays : relay'[r].step = relay[r].step
    BY <1>1, <1>11, BusyRelay DEF Tick, TypeOK, Busy
  <2> QED
    BY <1>1, <2>1, <2>2, CountsNothing DEF Failing
<1>12. CASE (\E e \in Events : Enqueue(e)) \/ UNCHANGED vars
  <2>1. UNCHANGED <<attempts, published, failures, relay>>
    BY <1>12 DEF Enqueue, vars, rowVars, brokerVars
  <2> QED
    BY <1>1, <2>1, CountsNothing DEF Failing
<1> QED
  BY <1>4, <1>5, <1>6, <1>7, <1>8, <1>9, <1>10, <1>11, <1>12 DEF Next, RelayStep

\* outbox_relay.py:100: the attempts of all rows together never exceed the sends that
\* were made for them, for any number of events, relays, failed sends and crashes.
THEOREM AttemptsCountSends == Spec => []AttemptsAreSends
<1>1. Init => SendsInv
  <2> SUFFICES ASSUME Init PROVE SendsInv
    OBVIOUS
  <2>1. Counted = {} /\ published = {} /\ Failing = {} /\ failures = 0
    BY DEF Init, Counted, Failing, Idle
  <2> QED
    BY <2>1, FS_EmptySet DEF SendsInv
<1>2. Inv /\ SendsInv => AttemptsAreSends
  BY FS_CardinalityType DEF Inv, TypeOK, SendsInv, AttemptsAreSends
<1> QED
  BY <1>1, <1>2, SendsStep, InvHolds, PTL DEF Spec
=============================================================================
