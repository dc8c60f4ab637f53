--------------------------- MODULE EventDelivery ---------------------------
(***************************************************************************)
(* What the transactional outbox promises to the rest of the service: an   *)
(* event committed with its job is handed to Kafka at least once before it *)
(* is recorded as published, is in the dead-letter topic before it is      *)
(* recorded as dead-lettered, gets exactly one of the two verdicts, and    *)
(* keeps it for ever.  Outbox.tla is shown to implement this module.       *)
(***************************************************************************)

CONSTANT Events

VARIABLES
    pending,        \* committed events without a verdict
    published,      \* events recorded as published
    deadLettered,   \* events recorded as dead-lettered
    topic,          \* events the request topic holds at least once
    dlq             \* events the dead-letter topic holds at least once

vars == <<pending, published, deadLettered, topic, dlq>>

Known == pending \cup published \cup deadLettered

Init ==
    /\ pending = {}
    /\ published = {}
    /\ deadLettered = {}
    /\ topic = {}
    /\ dlq = {}

\* The API transaction that saves the job also inserts its event.
Enqueue(e) ==
    /\ e \notin Known
    /\ pending' = pending \cup {e}
    /\ UNCHANGED <<published, deadLettered, topic, dlq>>

\* At-least-once: a known event may reach the topic at any time, also late.
HandOver(e) ==
    /\ e \in Known
    /\ topic' = topic \cup {e}
    /\ UNCHANGED <<pending, published, deadLettered, dlq>>

HandOverDead(e) ==
    /\ e \in pending
    /\ dlq' = dlq \cup {e}
    /\ UNCHANGED <<pending, published, deadLettered, topic>>

Publish(e) ==
    /\ e \in pending \cap topic
    /\ pending' = pending \ {e}
    /\ published' = published \cup {e}
    /\ UNCHANGED <<deadLettered, topic, dlq>>

DeadLetter(e) ==
    /\ e \in pending \cap dlq
    /\ pending' = pending \ {e}
    /\ deadLettered' = deadLettered \cup {e}
    /\ UNCHANGED <<published, topic, dlq>>

Next ==
    \E e \in Events :
        \/ Enqueue(e)
        \/ HandOver(e)
        \/ HandOverDead(e)
        \/ Publish(e)
        \/ DeadLetter(e)

Spec == Init /\ [][Next]_vars
=============================================================================
