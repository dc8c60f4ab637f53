------------------------------ MODULE MCOutbox ------------------------------
(* Instances of Outbox for TLC. *)
EXTENDS Outbox, TLC

CONSTANTS r1, r2

MCRelays == {r1, r2}
MCEvents == {1, 2}
=============================================================================
