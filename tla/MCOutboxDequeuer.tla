-------------------------- MODULE MCOutboxDequeuer --------------------------
(* Instances of OutboxDequeuer for TLC.                                     *)
EXTENDS OutboxDequeuer

CONSTANTS d1, d2
=============================================================================
