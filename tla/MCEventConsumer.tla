-------------------------- MODULE MCEventConsumer --------------------------
(* The event consumer on a small instance: messages and instances are model *)
(* values.                                                                  *)
EXTENDS EventConsumer, TLC

CONSTANTS m1, bad, i1, i2

=============================================================================
