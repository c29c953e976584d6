-------------------------- MODULE MCEventConsumer --------------------------
(***************************************************************************)
(* Instances of EventConsumer; the bounds are in the configuration.        *)
(***************************************************************************)
EXTENDS EventConsumer
=============================================================================
