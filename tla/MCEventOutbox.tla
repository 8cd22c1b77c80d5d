---------------------------- MODULE MCEventOutbox ----------------------------
(* The event outbox for model checking. *)
EXTENDS EventOutbox
=============================================================================
