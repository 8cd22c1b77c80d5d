---------------------------- MODULE MCScheduler ----------------------------
(* Scheduler with small sets of workers and jobs. *)
EXTENDS Scheduler
=============================================================================
