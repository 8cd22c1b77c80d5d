---------------------------- MODULE MCJsonlStore ----------------------------
(* JsonlStore with a few jobs and a store of two rows. *)
EXTENDS JsonlStore
=============================================================================
