----------------------------- MODULE MCWsFanout -----------------------------
(* The WebSocket fan-out for model checking. *)
EXTENDS WsFanout
=============================================================================
