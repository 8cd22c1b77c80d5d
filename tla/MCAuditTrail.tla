---------------------------- MODULE MCAuditTrail ----------------------------
(* The audit chain with its writer, for model checking. *)
EXTENDS AuditWriter, TLC

Symmetry == Permutations(Purgers)
=============================================================================
