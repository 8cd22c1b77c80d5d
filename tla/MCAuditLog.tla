----------------------------- MODULE MCAuditLog -----------------------------
(* The sandbox audit log for model checking. *)
EXTENDS AuditLog
=============================================================================
