----------------------------- MODULE MCScanJobs -----------------------------
(* ScanJobs with small sets of requests. *)
EXTENDS ScanJobs, TLC

Symmetry == Permutations(Jobs)
=============================================================================
