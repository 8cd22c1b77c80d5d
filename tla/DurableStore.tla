---------------------------- MODULE DurableStore ----------------------------
(***************************************************************************)
(* What the daemon relies on: a job store whose rows outlive the process.  *)
(* A crash and the reload after it are invisible except for the            *)
(* reconciliation of interrupted jobs.                                     *)
(***************************************************************************)
EXTENDS JobStore

VARIABLES
    rows,       \* status of every job
    order       \* jobs with a row, oldest first

Init == rows = [j \in Jobs |-> "absent"] /\ order = << >>

AddJob(j) ==
    /\ j \notin Members(order)
    /\ rows' = Add(rows, order, j).rows /\ order' = Add(rows, order, j).order

\* The cap of a store that applies it in a transaction of its own.
PruneJobs ==
    /\ Backend = "sqlite"
    /\ rows' = Prune(rows, order).rows /\ order' = Prune(rows, order).order

UpdateJob(j) ==
    /\ \E s \in Active \cup Terminal : rows' = Update(rows, j, s)
    /\ UNCHANGED order

ReconcileJobs == rows' = Reconcile(rows, order) /\ UNCHANGED order

Next == (\E j \in Jobs : AddJob(j) \/ UpdateJob(j)) \/ PruneJobs \/ ReconcileJobs

Spec == Init /\ [][Next]_<<rows, order>>
=============================================================================
