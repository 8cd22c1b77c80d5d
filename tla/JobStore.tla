------------------------------ MODULE JobStore ------------------------------
(***************************************************************************)
(* The scan-job stores of the PicoDome daemon, as the operations the       *)
(* daemon calls under the store's lock.  A store is a record               *)
(*   rows  : the status of every job, "absent" when there is no row;       *)
(*   order : the jobs in creation order (created_at has one-second         *)
(*           resolution, ties are broken by insertion).                    *)
(* The backends differ in what happens at the cap: jsonl deletes the       *)
(* oldest rows within add(), sqlite in a transaction after it, redis trims *)
(* its index (order) and keeps the hashes.                                 *)
(***************************************************************************)
EXTENDS Naturals, Sequences, FiniteSets

CONSTANTS
    Jobs,       \* job ids, one per submit request
    Backend,    \* PICODOME_STORE_BACKEND
    MaxJobs     \* max_jobs of the store

ASSUME StoreAssumption ==
    /\ IsFiniteSet(Jobs)
    /\ Backend \in {"jsonl", "sqlite", "redis"}
    /\ MaxJobs \in Nat \ {0}

Active   == {"queued", "running"}
Terminal == {"completed", "failed"}
Status   == {"absent", "pending"} \cup Active \cup Terminal

\* The part of the creation order that survives the cap.
Newest(order) ==
    IF Len(order) > MaxJobs
    THEN SubSeq(order, Len(order) - MaxJobs + 1, Len(order))
    ELSE order

Members(order) == {order[i] : i \in DOMAIN order}

\* add() under the lock: a pending row, then the cap where it is part of it.
Add(rows, order, j) ==
    LET all  == Append(order, j)
        kept == IF Backend = "sqlite" THEN all ELSE Newest(all)
        new  == [rows EXCEPT ![j] = "pending"]
    IN  [order |-> kept,
         rows  |-> IF Backend # "jsonl"
                   THEN new
                   ELSE [k \in Jobs |-> IF k \in Members(kept)
                                        THEN new[k] ELSE "absent"]]

\* The sqlite store's _prune_old_jobs, after the INSERT was committed.
Prune(rows, order) ==
    [order |-> Newest(order),
     rows  |-> [k \in Jobs |-> IF k \in Members(Newest(order))
                               THEN rows[k] ELSE "absent"]]

\* update(status=s): a job without a row is silently ignored.
Update(rows, j, s) ==
    IF rows[j] = "absent" THEN rows ELSE [rows EXCEPT ![j] = s]

\* Mutants: reconcile forgets the queued jobs; it fails every job that is not
\* pending; it puts the interrupted jobs back in the queue.
ReconcileRunning(rows, order) ==
    [j \in Jobs |-> IF rows[j] = "running" THEN "failed" ELSE rows[j]]
ReconcileAll(rows, order) ==
    [j \in Jobs |-> IF rows[j] \in {"absent", "pending"} THEN rows[j] ELSE "failed"]
ReconcileRequeue(rows, order) ==
    [j \in Jobs |-> IF rows[j] \in Active THEN "queued" ELSE rows[j]]

\* reconcile_on_start(): jsonl and sqlite walk every row, redis its index.
Reconcile(rows, order) ==
    [j \in Jobs |->
        IF rows[j] \in Active /\ (Backend = "redis" => j \in Members(order))
        THEN "failed" ELSE rows[j]]
=============================================================================
