------------------------------ MODULE ScanJobs ------------------------------
(***************************************************************************)
(* A scan request through the PicoDome daemon: the HTTP handler thread of  *)
(* POST /api/v1/scan, the worker pool that runs the scan, the job store    *)
(* row both of them write, and the daemon's stop, crash and boot.          *)
(*                                                                         *)
(* A handler is in                                                         *)
(*   idle -> stamp -> gate -> slot -> enqueue -> submit -> wait -> done    *)
(* with "prune" (sqlite, before stamp), "full" (no slot), "outer" (the     *)
(* outer except clause) and "dead" (the process went away) on the side.    *)
(* A scan is in                                                            *)
(*   none -> queued -> starting -> executing -> saving -> freeing -> ok    *)
(* with failing -> freeErr -> err on an exception, "broken" when the       *)
(* release itself raised and "cancelled" at shutdown.                      *)
(***************************************************************************)
EXTENDS JobStore

CONSTANTS
    Workers,        \* PICODOME_SCAN_WORKERS
    Queue,          \* PICODOME_SCAN_QUEUE
    MaxBoots,       \* bound: daemon boots in a behaviour
    MaxOutages      \* bound: store outages in a behaviour

ASSUME PoolAssumption ==
    /\ Workers \in Nat \ {0}
    /\ Queue \in Nat
    /\ MaxBoots \in Nat
    /\ MaxOutages \in Nat

VARIABLES
    phase,      \* of the daemon process
    boots,      \* boots so far
    storeUp,    \* the store answers
    outages,    \* outages so far
    rows,       \* job store rows
    order,      \* job store creation order
    pc,         \* handler thread of each request
    run,        \* the scan of each request
    inline,     \* requests whose handler runs the scan itself
    pool,       \* jobs waiting in the executor, oldest first
    slots,      \* value of the scan_slots semaphore
    reply       \* what the client received

store   == <<rows, order>>
daemon  == <<phase, boots, pool, slots>>
outside == <<storeUp, outages>>
vars    == <<phase, boots, storeUp, outages, rows, order, pc, run, inline, pool,
             slots, reply>>

Capacity == Workers + Queue

Phases == {"up", "draining", "shut", "closed", "down"}
PCs    == {"idle", "prune", "stamp", "gate", "slot", "full", "enqueue", "submit", "wait",
           "outer", "done", "dead"}
Runs   == {"none", "queued", "starting", "executing", "saving", "failing",
           "freeing", "freeErr", "ok", "err", "broken", "cancelled"}
Replies == {"none", "201", "4xx", "429", "500", "503", "lost"}

RunActive == {"starting", "executing", "saving", "failing", "freeing", "freeErr"}
PoolBusy  == {j \in Jobs : run[j] \in RunActive /\ j \notin inline}

Init ==
    /\ phase = "up" /\ boots = 1
    /\ storeUp = TRUE /\ outages = 0
    /\ rows = [j \in Jobs |-> "absent"] /\ order = <<>>
    /\ pc = [j \in Jobs |-> "idle"]
    /\ run = [j \in Jobs |-> "none"]
    /\ inline = {}
    /\ pool = <<>>
    /\ slots = Capacity
    /\ reply = [j \in Jobs |-> "none"]

\* scan_executor and scan_slots are class attributes that stop() sets to None.
Attached == phase \in {"up", "draining", "shut"}

Goto(j, p)   == pc' = [pc EXCEPT ![j] = p]
SetRow(j, s) == rows' = Update(rows, j, s) /\ UNCHANGED order
Answer(j, r) == reply' = [reply EXCEPT ![j] = r]

\* A store call that raises.  RedisStoreUnavailable comes before the call and is a
\* RuntimeError, which the handler's except clauses catch; sqlite3.Error and
\* RedisError may come after the write as well (the read-back fails), are not
\* caught, and end the handler thread without an answer.
StoreOk == storeUp
Raises(j, catch, effect) ==
    /\ ~StoreOk
    /\ \/ Backend = "redis" /\ catch /\ UNCHANGED store
       \/ Goto(j, "done") /\ Answer(j, "lost") /\ (effect \/ UNCHANGED store)
-----------------------------------------------------------------------------
(* The handler: _handle_submit_scan *)

\* A request that fails validation never reaches the store.  stop() does not wait
\* for the handlers of requests the server accepted before.
Reject(j) ==
    /\ phase # "down" /\ pc[j] = "idle"
    /\ Goto(j, "done") /\ Answer(j, "4xx")
    /\ UNCHANGED <<daemon, outside, store, run, inline>>

\* except (OSError, RuntimeError) around job_store.add.
Unavailable(j) == Goto(j, "done") /\ Answer(j, "503")

Insert(j) == rows' = Add(rows, order, j).rows /\ order' = Add(rows, order, j).order

\* job_store.add: the raw add.
AddRow(j) ==
    /\ phase # "down" /\ pc[j] = "idle"
    /\ \/ /\ StoreOk /\ Insert(j)
          /\ Goto(j, IF Backend = "sqlite" THEN "prune" ELSE "stamp") /\ UNCHANGED reply
       \/ Raises(j, Unavailable(j), Insert(j))
    /\ UNCHANGED <<daemon, outside, run, inline>>

Cut == rows' = Prune(rows, order).rows /\ order' = Prune(rows, order).order

\* job_store.add on sqlite: the cap, after the INSERT was committed.
PruneRows(j) ==
    /\ pc[j] = "prune"
    /\ \/ StoreOk /\ Cut /\ Goto(j, "stamp") /\ UNCHANGED reply
       \/ Raises(j, Unavailable(j), Cut)
    /\ UNCHANGED <<daemon, outside, run, inline>>

\* job_store.add: the second raw call, which writes the tenant.
StampTenant(j) ==
    /\ pc[j] = "stamp"
    /\ \/ StoreOk /\ Goto(j, "gate") /\ UNCHANGED <<store, reply>>
       \/ Raises(j, Unavailable(j), UNCHANGED store)
    /\ UNCHANGED <<daemon, outside, run, inline>>

\* executor = self.scan_executor; without one the handler runs the scan.
ReadExecutor(j) ==
    /\ pc[j] = "gate"
    /\ \/ Attached /\ Goto(j, "slot") /\ UNCHANGED <<run, inline>>
       \/ /\ ~Attached
          /\ Goto(j, "wait")
          /\ run' = [run EXCEPT ![j] = "starting"]
          /\ inline' = inline \cup {j}
    /\ UNCHANGED <<daemon, outside, store, reply>>

\* Mutant: the result of acquire(blocking=False) is not looked at.
AcquireSlotUnchecked(j) ==
    /\ pc[j] = "slot" /\ Goto(j, "enqueue")
    /\ slots' = IF Attached THEN slots - 1 ELSE slots
    /\ UNCHANGED <<phase, boots, pool, outside, store, run, inline, reply>>

\* The attribute is read twice: a thread that read it before stop() set it to
\* None has an AttributeError, which no except clause of the handler catches.
Detached(j) == ~Attached /\ Goto(j, "done") /\ Answer(j, "lost")

\* scan_slots.acquire(blocking=False); a semaphore that is None is skipped.
AcquireSlot(j) ==
    /\ pc[j] = "slot"
    /\ \/ /\ Attached /\ slots > 0 /\ slots' = slots - 1
          /\ Goto(j, "enqueue") /\ UNCHANGED reply
       \/ Attached /\ slots = 0 /\ Goto(j, "full") /\ UNCHANGED <<slots, reply>>
       \/ ~Attached /\ Goto(j, "enqueue") /\ UNCHANGED <<slots, reply>>
       \/ Detached(j) /\ UNCHANGED slots
    /\ UNCHANGED <<phase, boots, pool, outside, store, run, inline>>

ToOuter(j) == Goto(j, "outer") /\ UNCHANGED reply

\* No slot: the row is failed, then 429.  A lost client reaches the outer except.
RejectFull(j) ==
    /\ pc[j] = "full"
    /\ \/ StoreOk /\ SetRow(j, "failed") /\ Goto(j, "done") /\ Answer(j, "429")
       \/ StoreOk /\ SetRow(j, "failed") /\ ToOuter(j)
       \/ Raises(j, ToOuter(j), SetRow(j, "failed"))
    /\ UNCHANGED <<daemon, outside, run, inline>>

\* update(status="queued"); when it raises, the slot is not given back.
MarkQueued(j) ==
    /\ pc[j] = "enqueue"
    /\ \/ StoreOk /\ SetRow(j, "queued") /\ Goto(j, "submit") /\ UNCHANGED reply
       \/ Raises(j, ToOuter(j), SetRow(j, "queued"))
    /\ UNCHANGED <<daemon, outside, run, inline>>

\* executor.submit; an executor that was shut down makes the handler run it.
Submit(j) ==
    /\ pc[j] = "submit"
    /\ Goto(j, "wait")
    /\ \/ /\ phase \in {"up", "draining"}
          /\ pool' = Append(pool, j)
          /\ run' = [run EXCEPT ![j] = "queued"]
          /\ UNCHANGED inline
       \/ /\ phase \in {"shut", "closed"}
          /\ run' = [run EXCEPT ![j] = "starting"]
          /\ inline' = inline \cup {j}
          /\ UNCHANGED pool
    /\ UNCHANGED <<phase, boots, slots, outside, store, reply>>

ResultCode == [ok |-> "201", err |-> "500", cancelled |-> "503"]

\* future.result() and the answer; a lost client (OSError) is the outer except,
\* a scan that raised anything else than OSError or RuntimeError ends the thread.
Reply(j) ==
    /\ pc[j] = "wait"
    /\ \/ /\ run[j] \in DOMAIN ResultCode
          /\ Goto(j, "done") /\ Answer(j, ResultCode[run[j]])
       \/ run[j] \in DOMAIN ResultCode /\ ToOuter(j)
       \/ run[j] \in {"err", "broken"} /\ Goto(j, "done") /\ Answer(j, "lost")
    /\ UNCHANGED <<daemon, outside, store, run, inline>>

\* except (OSError, RuntimeError): fail the row with RuntimeError suppressed, then
\* 500, which a client that left does not receive.
OuterAnswer(j) == Goto(j, "done") /\ \E r \in {"500", "lost"} : Answer(j, r)

OuterFail(j) ==
    /\ pc[j] = "outer"
    /\ \/ StoreOk /\ SetRow(j, "failed") /\ OuterAnswer(j)
       \/ Raises(j, OuterAnswer(j), SetRow(j, "failed"))
    /\ UNCHANGED <<daemon, outside, run, inline>>
-----------------------------------------------------------------------------
(* The scan: _run_scan_job, on a pool thread or inline *)

RunTo(j, s) == run' = [run EXCEPT ![j] = s]

\* Mutant: a scan that raised keeps its pool thread.
StartScanLeaky(j) ==
    /\ pool # <<>> /\ Head(pool) = j
    /\ Cardinality(PoolBusy \cup {k \in Jobs : run[k] = "err"}) < Workers
    /\ pool' = Tail(pool) /\ RunTo(j, "starting")
    /\ UNCHANGED <<phase, boots, slots, outside, store, pc, inline, reply>>

\* A free pool thread takes the oldest queued job.
StartScan(j) ==
    /\ pool # <<>> /\ Head(pool) = j /\ Cardinality(PoolBusy) < Workers
    /\ pool' = Tail(pool) /\ RunTo(j, "starting")
    /\ UNCHANGED <<phase, boots, slots, outside, store, pc, inline, reply>>

\* A store call of the scan that raises, before its write or after it.
ScanRaises(j, s) == ~StoreOk /\ (SetRow(j, s) \/ UNCHANGED store)

MarkRunning(j) ==
    /\ run[j] = "starting"
    /\ \/ StoreOk /\ SetRow(j, "running") /\ RunTo(j, "executing")
       \/ ScanRaises(j, "running") /\ RunTo(j, "failing")
    /\ UNCHANGED <<daemon, outside, pc, inline, reply>>

\* sandbox_run and the L4 analysis return or raise.
Execute(j) ==
    /\ run[j] = "executing"
    /\ RunTo(j, "saving") \/ RunTo(j, "failing")
    /\ UNCHANGED <<daemon, outside, store, pc, inline, reply>>

\* Mutant: the inline fallback forgets release_slot=False.
ReleaseSlotTwice(j) == slots' = IF j \in inline THEN slots + 2 ELSE slots + 1

\* The pool's jobs release their slot themselves, a handler that fell back to
\* running inline releases the one it acquired.
ReleaseSlot(j) == slots' = slots + 1

\* update(status="completed"), then the finally clause; or the except clause.
MarkCompleted(j) ==
    /\ run[j] = "saving"
    /\ \/ /\ StoreOk /\ SetRow(j, "completed")
          /\ RunTo(j, IF Attached THEN "freeing" ELSE "ok")
       \/ ScanRaises(j, "completed") /\ RunTo(j, "failing")
    /\ UNCHANGED <<daemon, outside, pc, inline, reply>>

\* Mutant: the slot is released on success only, not in a finally clause.
MarkFailedKeepsSlot(j) ==
    /\ run[j] = "failing"
    /\ (StoreOk /\ SetRow(j, "failed")) \/ ScanRaises(j, "failed")
    /\ RunTo(j, "err")
    /\ UNCHANGED <<daemon, outside, pc, inline, reply>>

\* except BaseException: fail the row, re-raise; the finally clause runs anyway.
MarkFailed(j) ==
    /\ run[j] = "failing"
    /\ (StoreOk /\ SetRow(j, "failed")) \/ ScanRaises(j, "failed")
    /\ RunTo(j, IF Attached THEN "freeErr" ELSE "err")
    /\ UNCHANGED <<daemon, outside, pc, inline, reply>>

Outcome == [freeing |-> "ok", freeErr |-> "err"]

\* The finally clause: if self.scan_slots is not None: self.scan_slots.release().
\* After stop() took the semaphore away there is nothing to release; a thread
\* that had tested it before fails with an AttributeError instead.
FreeSlot(j) ==
    /\ run[j] \in DOMAIN Outcome
    /\ \/ Attached /\ ReleaseSlot(j) /\ RunTo(j, Outcome[run[j]])
       \/ ~Attached /\ UNCHANGED slots /\ RunTo(j, Outcome[run[j]])
       \/ ~Attached /\ UNCHANGED slots /\ RunTo(j, "broken")
    /\ UNCHANGED <<phase, boots, pool, outside, store, pc, inline, reply>>
-----------------------------------------------------------------------------
(* The daemon *)

\* stop(): the HTTP server goes first, the executor after it.
Drain ==
    /\ phase = "up" /\ phase' = "draining"
    /\ UNCHANGED <<boots, pool, slots, outside, store, pc, run, inline, reply>>

\* executor.shutdown(wait=False, cancel_futures=True): running scans go on.
ShutExecutor ==
    /\ phase = "draining" /\ phase' = "shut"
    /\ run' = [j \in Jobs |-> IF run[j] = "queued" THEN "cancelled" ELSE run[j]]
    /\ pool' = <<>>
    /\ UNCHANGED <<boots, slots, outside, store, pc, inline, reply>>

\* scan_executor = scan_slots = None.
Detach ==
    /\ phase = "shut" /\ phase' = "closed"
    /\ UNCHANGED <<boots, pool, slots, outside, store, pc, run, inline, reply>>

Die ==
    /\ phase' = "down"
    /\ pc' = [j \in Jobs |-> IF pc[j] \in {"idle", "done"} THEN pc[j] ELSE "dead"]
    /\ run' = [j \in Jobs |-> IF run[j] = "queued" \/ run[j] \in RunActive
                              THEN "none" ELSE run[j]]
    /\ pool' = <<>>
    /\ UNCHANGED <<boots, slots, outside, store, inline, reply>>

\* The interpreter joins the pool's threads; handler threads are daemonic.
Exit  == phase = "closed" /\ PoolBusy = {} /\ Die
Crash == phase \in {"up", "draining", "shut", "closed"} /\ Die

\* PicoDomeDaemon.__init__: reconcile (a store that fails is skipped), then
\* a fresh executor and a fresh semaphore.
Boot ==
    /\ phase = "down" /\ boots < MaxBoots
    /\ phase' = "up" /\ boots' = boots + 1
    /\ rows' = IF StoreOk THEN Reconcile(rows, order) ELSE rows
    /\ slots' = Capacity
    /\ UNCHANGED <<outside, order, pc, run, inline, pool, reply>>

\* Redis is unreachable, or sqlite fails; the jsonl store swallows its OSErrors.
Outage ==
    /\ Backend # "jsonl" /\ storeUp /\ outages < MaxOutages
    /\ storeUp' = FALSE /\ outages' = outages + 1
    /\ UNCHANGED <<daemon, store, pc, run, inline, reply>>

Recover ==
    /\ ~storeUp /\ storeUp' = TRUE
    /\ UNCHANGED <<outages, daemon, store, pc, run, inline, reply>>
-----------------------------------------------------------------------------
HandlerStep(j) ==
    \/ PruneRows(j) \/ StampTenant(j) \/ ReadExecutor(j) \/ AcquireSlot(j)
    \/ RejectFull(j) \/ MarkQueued(j) \/ Submit(j) \/ Reply(j) \/ OuterFail(j)

Scan(j) ==
    \/ StartScan(j) \/ MarkRunning(j) \/ Execute(j) \/ MarkCompleted(j)
    \/ MarkFailed(j) \/ FreeSlot(j)

StopStep == ShutExecutor \/ Detach \/ Exit

Next ==
    \/ \E j \in Jobs : Reject(j) \/ AddRow(j) \/ HandlerStep(j) \/ Scan(j)
    \/ Drain \/ StopStep \/ Crash \/ Boot \/ Outage \/ Recover

Spec == Init /\ [][Next]_vars

\* Threads run until they block: a handler and a scan go on taking steps, and
\* stop() once called goes on to the exit.  sandbox_run has a timeout.
Fairness ==
    /\ \A j \in Jobs : WF_vars(HandlerStep(j)) /\ WF_vars(Scan(j))
    /\ WF_vars(StopStep)

FairSpec == Spec /\ Fairness
-----------------------------------------------------------------------------
TypeOK ==
    /\ phase \in Phases /\ boots \in Nat
    /\ storeUp \in BOOLEAN /\ outages \in Nat
    /\ rows \in [Jobs -> Status] /\ order \in Seq(Jobs)
    /\ pc \in [Jobs -> PCs] /\ run \in [Jobs -> Runs]
    /\ inline \subseteq Jobs /\ pool \in Seq(Jobs)
    /\ slots \in Nat
    /\ reply \in [Jobs -> Replies]

\* A request that owes the semaphore one release: it acquired a slot and neither
\* its scan nor its handler has given it back.
HoldsSlot(j) ==
    \/ pc[j] \in {"enqueue", "submit"}
    \/ run[j] = "queued" \/ run[j] \in RunActive
Holders == {j \in Jobs : HoldsSlot(j)}

\* While the semaphore is attached, the free slots and the requests that hold one
\* never exceed workers + queue: no path (pool, inline fallback, failure)
\* releases a slot twice, so the daemon never admits more than it is sized for.
NeverOverAdmits == Attached => slots + Cardinality(Holders) <= Capacity

\* On a store that does not fail no slot is lost either, until the executor is
\* shut: what is not held is free.
NoSlotLost ==
    phase \in {"up", "draining"} => slots + Cardinality(Holders) = Capacity

\* What a client is told is what the store says afterwards, restarts included:
\* after 201 the row is completed, after 429 failed, unless the cap evicted it.
\* On a store that did not fail the row of an error answer is failed too, or
\* waits for the next boot's reconciliation because stop() cancelled the scan.
HonestReply == \A j \in Jobs :
    /\ reply[j] = "201" => rows[j] \in {"completed", "absent"}
    /\ reply[j] = "429" => rows[j] \in {"failed", "absent"}
    /\ outages = 0 /\ reply[j] = "500" => rows[j] \in {"failed", "absent"}
    /\ outages = 0 /\ reply[j] = "503" => rows[j] \in {"queued", "failed", "absent"}

Live(j) == pc[j] \notin {"idle", "done", "dead"}

\* A daemon that serves has no row saying queued or running for a request that
\* nobody works on any more (crash or cancelled scan, then boot).
NoOrphans == phase = "up" => \A j \in Jobs : rows[j] \in Active => Live(j)

Rank == [absent |-> 0, pending |-> 1, queued |-> 2, running |-> 3,
         completed |-> 4, failed |-> 5]

\* A row only moves forward, is failed for good, and leaves completed only when
\* the client of a finished scan is gone, the store raised after writing it, or
\* the cap evicts it: boots, handler and scan never race one another backwards.
StatusForward == [][\A j \in Jobs :
    \/ rows'[j] = "absent"
    \/ /\ Rank[rows[j]] <= Rank[rows'[j]]
       /\ rows[j] = "completed" /\ rows'[j] = "failed" =>
             pc[j] = "outer" \/ (outages > 0 /\ run[j] = "failing")]_vars

\* A request that reached the store is answered, or its process went away: no
\* handler waits for a scan that stop() dropped; and stop() ends in the exit of
\* the process once the running scans are over.
EveryRequestEnds ==
    /\ \A j \in Jobs : pc[j] \in {"prune", "stamp"} ~> ~Live(j)
    /\ phase = "draining" ~> phase = "down"
=============================================================================
