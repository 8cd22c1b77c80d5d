# PicoSentry in TLA+

PicoSentry is a supply-chain security suite in one Python package
(`src/picosentry`): a package scanner (`scan`), a sandbox with an HTTP daemon
called PicoDome (`sandbox`), a multi-tenant server called PicoShogun (`serve`), a
registry proxy (`firewall`) and a prompt guard (`watch`). Most of its lines are
sequential text analysis, which its own tests compare with fixtures. What tests
hardly reach is the state that threads, processes, restarts and outages share.
These modules model that state, TLC checks it on small instances and TLAPS proves
the central safety properties for every size.

Line numbers below are those of `src/` and are repeated, definition by
definition, in the `map` of `PROJECT.json`.

## 1. Inventory

| Component | State | Operations | What is hard | Correct when |
|---|---|---|---|---|
| Daemon scan submission (`sandbox/daemon/handler_routes_post.py`, `daemon.py`) | class attributes `scan_executor`, `scan_slots`; one job row per request | POST scan, pool thread, `stop()`, SIGTERM, boot | handler threads, pool threads and `stop()` interleave; the store may raise at any call; crash and reconciliation | never over-admits, loses no slot, answers agree with rows, rows only move forward, every request ends |
| Job stores (`sandbox/daemon/store.py`, `redis_store.py`, `sqlite_store.py`) | capped set of rows | `add`, `update`, `get`, `list_recent`, `reconcile_on_start` | eviction of live rows at the cap, crash inside `add`, disk outage, cut lines, one-second timestamps | durable: a crash changes nothing but the reconciliation; a file that stays near the live size |
| Scheduler (`serve/services/scheduler.py`) | `scheduled_jobs` rows, the lease row, per process `jobs`, queue, `_queued`, `_slow_running` | loop, slow-job threads, job API, start, stop | several processes with one lease, clock, passes that outlast the lease, a fault in the middle of a pass, memory and row changed in two steps | terms do not overlap, no occurrence fired twice within them, no enabled job forgotten, takeover |
| Audit hash chain (`serve/services/audit_chain.py`, `audit_cleanup.py`, `middleware/audit.py`) | `audit_log` rows linked by hashes, bounded writer queue | submit, append, purge with gap marker, verify, flush at exit | purge and marker are two transactions; two purges at once; verify reads twice; markers are purged too; burned ids; full queue | an untouched log verifies through purges of any org, a removed row is reported, no row vanishes uncounted |
| Audit log file (`sandbox/audit/logger.py`) | live file, gzip archives, hash of the last line in memory | record, rotate, restart, verify | crash or OSError inside the rotation, cut line, failed fsync, reader without lock | the log verifies across rotation and restart; the damage of an interruption is local and costs a bounded part of the history |
| Event bus and outbox (`serve/services/event_bus.py`) | `event_outbox` table, a cursor per worker | publish, poll, prune, stop | commit order against sequence order, failed tick, start in the middle of traffic | side effects once, nothing skipped, nothing from before the start, no poller left behind |
| WebSocket fan-out (`serve/services/websocket_manager.py`, `serve/api/routers/ws.py`) | channel and org indexes, a queue and a pump per socket, the drain barrier | connect, authenticate, subscribe, broadcast, disconnect | clients that stall or leave during a broadcast, full queues, events from foreign threads | indexes agree, no loss uncounted, a return means delivery, nobody waits for a stalled client |
| Plugins (`serve/services/plugin_host.py`, `plugin_manager.py`, `plugin_worker.py`) | child process, two pipes, the host's read-ahead, the manager's entry | load, hook call, health check, timeout, unload | threads share the pipes without a lock, late answers, silent or dead workers | no answer outlives its burst of calls, no process left behind, calls end |
| Cluster tokens and state (`sandbox/cluster`) | tokens, nodes and scans with versions | rotate, merge, assignment | — (no caller in the program) | — |
| Rate limiting, job queue (`sandbox/ratelimit`, `watch/ratelimit.py`, `serve/middleware/rate_limit.py`) | buckets, capped heap | allow, enqueue, dequeue, purge | one lock each | — |
| Policy store, backups, authentication, orchestration, alerts, webhooks (`sandbox/policy_versioned`, `serve/services`, `sandbox/daemon/webhook_sink.py`) | files, sessions, deliveries | save, restore, login, send | mostly one lock or one transaction each | — |
| Scanner, rules, isolation backends, profiles, gRPC, firewall, prompt guard, command line | data of one run | one run | content, kernel interfaces | — |

How the parts interact. A POST to the daemon passes the handler, takes a slot,
writes a row in the job store through the tenant wrapper, hands the scan to the pool
and waits for its future; the pool thread writes the same row. Boot reconciles rows
that a dead process left. Server workers share nothing but the database: the
scheduler through its lease and job rows, the event bus through the outbox, the audit
middleware through the chain. Scheduled jobs publish events; the poller of each
worker dispatches the events of the others, and the fan-out is one of the
subscribers. Threads that run projects call the plugins.

`PROJECT.json` lists every component with its status and every hazard with its line
and the properties that cover it.

## 2. Modules

| Module | Models |
|---|---|
| `JobStore` | what the three stores compute: `Add` with eviction at the cap (sqlite: `Prune`, a transaction of its own), `Update`, `Reconcile`, per backend |
| `ScanJobs` | the daemon: handler, pool, `stop()`, crash, boot, store outages, over `JobStore` |
| `MCScanJobs` | symmetry for the runs of `ScanJobs` |
| `ScanJobsProofs` | proofs: admission, honest answers, no orphans, rows that move forward, no lost slot, use of the store, bound and progress of the pool |
| `DurableStore` | abstract: a store whose rows outlive the process |
| `JsonlStore` | the default store: memory, file, compaction, reload, disk faults; implements `DurableStore` |
| `MCJsonlStore`, `JsonlStoreProofs` | its runs; its proofs (size of the file, healing, refinement) |
| `Scheduler` | worker processes, the lease, the loop, slow-job threads, the job API, outages |
| `MCScheduler` | symmetry for its runs |
| `SchedulerProofs` | proofs: terms that do not overlap, no double firing within them, no lost fast job of a worker that is alone, reach of the lease |
| `AuditChain` | the table of audit rows: append, purges with their markers, verification in two reads, ids burned and rows removed by others |
| `AuditWriter` | the middleware's bounded queue and writer thread on top of `AuditChain` (the composition) |
| `MCAuditTrail`, `AuditTrailProofs` | its run; its proofs |
| `AuditLog`, `MCAuditLog`, `AuditLogProofs` | the sandbox's log file with its archives; its run; its proofs |
| `EventOutbox`, `MCEventOutbox`, `EventOutboxProofs` | outbox table, publishers and pollers of several workers; its run; its proofs |
| `WsFanout`, `MCWsFanout`, `WsFanoutProofs` | sockets, broadcasts and pumps on one event loop; its run; its proofs |
| `PluginHost`, `MCPluginHost`, `PluginHostProofs` | one plugin process and the threads that call it; its run; its proofs |

**ScanJobs.** One step per store call, lock or queue operation of `_handle_submit_scan`
(88–273) and `_run_scan_job` (from 275): validation (`Reject`), `job_store.add` as its
two raw calls (`AddRow`, `StampTenant`, and on sqlite the cap between them,
`PruneRows`), the read of `scan_executor` (`ReadExecutor`, without which the handler
runs the scan itself), the semaphore (`AcquireSlot`, `RejectFull`),
`update(status="queued")` (`MarkQueued`), `executor.submit` (`Submit`), the wait and the
answer (`Reply`), the outer `except` (`OuterFail`); on the pool thread `StartScan`,
`MarkRunning`, `Execute`, `MarkCompleted`, `MarkFailed`, `FreeSlot`; in `stop()`
`Drain`, `ShutExecutor`, `Detach`, `Exit`. Handlers and scans test `scan_slots` and read
it again (217, 244, 377), so a thread that `stop()` overtakes has either nothing to use
or an `AttributeError` (`Detached`, run state "broken"). A store call may raise:
`RedisStoreUnavailable` comes before the call and is caught by the handler;
`sqlite3.Error` and `RedisError` may come after the write as well as before it and end
the handler thread. A scan's verdict, tenant names, audit records and response bodies
are left out.

**JsonlStore.** `mem` is the dict in its order, `disk` the lines of the file
and whether the last is cut. `AddJob`, `UpdateJob`, `Boot` (load, trim, compact,
reconcile) and the compaction run whole under the store's lock; `CrashInAdd` ends the
process around the append. A failed write is ignored, as in the code; on a bad disk the
append and the rewrite of one `add()`, and the two rewrites of one load, fail or succeed
each by itself. `dead` and `vain` remember the dead lines a process loaded and the
rewrites it was refused.

**Scheduler.** The thread of a worker goes tick → promote → run → exec. A lease try, a
promotion, a firing, the end of a job and the convergence are steps; API operations that
change memory under the lock and the row after it are two steps with the loop in
between. A slow job ends in two steps, as it takes the lock twice: the tail of
`_execute_job` (`SlowDone`) and the removal from `_slow_running` (`SlowLeaves`). A run
may be cut short by the database or by an error outside `_JOB_EXECUTE_ERRORS`
(`CutShort`); on the loop's thread that ends the loop. Every start of a process gets a
new `ident`, as `host:pid:uuid` is new. The clock waits for nobody. Cron is abstracted
to the multiples of `Period`. `until` remembers the expiry a worker wrote last, `lapsed`
that a leader went on after its lease had run out, and `fires` counts the starts of each
occurrence by a worker that is alone or within an unbroken lease. The test of `running`
and the lease UPDATE that follows it are one step. What a command does, org checks and
the `last_run` columns are left out.

**AuditChain, AuditWriter.** A row's hash is its own id: what matters is which row a
link names, and the functions are taken to be collision free. `AppendRow` is one
transaction. A purge is cut as the code is: `Select` (any retention window, any severity
cut, one org or all), `Reread` (what the write transaction still finds; its SELECT locks
nothing on PostgreSQL), `Delete` (on SQLite in one step with the re-read: the
transaction holds the write lock), `Mark` (the marker row, in a transaction of its own)
and `Abandon` (the process dies or an insert fails between them). `VerifyRead` and
`VerifyMarkers` are the two queries of a verification, `VerifyUnread` a second query
that fails, after which `load_purged_ids` returns no marker and every gap is
unexplained. `RollBack` burns an id, as identity columns do; `Steal` is a DELETE by
anything else. The ghosts `purged`, `stolen`, `raced`, `burned` and `unmarked` remember
what happened to each id. In `AuditWriter` `Submit`, `Take` and `Write` are the queue
and the thread, `Exit`, `Drained` and `Killed` the flush at exit. The bounded wait of a
response for its row changes nothing here and is left out. Fields of a row other than
its org are left out, so the recomputation of a row's own hash is too.

**AuditLog.** `record()` is cut where another process or a crash can see the files:
the size check, every rename of the shift, the open and the finished archive, the
truncation, the append. `Interrupt` is an OSError or a kill at any of these. At the
append it may leave nothing, part of the line or all of it: when the flush succeeded
and the `fsync` fails, the process goes on with its old hash and does not know of the
line. A line remembers which events' bytes it holds: what is appended
after a cut write lands on the same line. `Verify` lists the files, `ReadFile` opens
one at a time without the lock, oldest first; `ReadPart` meets a line that is longer than
the write buffer while it is being written.

**EventOutbox.** `Insert` and `Commit` are apart because PostgreSQL hands out `seq`
before the row is visible. A tick of the poller is `Fetch`, one `Deliver` per row and
`Finish`; `TickFails` is one of the caught errors, `Die` any other. `Prune` deletes
rows up to any age. Two simplifications: the timestamp of an event, taken just before the
write (event_bus.py:136), and its `seq` are taken in one step, and all workers read one
clock. Only the cut-off at a worker's start compares timestamps, so it alone would be
blurred by publishers that overtake each other in between or by clocks that differ.

**WsFanout.** What has no `await` inside is one step. `BroadcastFails` is a payload
`json.dumps` refuses. `Candidates` reads the
indexes, `Ready` and `Fits` are `_enqueue`, `Get`, `Send` and `SendFails` the pump,
`Return` and `Timeout` the drain barrier; `Settle` says which joins the end of a pump
releases. `due`, `sent` and `full` are ghosts.

**PluginHost.** A call is `Begin`, `Write`, `Ready` or `Timeout`, `ReadLine`;
`Terminate` kills the worker. `Ready` looks at the pipe only and `ReadLine` takes all of
it, keeping the rest in `buf`, as `select()` under a text layer does. `blind` says that
`select()` raises on the descriptor (no pipes, or a number past `FD_SETSIZE`): the read
then follows at once (247–248). One simplification: a thread already blocked in
`readline()` gets what another thread has read ahead, where the text layer would leave
it blocked for a further line; such a thread is in the block section 4 describes either
way. `Spawn` to `Close` are loading and unloading; `Boot`, `Recv`, `Reply` and `Crash`
the worker. A burst is a stretch of time in which some call is under way.

## 3. What the runs check

| Run | Instance | Shows |
|---|---|---|
| `scan_jobs` | 3 requests, 1 worker, 1 queue place, a two-row sqlite store, 2 boots | `NoSlotLost`: release is neither doubled nor forgotten on any path; `HonestReply`: answers agree with rows across restarts; `NoOrphans`: reconciliation leaves no row nobody works on; `StatusForward` |
| `scan_jobs_redis` | 2 requests, a one-row Redis store that fails once, fair threads | `NeverOverAdmits` over a store that raises before or after its write; `EveryRequestEnds`, through a `stop()` that takes the semaphore away between test and use |
| `jsonl_durable` | 7 jobs, cap 2, 2 boots, working disk | `Implements`: refinement of `DurableStore` through crashes inside `add()`; `TwiceLive`: the file keeps to two lines per live row beyond the dead lines it was loaded with |
| `jsonl_faults` | 4 jobs, cap 2, disk outage in which each write fails or succeeds, cut lines, equal timestamps | `Heals`: one successful rewrite makes file and memory agree |
| `scheduler_lease` | 2 workers, a job, 3 boots, fair loops, a clock that passes any loop by | `SingleLeader`: terms never overlap; `OncePerLease`: no occurrence is started twice by leaders within their terms, through takeover by expiry and by release; `Takeover` |
| `scheduler_api` | 1 worker alone on its database, a fast and a slow job, all six operations, an outage or a job that raises | `FastJobsKept`: no order of disable, reload, run end and enable forgets an enabled fast job |
| `scheduler_converge` | 2 workers, a job, update, enable and disable | expects a violation: with a second worker `NoLostJob` fails (section 4) |
| `audit_trail` | PostgreSQL, 2 purgers, 4 ids (one legacy row), 2 requests, queue of 1, one burned id or removed row | `HonestLogVerifies`, `HonestVerdict`: a gap without explanation has a suspect id in it; `RemovalDetected`: no marker covers up; `Accounted` |
| `audit_log` | 9 events, 3 archives of two lines, 2 interruptions | `UnbrokenChain`, `LocalDamage`: one interruption breaks at most a line and its successor; `History`; `VerdictTrue` for a reader nobody disturbed |
| `event_outbox` | 2 workers, 3 events, batches of 2, one failure, fair pollers | `SideEffectsOnce`, `NothingSkipped`, `InOrderOnce`, `CatchesUp` |
| `ws_fanout` | 2 sockets, one may stall, 2 events, queues of 1, fair loop | `IndexExact`, `LossCounted` (with the separation of organisations), `DeliveredOnReturn`, `NoHeadOfLine` |
| `plugin_host` | 3 threads, 6 messages, a worker that may be silent or die, `select()` working or not, fair threads | `SameBurst`, `NoOrphan`, `CallsEnd` |

Every property has a mutant of the model that breaks it (`mutants`).

Bounds. Three requests for two slots make one request wait, one run and one be
refused, and a cap of two rows makes the third evict a live one; further requests
repeat one of these roles. Two boots are a crash and the reconciliation of what it
left. Seven jobs with a cap of two fill the append counter, compact, evict and reload
twice. Two workers are a leader and a successor, three boots let either come back;
`TTL = Period = 1` puts expiry and occurrence on the same instant, where they
collide. `MaxTime` gives room for a lease, a takeover and a further occurrence. The lease
run has no faults, which the API run and the proofs have. The audit run has rows without
organisation and the database with the wider races; organisations, SQLite and more ids are
covered by the proofs. Four audit ids are a legacy row, a row, a hole
and a marker, with a second purge over the same rows; a queue of one is full at the
second request. Three archives and two interruptions leave one archive that nothing
touched; nine events rotate it out, and with two lines to a file a cut line can
swallow the next. Two events past a batch of two, of which one
commits late, are enough for a cursor to pass a row; a socket that stalls and one
that reads are the two roles at a barrier. Three plugin threads are the unloading
one and two callers that overlap, and six messages are ready, initialize, three
calls (one to swap answers, one to be stuck with the wrong one) and shutdown.
`CHECK_DEADLOCK FALSE`: the behaviours end when every request is answered, or the
clock, boots and job ids are used up.

Fairness. `ScanJobs!Fairness` is weak fairness of each handler, each scan
(`sandbox_run` has a timeout) and of `stop()` once called: threads of a live process
are scheduled. No fairness is assumed of clients, crashes, boots or the recovery of a
store. `Scheduler!FairSpec` assumes weak fairness of each worker's loop (it sleeps at
most its interval) and of the clock. `EventOutbox!FairSpec`: the poller thread of a
live process is scheduled. `WsFanout!FairSpec`: the event loop runs scheduled tasks
and timers, and the pumps of clients that read (`Fast`); nothing of the others.
`PluginHost!FairSpec`: the server's threads; nothing is assumed of the worker.

Switches. `Ties` allows two jobs in one second, `Tears` lets an append be cut. `Ops` is
the set of API operations in use. `Postgres` chooses the database of the audit chain, and
with it burned ids and a purge whose re-read locks nothing.

## 4. What the code does otherwise

Deviations between the code and what its comments or documents say, met while
modelling. The models show them; the properties are worded around them.

Scan jobs and scheduler:

* Redis fails between the slot and `update(status="queued")`
  (handler_routes_post.py:229): the outer `except` answers 500 and nobody releases the
  slot, so an idle daemon goes on answering 429, where daemon.py:82 promises rejection
  "until Redis is reachable". `NoSlotLost` is therefore checked on a store that
  does not fail.
* A client that hangs up before its 201 turns a completed row into failed (264).
* `stop()` sets `scan_slots` to None (daemon.py:400–402) while handlers and scans test it
  and read it again: the `AttributeError` in between ends the handler thread without an
  answer, in a process that is about to end.
* On sqlite the cap follows the INSERT in a transaction of its own
  (sqlite_store.py:144, 255–258), so the table holds more than `max_jobs` rows in between.
* Fast jobs run on the loop's thread for up to 300 s (scheduler.py:369–371, 434–436), the
  lease lasts 15 s (settings.py:254) and `stop()` joins for 5 s (673). A loop whose pass
  outlasts its lease goes on firing beside the new leader (663), and if the new leader
  has gone by its next try it renews as if it had led all the time, with its old
  queue. An occurrence then fires twice, against "a takeover cannot double-fire the
  boundary job" (603–605). `OncePerLease` states what is left: nothing is started twice by
  leaders within an unbroken lease.
* A slow job takes the lock twice at its end: it is rescheduled (517–519) and then
  removed from `_slow_running` (379–381). If its new entry is due in between,
  `_dispatch_job` skips it (363–365), the key stays in `_queued`, and the job is not
  scheduled again until the leadership changes or an API call touches it, on a worker
  that is alone too. `FastJobsKept` is therefore about the
  other jobs.
* A job that raises what is not in `_JOB_EXECUTE_ERRORS` (49–57, 502) is not rescheduled;
  a fast one ends the scheduler thread while `running` stays true.
* A job removed through another worker stays in the leader's memory and queue (129).
* A database error after the lease check ends the scheduler thread while `running`
  stays true (654); `Takeover` promises nothing to a worker whose loop died.
* `_converge_jobs` is to "schedule enabled jobs that have no queue entry" (620), but it
  goes by the keys of `_queued` (629), and a fired entry leaves its key there until its
  run ends and reschedules. The leader starts a job; another worker disables it; an API
  call on the leader reloads its memory; the run ends and, finding the job disabled,
  schedules nothing; the other worker enables the job: the leader converges, sees the
  key and leaves the job without an entry. Run `scheduler_converge`. A worker that is
  alone cannot get there with a fast job, as `AloneKeepsFastJobs` proves.
* a crash between `add` and `update(queued)` leaves a pending row for ever, since
  reconciliation looks at queued and running rows only;
* rows trimmed from the Redis index are not reconciled;
* `_dispatch_job` does not look at `enabled`: an entry queued on another worker fires
  after a disable until that worker converges;
* `remove_job` and `disable_job` change memory under the lock and the row after it
  (scheduler.py:229–260). A convergence in between loads the row as enabled and
  schedules the job again, against the comment "A queued entry for a now-disabled job
  must not fire"; after a remove the job stays in memory and goes on firing although
  its row is gone;
* the append counter of the jsonl store restarts at zero with the process while the
  dead lines it loaded stay, and a rewrite the disk refuses leaves the line that asked for
  it: "~2x live size" (store.py:178) holds only after a rewrite that succeeded, and a
  disk that takes appends and refuses rewrites lets the file grow without bound.
  `TwiceLive` counts both exceptions;
* jobs of one second at the cap: eviction and reload break the tie in opposite
  directions (`Heals` allows for it);
* a cut line swallows the next appended row; an unreadable file at boot yields an
  empty store that the next rewrite puts over the file.

Audit chain:

* a flat `retention_days` purge deletes expired markers too (audit_cleanup.py:100), and
  the gaps they recorded then read as tampering while a row above them survives; a
  crash between the deletion and its marker (59) does the same for good, and a
  verification between the two for the moment. `unmarked` is exactly this set of ids;
* an id that PostgreSQL burned in a rolled-back insert is in no marker, so a purge
  next to it leaves a gap `_gap_explains` refuses (audit_chain.py:110);
* a row behind a recorded gap is not recomputed (171–172 continues with the next
  row), though ADR-006 says field tampering of any surviving row is detected;
* on PostgreSQL a row someone else removes between the re-read and the DELETE of a purge
  (audit_cleanup.py:47–57) is listed in the marker all the same, which then covers its
  removal: `raced`;
* when the markers cannot be read (158–160) the verification goes on without them, and
  reports a violation of a log whose gaps are all recorded;
* `flush()` looks at the queue and not at the row in the writer's hand (87).

Audit log file:

* a crash after the archive is opened and before the live file is truncated leaves
  lines twice or an archive without its end; a cut line spoils the next event;
* an `fsync` that fails after the line was written (logger.py:386–387) leaves `_prev_hash`
  behind (151): the next event links past a complete line and the chain is broken there;
* a verification that meets a line longer than the write buffer half-written reports it;
* a second process that records beside the daemon (retention/manager.py:152) has its
  own last hash and lock and forks the chain: the model keeps one recording process;
* DAEMON_STOP is recorded after the sinks were stopped (daemon.py:408–420).

Event outbox:

* the docstring says older rows are "replayed into history ONLY" (232), but the cursor
  starts at the largest `seq`, so only rows committed late are;
* a row that commits after a larger `seq` was read is never delivered (338): `late`;
* an error that recurs in one row replays its batch at every tick;
* the gauge of line 251 stays at 1 when the starting read fails (303–306), or when
  `start()` sets it after the thread has ended (269).

WebSocket fan-out: an event whose payload `json.dumps` refuses
(websocket_manager.py:146–153) is lost for every client and counted nowhere. A denied
socket (ws.py:133) and a failing auth notice (83–92) return without `disconnect()`; no
channel names them, so nothing is sent to them.

Plugins: the comment of plugin_host.py:229–236 says that the protocol is "strictly
request/response" and that a hung plugin "cannot block the host thread forever". Threads
that run projects, the health check and the unloading call one host without a lock:
overlapping calls can swap answers, and a swapped answer can stay behind for a third
call; a worker whose answer was read ahead by another call is killed as silent; a
caller overtaken after `select()` blocks in `readline()` without a timeout. Where
`select()` raises (247–248) every call does, so that a hung plugin does block the host
thread. `SameBurst` and `CallsEnd` say how far this goes.

## 5. What is proved

Every invariant a passing run checks, but `LocalDamage`, is a theorem for all values of
the constants, under the hypotheses named below; so are the action properties
`StatusForward` and `HonestVerdict` and the refinement `Implements`. The assumptions on
constants are the named ones of the modules (finite sets, positive bounds).

`ScanJobsProofs`, for any set of requests, pool, queue, cap, boots, outages and
each backend (assumptions `PoolAssumption`, `StoreAssumption`):

* `TypeCorrect == Spec => []TypeOK`.
* `Admission == Spec => []NeverOverAdmits`. The bound alone is not inductive: a slot
  released by a scan must be one that request held, and held once. `AdmissionInv`
  adds `PoolInv` (the executor's queue holds queued scans only, each once),
  `WaitInv` (a scan in flight has its handler waiting, so handler and scan never hold
  two slots for one request) and `DownInv` (no live handler without a process, so a
  boot starts with a full semaphore). Lemmas `TakeSlot`, `GiveSlot` and `NoNewHolder`
  reduce each action to the change of one holder.
* `RepliesAreHonest`, `NoOrphansLeft` (file and sqlite stores that never failed) and
  `RowsMoveForward == Spec => StatusForward`, from `StoryInv`: for every place a handler
  and its scan can be in, what the row may say then (`RowInv`), and that nobody writes
  it after the answer (`HonestInv`). Store calls that raise after their write are
  included: a completed row may become failed by them, and no other row moves back.
* `NoSlotIsLost`: on a store that never failed free and held slots add up to the
  capacity. Each step changes the number of holders by what it takes from or gives to
  the semaphore (`Balanced`); a failed store breaks this (section 4).
* `KeepsContract == Spec => Durable!Spec`: every step of the daemon is a step of
  `DurableStore` or none. It needs `FreshInv`, that an id whose request has not reached
  the store is not in its index, so that `add` never meets a row of its own. With
  `StoreIsDurable` below, `DurableStore` is the interface both sides are proved against:
  the daemon asks no more of a store, and the file gives no less.
* `PoolIsBounded` and `NobodyWaitsInVain == Spec => []SomeoneWorks`, from `PoolOk` (a
  queued scan is in the queue of a pool that is not shut, and no more run than there are
  threads). The second is the safety half of `EveryRequestEnds`: no state has a handler
  waiting for a scan that nobody can take further.

`JsonlStoreProofs`, for any jobs, cap, boots and outages (`JsonlAssumption`):

* `TypeCorrect` and `FileBounded == Spec => []TwiceLive`, with `SizeInv`: beyond live rows
  and loaded dead lines the file holds what the append counter says, and the counter
  exceeds the live rows only by the rewrites that were refused.
* `StoreIsDurable == Reliable => (Spec => Implements)`, where `Reliable` says that the
  disk works, no line is cut and no two jobs fall in one second; each of the three is
  needed (section 4). `MirrorInv` says that the lines of the file are of different jobs
  and seconds, and that memory is what a load of the file would find. The lemmas on
  `NewestFirst` and on what a reload keeps turn each step into one of `DurableStore`
  or into none.
* `RewriteHeals == Spec => []Heals`, without `Reliable`. With ties memory and file need
  not agree, so `MirrorInv` is no help. `HealInv` says instead that, while no write was
  lost, memory is what the cap leaves of the file: as many rows as fit, none older than
  one left out (`Remains`). A load leaves such rows too, and two of these choices from
  one file differ only in rows of one second. It also needs that ids are used once and
  times grow, in a file that outages left behind as well (`Once`, `Known`).

`SchedulerProofs`, for any workers, jobs, TTL, period, operations, boots and faults, and
passes of any length (assumption `SchedulerAssumption`):

* `TypeCorrect`.
* `OneLeader == Spec => []SingleLeader`. `LeaderInv` says that a loop whose lease has not
  run out is the one the lease row names, until the row's own expiry (`LeaseInv`), that
  every process has an id of its own and the row names one that was given out
  (`IdentInv`), and that a dead process leads nothing (`DownInv`). The conditional
  UPDATE then cannot succeed for a second worker before the first one's term is over.
* `FiresOnce == Spec => []OncePerLease`. `FiringInv` adds that no started occurrence is in
  the future (`PastInv`) and that the queue of a leader within its term holds none that
  was started (`EntryInv`): an entry is always made for a time after now, and a worker
  that takes over replaces its entries before it fires. `Leads` counts a running thread
  as firing from its queue whatever `_leader` says, because a release during a stop that
  gave up on the join may have cleared it. For a worker that is alone the property is
  about every start, within a lease or not.
* `AloneKeepsFastJobs == Alone => (Spec => []FastJobsKept)`: the property is false with
  two workers, and of slow jobs with one (section 4). `KeysInv` says that a key in
  `_queued` of a fast job that memory, table or the request under way have as enabled is
  of a job memory has as enabled, and that such a key without an entry belongs to a run
  that will reschedule it.
* `LeaseWithinReach == Spec => []InReach`, the safety half of `Takeover`: no lease
  reaches further than the TTL from now, and every running worker's loop leads or is
  about to look at the lease, unless it died of an outage or of what a job raised.

`AuditTrailProofs`, for either database and any orgs, purgers, ids, legacy rows,
requests, queue and number of faults (assumptions `ChainAssumption`, `WriterAssumption`):

* `TypeCorrect`.
* `HonestLog == Spec => []HonestLogVerifies`, `NoCoverUp == Spec => []RemovalDetected`
  and `TwoReads == Spec => HonestVerdict`. `ChainInv` says that a row's hash is its id
  or empty for a legacy row (`HashInv`), that a row links to the row that was last when
  it came, so that no chained row is left between the two (`LinkInv`), that an id
  handed out is a row or was purged, removed or burned (`FateInv`), and that
  markers list purged and `raced` ids only and miss none of the purged but the
  `unmarked` (`MarkInv`). The lemma
  `BrokenLinkHasGap` is the centre: a link that does not name the row before it stands
  over a hole all of whose ids are gone. If none of them was removed, burned or left
  unmarked, all were purged and the markers list them; a removed id, on the other hand,
  is in no marker, unless it was raced. `PurgeInv` (a purge will mark only what it
  deleted or what was taken from under it after the re-read) and `CheckInv` (the
  gaps a verification has read are real and stay) carry this over the steps in between.
* `RowsAccounted == Spec => []Accounted`, with `AccountInv`: what waits is what the
  queue and the writer hold, in the order of submission (`WaitInv`), rows are settled in
  that order (`OrderInv`), the gauge counts the dropped (`DropInv`), and a flush misses
  at most the row in the writer's hand and none after it (`ExitInv`).

`AuditLogProofs`, for any number of archives, lines, events and interruptions
(`LogAssumption`):

* `TypeCorrect`, `ChainUnbroken == Spec => []UnbrokenChain`,
  `VerdictIsTrue == Spec => []VerdictTrue`, `HistoryKeptOnDisk == Spec => []History`.
  `RotateInv` is what an interrupted and resumed rotation relies on: renames find their
  place free, and an archive being written is a prefix of the live file. `ChainInv` says
  that a log nobody spoilt (by a cut line, an archive made twice or a line the process
  does not know of) holds consecutive events, older ones in higher files, that
  the last recorded event is there, and that a restart on an empty live file finds it in
  archive 1. `ReaderInv` ties an undisturbed verification to this: the files it has
  still to read hold exactly the events after the last hash it saw. `AgeInv` bounds the
  events of archive k from above, an archive less for each interruption, so that the
  one a shift drops is too old to count.

`EventOutboxProofs`, for any workers, events, batch size and faults
(`OutboxAssumption`):

* `TypeCorrect`, `EffectsOnce`, `CursorSkipsNothing`, `DeliveredInOrder`. `Passed` says
  that a foreign row behind the cursor, or behind the end of the batch and no longer in
  it, was handled or came late; `Order` that dispatches grow and lie before the rest of
  the batch until a tick fails; `Effects` that a publisher whose insert is open has had
  no side effect yet.

`WsFanoutProofs`, for any clients, organisations, channels, events and queue size
(`WsAssumption`):

* `TypeCorrect`, `IndexIsExact`, `LossIsCounted`, `DeliveredBeforeReturn`. `Feed` says
  that what a working client was sent, its pump holds and its queue holds is increasing
  in this order and together is exactly what was meant for it and found room; `Waited`
  that a barrier lists every working client that still holds its message.

`PluginHostProofs`, for any threads and calls (`HostAssumption`):

* `TypeCorrect`, `AnswersStayInBurst == Spec => []SameBurst`, `NoProcessLeft`. The
  argument is a count, `Count`: no more answers are unread or owed than threads wait for
  one, so that none is left when the last thread of a burst returns. It needs
  `Mail` (each message is of one call and in one place) and `Current` (what can still be
  read is of the open burst).
* `LoneReaderNeverBlocks == Spec => []OnlyOvertakenBlocks`, the safety half of
  `CallsEnd`: where `select()` works, a reader whose `readline()` would block was
  overlapped by another call. `AloneInv` says that without an overlap one thread is in a
  call, so nobody takes what `select()` saw.

Only model-checked: `LocalDamage`, and the liveness properties `EveryRequestEnds`,
`Takeover`, `CatchesUp`, `NoHeadOfLine` and `CallsEnd`. Fairness and ENABLED are out of
the prover's reach; of three of them the safety half is proved, as said above.

## 6. Plan

That the reconciliation of each backend (`JobStore`) is idempotent; action properties of
the outbox's cursor; `LocalDamage` for any number of interruptions; the safety halves of
`CatchesUp` and `NoHeadOfLine`.

## 7. What is not modelled

The cluster (`sandbox/cluster`): the daemon registers no peers, gossip pulls only from
registered ones, the command line acts on a manager of its own short-lived process, and
`assign_scan`, `complete_scan` and `handle_heartbeat` have no callers outside the tests;
a model would check inputs the program never meets. Rate limiters: arithmetic on
floating-point clocks under one lock; the job queue has no user. Policy store and
backups: files written one at a time by a command. The webhook sink beside the audit
log: nothing depends on what it delivers (at stop, what it still holds is discarded).
Contents of audit rows, so changed fields of a row. Discovery, manifests and
signatures of plugins, and a plugin that writes to descriptor 1 by itself. The
scanner's rules and corpora, the prompt guard, scoring and statistics: their
result is content, not control. Isolation backends: kernel interfaces. Authentication:
one transaction around cryptographic functions per operation. gRPC, admission,
notary, command line: adapters. Tenancy is present in the scan jobs only as the second
raw call that `add` makes. `get` and `list_recent` only read; of `sqlite_store.py` and
`redis_store.py` the stored rows are modelled, not the SQL or the key layout.
