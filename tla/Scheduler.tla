------------------------------ MODULE Scheduler ------------------------------
(***************************************************************************)
(* The job scheduler of picosentry serve: several worker processes share   *)
(* the scheduled_jobs table and one leader lease.  Each worker has a       *)
(* scheduler thread (the loop of _run, the only one that fires queued      *)
(* entries), threads for slow jobs, and an event loop that serves the job  *)
(* API one request at a time.  The thread of a worker is at                *)
(*   tick (about to try the lease) -> promote -> run -> exec -> run ...    *)
(* or "none", or "dead" when an exception left _run.                       *)
(***************************************************************************)
EXTENDS Naturals, FiniteSets

CONSTANTS
    Workers,        \* worker processes
    Jobs,           \* ids of scheduled jobs
    Slow,           \* the batch and health_check jobs
    TTL,            \* SCHEDULER_LEASE_TTL
    Period,         \* every job's cron: the multiples of Period
    None,           \* no job
    Ops,            \* the API operations clients use
    MaxTime,        \* bound: the clock
    MaxBoots,       \* bound: process starts
    MaxFaults       \* bound: database outages and jobs that raise

AllOps == {"add", "update", "remove", "enable", "disable", "trigger"}

ASSUME SchedulerAssumption ==
    /\ Slow \subseteq Jobs /\ None \notin Jobs
    /\ TTL \in Nat \ {0} /\ Period \in Nat \ {0}
    /\ Ops \subseteq AllOps
    /\ MaxTime \in Nat \ {0} /\ MaxBoots \in Nat /\ MaxFaults \in Nat

VARIABLES
    now,        \* the clock all workers read
    lease,      \* the scheduler_leases row; holder 0 is NULL
    rows,       \* scheduled_jobs: new (not created), on, off, gone
    dbUp,       \* the database answers
    faults,     \* outages and uncaught errors of jobs so far
    boots,      \* process starts so far
    life,       \* of each worker
    ident,      \* worker_id of each process: the number of its start, 0 if it is down
    thread,     \* scheduler thread of each worker
    cur,        \* the job that thread executes
    leader,     \* _leader
    mem,        \* self.jobs: none, on, off
    queue,      \* time of the live scheduler entry, 0 if there is none
    spent,      \* keys of _queued whose entry has fired
    slow,       \* _slow_running
    ending,     \* of these, runs past their tail and not yet out of _slow_running
    api,        \* the request the event loop is in, half done
    fires,      \* history: starts of each occurrence by a worker entitled to it
    until,      \* history: the expiry each worker last wrote, 0 when given up or past
    lapsed      \* history: a leader went on after its lease had run out

db     == <<lease, rows>>
env    == <<now, dbUp, faults, boots>>
proc   == <<life, ident>>
loop   == <<thread, cur, leader>>
memory == <<mem, queue, spent>>
runs   == <<slow, ending>>
term   == <<until, lapsed>>
vars   == <<env, db, proc, loop, memory, runs, api, fires, term>>

Idle == [op |-> "idle"]
Req(op, j) == [op |-> op, job |-> j]
Requests ==
    {Idle} \cup {Req(op, j) : op \in {"reload", "gone", "on", "off", "exec"}, j \in Jobs}
Lives   == {"down", "up", "stopping", "released"}
Threads == {"none", "tick", "promote", "run", "exec", "dead"}

\* _get_next_run: the first multiple of Period after now.
NextRun == now + (Period - (now % Period))

\* _load_jobs: rows overwrite the memory; a row that is gone stays in it.
Loaded(w) == [j \in Jobs |-> IF rows[j] \in {"on", "off"} THEN rows[j] ELSE mem[w][j]]

Queued(w) == spent[w] \cup {j \in Jobs : queue[w][j] # 0}

\* _cancel_queued
Cancel(w, j) ==
    /\ queue' = [queue EXCEPT ![w][j] = 0]
    /\ spent' = [spent EXCEPT ![w] = @ \ {j}]

\* _schedule_job on the jobs m: a disabled job is left alone, an enabled one has
\* its entry replaced.
Schedule(w, m, j) ==
    IF m[j] = "on"
    THEN /\ queue' = [queue EXCEPT ![w][j] = NextRun]
         /\ spent' = [spent EXCEPT ![w] = @ \ {j}]
    ELSE UNCHANGED <<queue, spent>>

Init ==
    /\ now = 1 /\ lease = [holder |-> 0, expires |-> 0]
    /\ rows \in [Jobs -> {"new", "on", "off"}]
    /\ dbUp = TRUE /\ faults = 0 /\ boots = 0
    /\ life = [w \in Workers |-> "down"] /\ ident = [w \in Workers |-> 0]
    /\ thread = [w \in Workers |-> "none"]
    /\ cur = [w \in Workers |-> None]
    /\ leader = [w \in Workers |-> FALSE]
    /\ mem = [w \in Workers |-> [j \in Jobs |-> "none"]]
    /\ queue = [w \in Workers |-> [j \in Jobs |-> 0]]
    /\ spent = [w \in Workers |-> {}]
    /\ slow = [w \in Workers |-> {}] /\ ending = [w \in Workers |-> {}]
    /\ api = [w \in Workers |-> Idle]
    /\ fires = [j \in Jobs |-> [t \in 1..MaxTime |-> 0]]
    /\ until = [w \in Workers |-> 0] /\ lapsed = [w \in Workers |-> FALSE]

Running(w) == life[w] = "up"
To(w, p)   == thread' = [thread EXCEPT ![w] = p]

\* The thread is between acquiring the lease and its next try.
InCharge(w) == thread[w] \in {"promote", "run", "exec"}
Renews(w)   == thread[w] = "tick" /\ leader[w]

\* The lease the loop of w goes by has not run out.
Holds(w) == (InCharge(w) \/ Renews(w)) /\ now <= until[w]

\* The schedule is w's: it is the only worker, or it leads within a lease that has not
\* run out since it was promoted.
Entitled(w) == (\A v \in Workers : v = w) \/ (now <= until[w] /\ ~lapsed[w])
-----------------------------------------------------------------------------
(* The scheduler thread: _run *)

\* Mutants: the UPDATE without its holder and expiry condition; without the
\* takeover of an expired lease.
CanLeaseAlways(w) == w \in Workers
CanLeaseFreeOnly(w) == lease.holder \in {ident[w], 0}

\* _try_acquire_lease: one conditional UPDATE, with the id of this process.
CanLease(w) == lease.holder = ident[w] \/ lease.expires < now

AcquireLease(w) ==
    /\ thread[w] = "tick" /\ Running(w)
    /\ dbUp /\ CanLease(w)
    /\ lease' = [holder |-> ident[w], expires |-> now + TTL]
    /\ To(w, IF leader[w] THEN "run" ELSE "promote")
    /\ until' = [until EXCEPT ![w] = now + TTL]
    /\ lapsed' = [lapsed EXCEPT ![w] = leader[w] /\ (@ \/ now > until[w])]
    /\ UNCHANGED <<env, rows, proc, cur, leader, memory, runs, api, fires>>

\* Not the holder, or the database fails: a leader drops its queue.
StandDown(w) ==
    /\ thread[w] = "tick" /\ Running(w)
    /\ ~dbUp \/ ~CanLease(w)
    /\ leader[w]
    /\ leader' = [leader EXCEPT ![w] = FALSE]
    /\ queue' = [queue EXCEPT ![w] = [j \in Jobs |-> 0]]
    /\ spent' = [spent EXCEPT ![w] = {}]
    /\ until' = [until EXCEPT ![w] = 0] /\ lapsed' = [lapsed EXCEPT ![w] = FALSE]
    /\ UNCHANGED <<env, db, proc, thread, cur, mem, runs, api, fires>>

\* An exception that leaves _run ends the thread.
ThreadDies(w) ==
    /\ ~dbUp /\ To(w, "dead")
    /\ UNCHANGED <<env, db, proc, cur, leader, memory, runs, api, fires, term>>

\* Mutant: entries that exist already are kept.
RescheduleKeeps(w) ==
    /\ mem' = [mem EXCEPT ![w] = Loaded(w)]
    /\ queue' = [queue EXCEPT ![w] =
                    [j \in Jobs |-> IF Loaded(w)[j] # "on" THEN 0
                                    ELSE IF @[j] # 0 THEN @[j] ELSE NextRun]]
    /\ spent' = [spent EXCEPT ![w] = {}]

\* _reschedule_all: load, cancel everything, schedule what is enabled.
Reschedule(w) ==
    /\ mem' = [mem EXCEPT ![w] = Loaded(w)]
    /\ queue' = [queue EXCEPT ![w] =
                    [j \in Jobs |-> IF Loaded(w)[j] = "on" THEN NextRun ELSE 0]]
    /\ spent' = [spent EXCEPT ![w] = {}]

Promote(w) ==
    /\ thread[w] = "promote"
    /\ \/ /\ dbUp /\ Reschedule(w)
          /\ leader' = [leader EXCEPT ![w] = TRUE] /\ To(w, "run")
          /\ UNCHANGED <<env, db, proc, cur, runs, api, fires, term>>
       \/ ThreadDies(w)

Due(w) == {j \in Jobs : queue[w][j] \in 1..now}

Count(w, j, t) ==
    fires' = IF Entitled(w) THEN [fires EXCEPT ![j][t] = @ + 1] ELSE fires

\* Mutant: the entry carries the run time where the job id belongs.
FireWrongArgument(w, j) ==
    /\ thread[w] = "run" /\ j \in Due(w)
    /\ To(w, "exec") /\ cur' = [cur EXCEPT ![w] = queue[w][j]]
    /\ queue' = [queue EXCEPT ![w][j] = 0]
    /\ UNCHANGED <<env, db, proc, leader, mem, spent, runs, api, fires, term>>

\* scheduler.run pops the earliest due entry and calls _dispatch_job, which does
\* not ask whether the job is enabled and skips a slow job that still runs.
Fire(w, j) ==
    /\ thread[w] = "run" /\ j \in Due(w)
    /\ \A k \in Due(w) : queue[w][j] <= queue[w][k]
    /\ queue' = [queue EXCEPT ![w][j] = 0]
    /\ spent' = [spent EXCEPT ![w] = @ \cup {j}]
    /\ \/ /\ mem[w][j] = "none" \/ j \in slow[w]
          /\ UNCHANGED <<thread, cur, slow, fires>>
       \/ /\ mem[w][j] # "none" /\ j \in Slow \ slow[w]
          /\ slow' = [slow EXCEPT ![w] = @ \cup {j}]
          /\ Count(w, j, queue[w][j])
          /\ UNCHANGED <<thread, cur>>
       \/ /\ mem[w][j] # "none" /\ j \notin Slow
          /\ To(w, "exec") /\ cur' = [cur EXCEPT ![w] = j]
          /\ Count(w, j, queue[w][j])
          /\ UNCHANGED slow
    /\ UNCHANGED <<env, db, proc, leader, mem, ending, api, term>>

\* Mutant: only the status is written at the end of a run.
FinishNoReschedule(w, j) == dbUp /\ UNCHANGED <<queue, spent>>

\* The tail of _execute_job: the status UPDATE, then the next occurrence.
Finish(w, j) ==
    /\ dbUp
    /\ IF Running(w) THEN Schedule(w, mem[w], j) ELSE UNCHANGED <<queue, spent>>

\* A run without its tail: the failing UPDATE is repeated in the except clause, or
\* the job raises what is not in _JOB_EXECUTE_ERRORS.
CutShort ==
    /\ \/ ~dbUp /\ UNCHANGED faults
       \/ faults < MaxFaults /\ faults' = faults + 1
    /\ UNCHANGED <<queue, spent>>

\* A fast job ends on the scheduler thread; what it raises leaves the loop.
ExecDone(w) ==
    /\ thread[w] = "exec"
    /\ \/ Finish(w, cur[w]) /\ To(w, "run") /\ UNCHANGED faults
       \/ CutShort /\ To(w, "dead")
    /\ UNCHANGED <<now, dbUp, boots, db, proc, cur, leader, mem, runs, api, fires, term>>

\* _run_slow_job: the run ends, with the tail of _execute_job or without it ...
SlowDone(w, j) ==
    /\ j \in slow[w] \ ending[w]
    /\ ending' = [ending EXCEPT ![w] = @ \cup {j}]
    /\ \/ Finish(w, j) /\ UNCHANGED faults
       \/ CutShort
    /\ UNCHANGED <<now, dbUp, boots, db, proc, loop, mem, slow, api, fires, term>>

\* ... and then the job leaves _slow_running, under the lock again.
SlowLeaves(w, j) ==
    /\ j \in ending[w]
    /\ slow' = [slow EXCEPT ![w] = @ \ {j}]
    /\ ending' = [ending EXCEPT ![w] = @ \ {j}]
    /\ UNCHANGED <<env, db, proc, loop, memory, api, fires, term>>

\* Nothing more is due; the reload interval has not passed.
EndPass(w) ==
    /\ thread[w] = "run" /\ Due(w) = {} /\ To(w, "tick")
    /\ UNCHANGED <<env, db, proc, cur, leader, memory, runs, api, fires, term>>

\* _converge_jobs: load, cancel the entries of jobs no longer enabled, schedule
\* the enabled jobs without a key in _queued.
Converge(w) ==
    /\ thread[w] = "run" /\ Due(w) = {}
    /\ \/ /\ dbUp /\ To(w, "tick")
          /\ mem' = [mem EXCEPT ![w] = Loaded(w)]
          /\ queue' = [queue EXCEPT ![w] = [j \in Jobs |->
                IF Loaded(w)[j] # "on" THEN 0
                ELSE IF j \in Queued(w) THEN queue[w][j] ELSE NextRun]]
          /\ spent' = [spent EXCEPT ![w] = {j \in @ : Loaded(w)[j] = "on"}]
          /\ UNCHANGED <<env, db, proc, cur, leader, runs, api, fires, term>>
       \/ ThreadDies(w)

\* The loop sees running = False.
ThreadEnds(w) ==
    /\ thread[w] = "tick" /\ life[w] \in {"stopping", "released"} /\ To(w, "none")
    /\ UNCHANGED <<env, db, proc, cur, leader, memory, runs, api, fires, term>>
-----------------------------------------------------------------------------
(* The job API: one request at a time per worker, database and memory are    *)
(* changed in separate steps                                                 *)

ApiIdle(w, op) == op \in Ops /\ Running(w) /\ api[w] = Idle
Then(w, r) == api' = [api EXCEPT ![w] = r]
SetMem(w, j, m) == mem' = [mem EXCEPT ![w][j] = m]

\* add_job of a new name, or of a name that exists with the same config.
AddJob(w, j) ==
    /\ ApiIdle(w, "add") /\ dbUp /\ rows[j] # "gone"
    /\ rows' = [rows EXCEPT ![j] = IF @ = "new" THEN "on" ELSE @]
    /\ Then(w, Req("reload", j))
    /\ UNCHANGED <<env, lease, proc, loop, memory, runs, fires, term>>

\* update_job: the cron or params UPDATE.
UpdateJob(w, j) ==
    /\ ApiIdle(w, "update") /\ dbUp /\ mem[w][j] # "none"
    /\ Then(w, Req("reload", j))
    /\ UNCHANGED <<env, db, proc, loop, memory, runs, fires, term>>

\* The tail of add_job and update_job, under the lock.
Reload(w) ==
    /\ api[w].op = "reload" /\ Then(w, Idle)
    /\ \/ /\ dbUp /\ mem' = [mem EXCEPT ![w] = Loaded(w)]
          /\ IF Running(w) THEN Schedule(w, Loaded(w), api[w].job)
                           ELSE UNCHANGED <<queue, spent>>
       \/ ~dbUp /\ UNCHANGED memory
    /\ UNCHANGED <<env, db, proc, loop, runs, fires, term>>

RemoveJob(w, j) ==
    /\ ApiIdle(w, "remove") /\ mem[w][j] # "none"
    /\ SetMem(w, j, "none") /\ Cancel(w, j) /\ Then(w, Req("gone", j))
    /\ UNCHANGED <<env, db, proc, loop, runs, fires, term>>

DisableJob(w, j) ==
    /\ ApiIdle(w, "disable") /\ mem[w][j] # "none"
    /\ SetMem(w, j, "off") /\ Cancel(w, j) /\ Then(w, Req("off", j))
    /\ UNCHANGED <<env, db, proc, loop, runs, fires, term>>

\* enable_job: _schedule_job writes next_run, so a failing database stops here.
EnableJob(w, j) ==
    /\ ApiIdle(w, "enable") /\ mem[w][j] # "none"
    /\ SetMem(w, j, "on") /\ Schedule(w, [mem[w] EXCEPT ![j] = "on"], j)
    /\ Then(w, IF dbUp THEN Req("on", j) ELSE Idle)
    /\ UNCHANGED <<env, db, proc, loop, runs, fires, term>>

\* The DELETE or UPDATE after the lock; a row that is gone stays gone.
WriteRow(w) ==
    /\ api[w].op \in {"on", "off", "gone"} /\ Then(w, Idle)
    /\ \/ /\ dbUp
          /\ rows' = [rows EXCEPT ![api[w].job] =
                        IF @ \in {"on", "off"} THEN api[w].op ELSE @]
       \/ ~dbUp /\ UNCHANGED rows
    /\ UNCHANGED <<env, lease, proc, loop, memory, runs, fires, term>>

\* trigger_job: any worker, leader or not; a fast job runs in the request.
TriggerJob(w, j) ==
    /\ ApiIdle(w, "trigger") /\ mem[w][j] = "on"
    /\ \/ /\ j \in Slow
          /\ slow' = [slow EXCEPT ![w] = @ \cup {j}]
          /\ UNCHANGED api
       \/ /\ j \notin Slow /\ Then(w, Req("exec", j))
          /\ UNCHANGED slow
    /\ UNCHANGED <<env, db, proc, loop, memory, ending, fires, term>>

TriggerDone(w) ==
    /\ api[w].op = "exec" /\ Then(w, Idle)
    /\ \/ Finish(w, api[w].job) /\ UNCHANGED faults
       \/ CutShort
    /\ UNCHANGED <<now, dbUp, boots, db, proc, loop, mem, runs, fires, term>>
-----------------------------------------------------------------------------
(* Processes, time and the database *)

\* A process with a worker_id of its own: __init__ loads the jobs, start()
\* schedules the enabled ones.
Boot(w) ==
    /\ life[w] = "down" /\ boots < MaxBoots /\ dbUp
    /\ boots' = boots + 1
    /\ life' = [life EXCEPT ![w] = "up"] /\ ident' = [ident EXCEPT ![w] = boots']
    /\ To(w, "tick")
    /\ Reschedule(w)
    /\ UNCHANGED <<now, dbUp, faults, db, cur, leader, runs, api, fires, term>>

\* stop(): running = False ...
Stop(w) ==
    /\ Running(w) /\ life' = [life EXCEPT ![w] = "stopping"]
    /\ UNCHANGED <<env, db, ident, loop, memory, runs, api, fires, term>>

\* ... join, which gives up after five seconds whatever the thread is at, then
\* _release_lease, whose failures are ignored.
Release(w) ==
    /\ life[w] = "stopping"
    /\ life' = [life EXCEPT ![w] = "released"]
    /\ leader' = [leader EXCEPT ![w] = FALSE]
    /\ lease' = IF dbUp /\ lease.holder = ident[w]
                THEN [holder |-> 0, expires |-> now - 1] ELSE lease
    /\ until' = [until EXCEPT ![w] = 0]
    /\ UNCHANGED <<env, rows, ident, thread, cur, memory, runs, api, fires, lapsed>>

Die(w) ==
    /\ life' = [life EXCEPT ![w] = "down"] /\ ident' = [ident EXCEPT ![w] = 0]
    /\ To(w, "none")
    /\ cur' = [cur EXCEPT ![w] = None]
    /\ leader' = [leader EXCEPT ![w] = FALSE]
    /\ mem' = [mem EXCEPT ![w] = [j \in Jobs |-> "none"]]
    /\ queue' = [queue EXCEPT ![w] = [j \in Jobs |-> 0]]
    /\ spent' = [spent EXCEPT ![w] = {}]
    /\ slow' = [slow EXCEPT ![w] = {}] /\ ending' = [ending EXCEPT ![w] = {}]
    /\ Then(w, Idle)
    /\ until' = [until EXCEPT ![w] = 0] /\ lapsed' = [lapsed EXCEPT ![w] = FALSE]
    /\ UNCHANGED <<env, db, fires>>

Exit(w)  == life[w] = "released" /\ Die(w)
Crash(w) == life[w] \in {"up", "stopping"} /\ Die(w)

\* Time passes whatever the loops are doing: a pass may outlast the lease.
Tick ==
    /\ now < MaxTime /\ now' = now + 1
    /\ until' = [w \in Workers |-> IF until[w] < now' THEN 0 ELSE until[w]]
    /\ UNCHANGED <<dbUp, faults, boots, db, proc, loop, memory, runs, api, fires, lapsed>>

DbDown ==
    /\ dbUp /\ faults < MaxFaults
    /\ dbUp' = FALSE /\ faults' = faults + 1
    /\ UNCHANGED <<now, boots, db, proc, loop, memory, runs, api, fires, term>>

DbBack ==
    /\ ~dbUp /\ dbUp' = TRUE
    /\ UNCHANGED <<now, faults, boots, db, proc, loop, memory, runs, api, fires, term>>
-----------------------------------------------------------------------------
LoopStep(w) ==
    \/ AcquireLease(w) \/ StandDown(w) \/ Promote(w) \/ ExecDone(w) \/ EndPass(w)
    \/ Converge(w) \/ ThreadEnds(w) \/ \E j \in Jobs : Fire(w, j)

ApiStep(w) ==
    \/ Reload(w) \/ WriteRow(w) \/ TriggerDone(w)
    \/ \E j \in Jobs : \/ AddJob(w, j) \/ UpdateJob(w, j) \/ RemoveJob(w, j)
                       \/ DisableJob(w, j) \/ EnableJob(w, j) \/ TriggerJob(w, j)

ProcessStep(w) == Boot(w) \/ Stop(w) \/ Release(w) \/ Exit(w) \/ Crash(w)

Next ==
    \/ \E w \in Workers : \/ LoopStep(w) \/ ApiStep(w) \/ ProcessStep(w)
                         \/ \E j \in Jobs : SlowDone(w, j) \/ SlowLeaves(w, j)
    \/ Tick \/ DbDown \/ DbBack

Spec == Init /\ [][Next]_vars

\* The loop of a live process goes on, and time passes.
FairSpec == Spec /\ (\A w \in Workers : WF_vars(LoopStep(w))) /\ WF_vars(Tick)
-----------------------------------------------------------------------------
TypeOK ==
    /\ now \in 1..MaxTime
    /\ lease \in [holder : Nat, expires : Nat]
    /\ rows \in [Jobs -> {"new", "on", "off", "gone"}]
    /\ dbUp \in BOOLEAN /\ faults \in Nat /\ boots \in Nat
    /\ life \in [Workers -> Lives] /\ ident \in [Workers -> Nat]
    /\ thread \in [Workers -> Threads]
    /\ cur \in [Workers -> Jobs \cup {None}] /\ leader \in [Workers -> BOOLEAN]
    /\ mem \in [Workers -> [Jobs -> {"none", "on", "off"}]]
    /\ queue \in [Workers -> [Jobs -> Nat]]
    /\ spent \in [Workers -> SUBSET Jobs] /\ slow \in [Workers -> SUBSET Slow]
    /\ ending \in [Workers -> SUBSET Slow]
    /\ api \in [Workers -> Requests]
    /\ fires \in [Jobs -> [1..MaxTime -> Nat]]
    /\ until \in [Workers -> Nat] /\ lapsed \in [Workers -> BOOLEAN]

\* Two loops never both go by a lease that has not run out: the conditional UPDATE,
\* renewals, releases, expiry and ids of dead processes keep the terms apart, however
\* long a pass, a stop or a promotion takes.
SingleLeader ==
    \A v, w \in Workers : Holds(v) /\ Holds(w) => v = w

\* "a takeover cannot double-fire the boundary job" (_reschedule_all), as far as the
\* code keeps it: no two starts of one occurrence are both made by leaders within an
\* unbroken lease, and a worker that is alone starts none twice, lease or not.  (A loop
\* whose pass has outlasted its lease does go on firing beside the new leader.)
OncePerLease == \A j \in Jobs : \A t \in 1..MaxTime : fires[j][t] <= 1

\* A key of _queued whose entry fired, which keeps _converge_jobs from scheduling the
\* job again, belongs to a run that will schedule it at its end.
Tended(w, j) ==
    Running(w) /\ leader[w] /\ mem[w][j] = "on" /\ j \in spent[w]
        => j \in slow[w] \ ending[w] \/ (thread[w] = "exec" /\ cur[w] = j)

\* "schedule enabled jobs that have no queue entry" (_converge_jobs): while the
\* database answers and jobs raise only what is caught, a job the leader knows as
\* enabled is never lost.
NoLostJob == faults = 0 => \A w \in Workers, j \in Jobs : Tended(w, j)

\* The same of the jobs that run on the scheduler thread: no order of API calls,
\* reloads, convergence and run ends on one worker loses one.
FastJobsKept == faults = 0 => \A w \in Workers, j \in Jobs \ Slow : Tended(w, j)

\* A worker that stays up with a live loop does not wait for a leader longer than the
\* lease lasts, be the last leader stopped, crashed or slow: it or another takes over,
\* unless the database fails.
Takeover == \A w \in Workers :
    Running(w) /\ now + TTL < MaxTime
        ~> (\E v \in Workers : InCharge(v)) \/ ~Running(w) \/ thread[w] = "dead" \/ ~dbUp
=============================================================================
