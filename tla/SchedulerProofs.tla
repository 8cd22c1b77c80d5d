--------------------------- MODULE SchedulerProofs ---------------------------
(***************************************************************************)
(* Proofs about Scheduler for any number of workers, jobs, boots and       *)
(* faults, any lease TTL and any cron period, and passes and stops of any  *)
(* length: type correctness; leases that never overlap; no occurrence      *)
(* started twice by leaders within their leases, or by a worker that is    *)
(* alone; for that worker, no enabled fast job that has lost its place in  *)
(* the schedule; and a lease that every running worker can reach.          *)
(***************************************************************************)
EXTENDS Scheduler, TLAPS

-----------------------------------------------------------------------------
(* The operators *)

\* A job's next occurrence lies after the present.
LEMMA NextRunAfter == ASSUME TypeOK PROVE NextRun \in Nat /\ NextRun > now
<1>1. now \in Nat /\ Period \in Nat /\ Period > 0
  BY SchedulerAssumption DEF TypeOK
<1>2. now % Period \in 0..(Period - 1)  BY <1>1
<1> QED  BY <1>1, <1>2 DEF NextRun

\* Loading the table keeps the memory well typed.
LEMMA LoadedType ==
    ASSUME TypeOK, NEW w \in Workers
    PROVE  Loaded(w) \in [Jobs -> {"none", "on", "off"}]
BY DEF TypeOK, Loaded

\* Half-done requests name a job.
LEMMA RequestType ==
    /\ Idle \in Requests
    /\ \A op \in {"reload", "gone", "on", "off", "exec"}, j \in Jobs : Req(op, j) \in Requests
    /\ \A r \in Requests : r.op # "idle" => r.job \in Jobs
<1>1. ASSUME NEW r \in Requests, r.op # "idle" PROVE r.job \in Jobs
  <2>1. r # Idle  BY <1>1 DEF Idle
  <2>2. PICK op \in {"reload", "gone", "on", "off", "exec"}, j \in Jobs : r = Req(op, j)
    BY <2>1 DEF Requests
  <2> QED  BY <2>2 DEF Req
<1> QED  BY <1>1 DEF Requests

\* Replacing a job's entry keeps queue and keys well typed.
LEMMA ScheduleType ==
    ASSUME TypeOK, NEW w \in Workers, NEW m, NEW j, Schedule(w, m, j)
    PROVE  queue' \in [Workers -> [Jobs -> Nat]] /\ spent' \in [Workers -> SUBSET Jobs]
<1>1. NextRun \in Nat  BY NextRunAfter
<1>2. [queue[w] EXCEPT ![j] = NextRun] \in [Jobs -> Nat]  BY <1>1 DEF TypeOK
<1>3. spent[w] \ {j} \in SUBSET Jobs  BY DEF TypeOK
<1>4. queue' = queue \/ queue' = [queue EXCEPT ![w] = [queue[w] EXCEPT ![j] = NextRun]]
  BY DEF Schedule, TypeOK
<1>5. spent' = spent \/ spent' = [spent EXCEPT ![w] = spent[w] \ {j}]  BY DEF Schedule
<1>6. queue' \in [Workers -> [Jobs -> Nat]]  BY <1>2, <1>4 DEF TypeOK
<1>7. spent' \in [Workers -> SUBSET Jobs]  BY <1>3, <1>5 DEF TypeOK
<1> QED  BY <1>6, <1>7

\* So does the end of a run.
LEMMA FinishType ==
    ASSUME TypeOK, NEW w \in Workers, NEW j, Finish(w, j)
    PROVE  queue' \in [Workers -> [Jobs -> Nat]] /\ spent' \in [Workers -> SUBSET Jobs]
BY ScheduleType DEF TypeOK, Finish

\* A run cut short leaves both alone.
LEMMA CutShortType ==
    ASSUME TypeOK, CutShort
    PROVE  UNCHANGED <<queue, spent>> /\ faults' \in Nat
BY DEF TypeOK, CutShort

\* Counting one more start keeps the history well typed.
LEMMA CountType ==
    ASSUME NEW t, NEW f \in [1..MaxTime -> Nat]
    PROVE  [f EXCEPT ![t] = f[t] + 1] \in [1..MaxTime -> Nat]
<1>1. CASE t \in 1..MaxTime  BY <1>1
<1>2. CASE t \notin 1..MaxTime  BY <1>2
<1> QED  BY <1>1, <1>2

\* A full reschedule keeps all of the memory well typed.
LEMMA RescheduleType ==
    ASSUME TypeOK, NEW w \in Workers, Reschedule(w)
    PROVE  /\ mem' \in [Workers -> [Jobs -> {"none", "on", "off"}]]
           /\ queue' \in [Workers -> [Jobs -> Nat]] /\ spent' \in [Workers -> SUBSET Jobs]
<1>1. [j \in Jobs |-> IF Loaded(w)[j] = "on" THEN NextRun ELSE 0] \in [Jobs -> Nat]
  BY NextRunAfter
<1> QED  BY <1>1, LoadedType DEF TypeOK, Reschedule
-----------------------------------------------------------------------------
(* Type correctness *)

LEMMA InitType == Init => TypeOK
BY SchedulerAssumption, RequestType DEF Init, TypeOK, Lives, Threads

USE DEF db, env, proc, loop, memory, runs, term, To, Then

\* Every step of the scheduler thread keeps the state well typed.
LEMMA LoopType ==
    ASSUME TypeOK, NEW w \in Workers, LoopStep(w)
    PROVE  TypeOK'
<1> USE DEF TypeOK, Threads
<1>d. ASSUME ThreadDies(w) PROVE TypeOK'  BY <1>d DEF ThreadDies
<1>1. CASE AcquireLease(w)
  <2>1. lease' \in [holder : Nat, expires : Nat]
    BY <1>1, SchedulerAssumption DEF AcquireLease
  <2>2. thread' \in [Workers -> Threads]  BY <1>1 DEF AcquireLease
  <2>3. until' \in [Workers -> Nat]  BY <1>1, SchedulerAssumption DEF AcquireLease
  <2>4. lapsed' \in [Workers -> BOOLEAN]
    <3>1. (leader[w] /\ (lapsed[w] \/ now > until[w])) \in BOOLEAN  BY Zenon
    <3> QED  BY <1>1, <3>1, Zenon DEF AcquireLease
  <2> QED  BY <1>1, <2>1, <2>2, <2>3, <2>4 DEF AcquireLease
<1>2. CASE StandDown(w)
  <2>1. leader' \in [Workers -> BOOLEAN] /\ lapsed' \in [Workers -> BOOLEAN]
    BY <1>2, Zenon DEF StandDown
  <2> QED  BY <1>2, <2>1 DEF StandDown
<1>3. CASE Promote(w)  BY <1>3, <1>d, RescheduleType DEF Promote
<1>4. CASE ExecDone(w)  BY <1>4, FinishType, CutShortType DEF ExecDone
<1>5. CASE EndPass(w)  BY <1>5 DEF EndPass
<1>6. CASE Converge(w)
  <2>1. CASE ThreadDies(w)  BY <2>1, <1>d
  <2>2. CASE dbUp /\ ~ThreadDies(w)
    <3>1. [j \in Jobs |-> IF Loaded(w)[j] # "on" THEN 0
                ELSE IF j \in Queued(w) THEN queue[w][j] ELSE NextRun] \in [Jobs -> Nat]
      BY NextRunAfter
    <3>2. queue' \in [Workers -> [Jobs -> Nat]]  BY <1>6, <2>2, <3>1 DEF Converge
    <3>3. spent' \in [Workers -> SUBSET Jobs]
      <4>1. {j \in spent[w] : Loaded(w)[j] = "on"} \in SUBSET Jobs  OBVIOUS
      <4>2. spent' = [spent EXCEPT ![w] = {j \in spent[w] : Loaded(w)[j] = "on"}]
        BY <1>6, <2>2 DEF Converge
      <4> QED  BY <4>1, <4>2
    <3>4. mem' \in [Workers -> [Jobs -> {"none", "on", "off"}]]
      <4>1. Loaded(w) \in [Jobs -> {"none", "on", "off"}]  BY LoadedType
      <4>2. mem' = [mem EXCEPT ![w] = Loaded(w)]  BY <1>6, <2>2 DEF Converge
      <4> QED  BY <4>1, <4>2
    <3> QED  BY <1>6, <2>2, <3>2, <3>3, <3>4 DEF Converge
  <2> QED  BY <1>6, <2>1, <2>2 DEF Converge
<1>7. CASE ThreadEnds(w)  BY <1>7 DEF ThreadEnds
<1>8. ASSUME NEW j \in Jobs, Fire(w, j) PROVE TypeOK'
  <2>1. queue' \in [Workers -> [Jobs -> Nat]]  BY <1>8 DEF Fire
  <2>2. spent' \in [Workers -> SUBSET Jobs]  BY <1>8 DEF Fire
  <2>3. fires' \in [Jobs -> [1..MaxTime -> Nat]]
    <3>1. \/ UNCHANGED fires
          \/ fires' = [fires EXCEPT ![j] = [fires[j] EXCEPT ![queue[w][j]] = @ + 1]]
      BY <1>8 DEF Fire, Count
    <3>2. [fires[j] EXCEPT ![queue[w][j]] = fires[j][queue[w][j]] + 1] \in [1..MaxTime -> Nat]
      BY CountType
    <3> QED  BY <3>1, <3>2
  <2>4. thread' \in [Workers -> Threads]
    <3>1. thread' = thread \/ thread' = [thread EXCEPT ![w] = "exec"]  BY <1>8 DEF Fire
    <3> QED  BY <3>1
  <2>5. cur' \in [Workers -> Jobs \cup {None}]
    <3>1. cur' = cur \/ cur' = [cur EXCEPT ![w] = j]  BY <1>8 DEF Fire
    <3> QED  BY <3>1
  <2>6. slow' \in [Workers -> SUBSET Slow]
    <3>1. \/ slow' = slow
          \/ j \in Slow /\ slow' = [slow EXCEPT ![w] = slow[w] \cup {j}]
      BY <1>8 DEF Fire
    <3>2. j \in Slow => slow[w] \cup {j} \in SUBSET Slow  OBVIOUS
    <3> QED  BY <3>1, <3>2
  <2> QED  BY <1>8, <2>1, <2>2, <2>3, <2>4, <2>5, <2>6 DEF Fire
<1> QED  BY <1>1, <1>2, <1>3, <1>4, <1>5, <1>6, <1>7, <1>8 DEF LoopStep

\* Every step of the job API keeps the state well typed.
LEMMA ApiType ==
    ASSUME TypeOK, NEW w \in Workers, ApiStep(w)
    PROVE  TypeOK'
<1> USE DEF TypeOK
<1>q. ASSUME NEW j PROVE [queue EXCEPT ![w] = [queue[w] EXCEPT ![j] = 0]] \in [Workers -> [Jobs -> Nat]]
  OBVIOUS
<1>c. ASSUME NEW j \in Jobs, Cancel(w, j)
      PROVE queue' \in [Workers -> [Jobs -> Nat]] /\ spent' \in [Workers -> SUBSET Jobs]
  <2>1. spent[w] \ {j} \in SUBSET Jobs  OBVIOUS
  <2>2. queue' = [queue EXCEPT ![w] = [queue[w] EXCEPT ![j] = 0]]  BY <1>c DEF Cancel
  <2> QED  BY <1>c, <1>q, <2>1, <2>2 DEF Cancel
<1>m. ASSUME NEW j \in Jobs, NEW v \in {"none", "on", "off"}, SetMem(w, j, v)
      PROVE mem' \in [Workers -> [Jobs -> {"none", "on", "off"}]]
  BY <1>m DEF SetMem
<1>a. ASSUME NEW r \in Requests, api' = [api EXCEPT ![w] = r]
      PROVE api' \in [Workers -> Requests]
  BY <1>a
<1>1. CASE Reload(w)
  <2>1. CASE dbUp /\ mem' = [mem EXCEPT ![w] = Loaded(w)]
    <3>1. mem' \in [Workers -> [Jobs -> {"none", "on", "off"}]]  BY <2>1, LoadedType
    <3>2. queue' \in [Workers -> [Jobs -> Nat]] /\ spent' \in [Workers -> SUBSET Jobs]
      BY <1>1, ScheduleType DEF Reload
    <3> QED  BY <1>1, <1>a, <3>1, <3>2, RequestType DEF Reload
  <2>2. CASE UNCHANGED memory  BY <1>1, <2>2, <1>a, RequestType DEF Reload
  <2> QED  BY <1>1, <2>1, <2>2 DEF Reload
<1>2. CASE WriteRow(w)
  <2>1. api[w].op \in {"on", "off", "gone"}  BY <1>2 DEF WriteRow
  <2>2. rows' \in [Jobs -> {"new", "on", "off", "gone"}]  BY <1>2, <2>1 DEF WriteRow
  <2> QED  BY <1>2, <1>a, <2>2, RequestType DEF WriteRow
<1>3. CASE TriggerDone(w)
  BY <1>3, <1>a, FinishType, CutShortType, RequestType DEF TriggerDone
<1>4. ASSUME NEW j \in Jobs, AddJob(w, j) PROVE TypeOK'
  BY <1>4, <1>a, RequestType DEF AddJob
<1>5. ASSUME NEW j \in Jobs, UpdateJob(w, j) PROVE TypeOK'
  BY <1>5, <1>a, RequestType DEF UpdateJob
<1>6. ASSUME NEW j \in Jobs, RemoveJob(w, j) PROVE TypeOK'
  BY <1>6, <1>a, <1>c, <1>m, RequestType DEF RemoveJob
<1>7. ASSUME NEW j \in Jobs, DisableJob(w, j) PROVE TypeOK'
  BY <1>7, <1>a, <1>c, <1>m, RequestType DEF DisableJob
<1>8. ASSUME NEW j \in Jobs, EnableJob(w, j) PROVE TypeOK'
  BY <1>8, <1>a, <1>m, ScheduleType, RequestType DEF EnableJob
<1>9. ASSUME NEW j \in Jobs, TriggerJob(w, j) PROVE TypeOK'
  <2>1. CASE j \in Slow
    <3>1. slow[w] \cup {j} \in SUBSET Slow  BY <2>1
    <3>2. slow' = [slow EXCEPT ![w] = slow[w] \cup {j}]  BY <1>9, <2>1 DEF TriggerJob
    <3>3. slow' \in [Workers -> SUBSET Slow]  BY <3>1, <3>2
    <3> QED  BY <1>9, <2>1, <3>3 DEF TriggerJob
  <2>2. CASE j \notin Slow  BY <1>9, <2>2, <1>a, RequestType DEF TriggerJob
  <2> QED  BY <2>1, <2>2
<1> QED  BY <1>1, <1>2, <1>3, <1>4, <1>5, <1>6, <1>7, <1>8, <1>9 DEF ApiStep

\* Every process step, slow-job end, tick and outage keeps the state well typed.
LEMMA ProcessType ==
    ASSUME TypeOK, NEW w \in Workers, ProcessStep(w)
    PROVE  TypeOK'
<1> USE DEF TypeOK, Lives, Threads
<1>1. CASE Boot(w)
  <2>1. boots' \in Nat /\ ident' \in [Workers -> Nat]  BY <1>1 DEF Boot
  <2> QED  BY <1>1, <2>1, RescheduleType DEF Boot
<1>2. CASE Stop(w)  BY <1>2 DEF Stop
<1>3. CASE Release(w)
  <2>1. lease' \in [holder : Nat, expires : Nat]  BY <1>3 DEF Release
  <2>2. leader' \in [Workers -> BOOLEAN]  BY <1>3 DEF Release
  <2>3. until' \in [Workers -> Nat]  BY <1>3 DEF Release
  <2> QED  BY <1>3, <2>1, <2>2, <2>3 DEF Release
<1>4. CASE Die(w)
  <2>1. api' \in [Workers -> Requests]  BY <1>4, RequestType DEF Die
  <2>2. leader' \in [Workers -> BOOLEAN] /\ lapsed' \in [Workers -> BOOLEAN]  BY <1>4, Zenon DEF Die
  <2>3. spent' \in [Workers -> SUBSET Jobs] /\ slow' \in [Workers -> SUBSET Slow]
    BY <1>4 DEF Die
  <2>4. mem' \in [Workers -> [Jobs -> {"none", "on", "off"}]]  BY <1>4 DEF Die
  <2>5. queue' \in [Workers -> [Jobs -> Nat]]  BY <1>4 DEF Die
  <2>6. ending' \in [Workers -> SUBSET Slow]  BY <1>4 DEF Die
  <2>7. ident' \in [Workers -> Nat] /\ until' \in [Workers -> Nat]  BY <1>4 DEF Die
  <2> QED  BY <1>4, <2>1, <2>2, <2>3, <2>4, <2>5, <2>6, <2>7 DEF Die
<1> QED  BY <1>1, <1>2, <1>3, <1>4 DEF ProcessStep, Exit, Crash

LEMMA SlowType ==
    ASSUME TypeOK, NEW w \in Workers, NEW j \in Jobs, SlowDone(w, j) \/ SlowLeaves(w, j)
    PROVE  TypeOK'
<1> USE DEF TypeOK
<1>1. CASE SlowDone(w, j)
  <2>1. ending[w] \cup {j} \in SUBSET Slow  BY <1>1 DEF SlowDone
  <2>2. ending' \in [Workers -> SUBSET Slow]  BY <1>1, <2>1 DEF SlowDone
  <2> QED  BY <1>1, <2>2, FinishType, CutShortType DEF SlowDone
<1>2. CASE SlowLeaves(w, j)
  <2>1. slow[w] \ {j} \in SUBSET Slow /\ ending[w] \ {j} \in SUBSET Slow  OBVIOUS
  <2>2. slow' \in [Workers -> SUBSET Slow]  BY <1>2, <2>1 DEF SlowLeaves
  <2>3. ending' \in [Workers -> SUBSET Slow]  BY <1>2, <2>1 DEF SlowLeaves
  <2> QED  BY <1>2, <2>2, <2>3 DEF SlowLeaves
<1> QED  BY <1>1, <1>2

LEMMA OutsideType ==
    ASSUME TypeOK, Tick \/ DbDown \/ DbBack
    PROVE  TypeOK'
<1> USE DEF TypeOK
<1>1. CASE Tick
  <2>1. until' \in [Workers -> Nat]  BY <1>1 DEF Tick
  <2> QED  BY <1>1, <2>1, SchedulerAssumption DEF Tick
<1>2. CASE DbDown
  <2>1. dbUp' \in BOOLEAN  BY <1>2, Zenon DEF DbDown
  <2>2. faults' \in Nat  BY <1>2 DEF DbDown
  <2> QED  BY <1>2, <2>1, <2>2 DEF DbDown
<1>3. CASE DbBack  BY <1>3 DEF DbBack
<1> QED  BY <1>1, <1>2, <1>3

LEMMA NextType == TypeOK /\ [Next]_vars => TypeOK'
<1> SUFFICES ASSUME TypeOK, [Next]_vars PROVE TypeOK'  OBVIOUS
<1>1. CASE UNCHANGED vars  BY <1>1 DEF TypeOK, vars
<1>2. CASE Next  BY <1>2, LoopType, ApiType, ProcessType, SlowType, OutsideType DEF Next
<1> QED  BY <1>1, <1>2

\* Every reachable state of the scheduler is well typed: requests, memory, queues
\* and leases keep their alphabets through every interleaving, crash and outage.
THEOREM TypeCorrect == Spec => []TypeOK
BY InitType, NextType, PTL DEF Spec
-----------------------------------------------------------------------------
(* Leases that do not overlap.  SingleLeader alone says nothing about the    *)
(* lease row, which is what keeps a second worker out: LeaseInv ties the     *)
(* term each loop goes by to the row, and IdentInv the row to one process.   *)

\* A process that is down has no thread and leads nothing.
DownInv == \A w \in Workers : life[w] = "down" => thread[w] = "none" /\ leader[w] = FALSE

\* Every process has an id of its own, and the row names one that was given out.
IdentInv ==
    /\ lease.holder <= boots
    /\ \A w \in Workers : ident[w] <= boots /\ (thread[w] # "none" => ident[w] # 0)
    /\ \A v, w \in Workers : ident[v] = ident[w] /\ ident[v] # 0 => v = w

\* A loop whose lease has not run out is the one the row names, until the row's expiry.
LeaseInv == \A w \in Workers :
    Holds(w) => lease.holder = ident[w] /\ until[w] = lease.expires

LeaderInv == DownInv /\ IdentInv /\ LeaseInv

LEMMA InitLeader == Init => LeaderInv
BY DEF Init, LeaderInv, DownInv, IdentInv, LeaseInv, Holds, InCharge, Renews

\* The steps that change no process, no lease and no thread but that of w, which they
\* neither start nor put in charge.
Tame(w) ==
    /\ UNCHANGED <<now, boots, lease, proc, until>>
    /\ \A v \in Workers : v # w => thread'[v] = thread[v] /\ leader'[v] = leader[v]
    /\ thread[w] = "none" => thread'[w] = "none" /\ leader'[w] = leader[w]
    /\ InCharge(w)' \/ Renews(w)' => InCharge(w) \/ Renews(w)

LEMMA TameLeader ==
    ASSUME TypeOK, LeaderInv, NEW w \in Workers, Tame(w)
    PROVE  LeaderInv'
<1> USE DEF Tame, LeaderInv
<1>1. DownInv'  BY DEF DownInv
<1>2. IdentInv'  BY DEF IdentInv
<1>3. \A v \in Workers : Holds(v)' => Holds(v)  BY DEF Holds, InCharge, Renews
<1>4. LeaseInv'  BY <1>3 DEF LeaseInv
<1> QED  BY <1>1, <1>2, <1>4

\* The scheduler thread changes hands only through the lease.
LEMMA LoopTame ==
    ASSUME TypeOK, NEW w \in Workers, LoopStep(w)
    PROVE  AcquireLease(w) \/ StandDown(w) \/ Tame(w)
<1> USE DEF Tame, InCharge, Renews, TypeOK
<1>1. CASE Promote(w)  BY <1>1 DEF Promote, ThreadDies
<1>2. CASE ExecDone(w)  BY <1>2 DEF ExecDone
<1>3. CASE EndPass(w)  BY <1>3 DEF EndPass
<1>4. CASE Converge(w)  BY <1>4 DEF Converge, ThreadDies
<1>5. CASE ThreadEnds(w)  BY <1>5 DEF ThreadEnds
<1>6. ASSUME NEW j \in Jobs, Fire(w, j) PROVE Tame(w)  BY <1>6 DEF Fire
<1> QED  BY <1>1, <1>2, <1>3, <1>4, <1>5, <1>6 DEF LoopStep

\* Requests and slow jobs touch neither lease nor loop.
LEMMA OtherTame ==
    ASSUME TypeOK, NEW w \in Workers,
           ApiStep(w) \/ \E j \in Jobs : SlowDone(w, j) \/ SlowLeaves(w, j)
    PROVE  UNCHANGED <<now, boots, lease, proc, loop, term, fires>>
BY DEF ApiStep, SlowDone, SlowLeaves, Reload, WriteRow, TriggerDone, AddJob, UpdateJob,
       RemoveJob, DisableJob, EnableJob, TriggerJob

\* Taking the lease: whoever holds an unexpired one keeps the others out.
LEMMA AcquireLeader ==
    ASSUME TypeOK, LeaderInv, NEW w \in Workers, AcquireLease(w)
    PROVE  LeaderInv'
<1> USE DEF LeaderInv, TypeOK
<1>0. now \in Nat /\ TTL \in Nat /\ lease.expires \in Nat  BY SchedulerAssumption
<1>1. /\ thread[w] = "tick" /\ Running(w) /\ CanLease(w)
      /\ lease' = [holder |-> ident[w], expires |-> now + TTL]
      /\ until' = [until EXCEPT ![w] = now + TTL]
      /\ thread' = [thread EXCEPT ![w] = IF leader[w] THEN "run" ELSE "promote"]
      /\ UNCHANGED <<now, boots, life, ident, leader>>
  BY DEF AcquireLease
<1>2. DownInv'  BY <1>1 DEF DownInv, Running
<1>3. IdentInv'  BY <1>1 DEF IdentInv
<1>4. ASSUME NEW v \in Workers, v # w, Holds(v)' PROVE FALSE
  <2>1. Holds(v)  BY <1>1, <1>4 DEF Holds, InCharge, Renews
  <2>2. lease.holder = ident[v] /\ now <= lease.expires /\ thread[v] # "none"
    BY <2>1 DEF LeaseInv, Holds, InCharge, Renews
  <2>3. ident[v] # ident[w]  BY <1>4, <2>2 DEF IdentInv
  <2> QED  BY <1>0, <1>1, <2>2, <2>3 DEF CanLease
<1>5. lease'.holder = ident'[w] /\ until'[w] = lease'.expires  BY <1>1
<1>6. LeaseInv'  BY <1>4, <1>5 DEF LeaseInv
<1> QED  BY <1>2, <1>3, <1>6

\* Starting, stopping and dying take no lease from another loop.
LEMMA ProcessLeader ==
    ASSUME TypeOK, LeaderInv, NEW w \in Workers, ProcessStep(w)
    PROVE  LeaderInv'
<1> USE DEF LeaderInv, TypeOK
<1>0. now \in Nat /\ now >= 1  OBVIOUS
<1>1. CASE Boot(w)
  <2>1. /\ boots' = boots + 1 /\ life[w] = "down" /\ UNCHANGED <<now, lease, leader, until>>
        /\ life' = [life EXCEPT ![w] = "up"] /\ ident' = [ident EXCEPT ![w] = boots + 1]
        /\ thread' = [thread EXCEPT ![w] = "tick"]
    BY <1>1 DEF Boot
  <2>2. leader[w] = FALSE  BY <2>1 DEF DownInv
  <2>3. DownInv'  BY <2>1 DEF DownInv
  <2>4. IdentInv'
    <3>1. ident'[w] = boots + 1 /\ \A v \in Workers : v # w => ident'[v] = ident[v] /\ thread'[v] = thread[v]
      BY <2>1
    <3>2. lease'.holder <= boots' /\ \A v \in Workers : ident'[v] <= boots'
      <4>1. boots \in Nat /\ boots' = boots + 1 /\ lease' = lease  BY <2>1
      <4>2. lease.holder \in Nat /\ \A v \in Workers : ident[v] \in Nat  OBVIOUS
      <4>3. lease.holder <= boots /\ \A v \in Workers : ident[v] <= boots  BY DEF IdentInv
      <4> HIDE DEF TypeOK, LeaderInv
      <4>4. \A v \in Workers : ident'[v] = boots + 1 \/ ident'[v] = ident[v]  BY <3>1
      <4> QED  BY <4>1, <4>2, <4>3, <4>4
    <3>3. \A v \in Workers : thread'[v] # "none" => ident'[v] # 0
      <4>1. boots + 1 # 0  OBVIOUS
      <4>2. \A v \in Workers : thread[v] # "none" => ident[v] # 0  BY DEF IdentInv
      <4> QED  BY <3>1, <4>1, <4>2
    <3>4. \A v \in Workers : v # w => ident'[v] # ident'[w]  BY <3>1 DEF IdentInv
    <3> QED  BY <3>1, <3>2, <3>3, <3>4 DEF IdentInv
  <2>5. ~Holds(w)' /\ \A v \in Workers : v # w => (Holds(v)' <=> Holds(v))
    BY <2>1, <2>2 DEF Holds, InCharge, Renews
  <2>6. LeaseInv'  BY <2>1, <2>5 DEF LeaseInv
  <2> QED  BY <2>3, <2>4, <2>6
<1>2. CASE Stop(w)
  BY <1>2 DEF Stop, Running, DownInv, IdentInv, LeaseInv, Holds, InCharge, Renews
<1>3. CASE Release(w)
  <2>1. /\ life' = [life EXCEPT ![w] = "released"] /\ leader' = [leader EXCEPT ![w] = FALSE]
        /\ until' = [until EXCEPT ![w] = 0] /\ UNCHANGED <<now, boots, ident, thread>>
        /\ lease' = lease \/ (lease.holder = ident[w] /\ lease' = [holder |-> 0, expires |-> now - 1])
    BY <1>3 DEF Release
  <2>2. DownInv'  BY <2>1 DEF DownInv
  <2>3. IdentInv'  BY <2>1 DEF IdentInv
  <2>4. ~Holds(w)'  BY <1>0, <2>1 DEF Holds
  <2>5. ASSUME NEW v \in Workers, v # w, Holds(v)'
        PROVE  lease'.holder = ident'[v] /\ until'[v] = lease'.expires
    <3>1. Holds(v) /\ until'[v] = until[v]  BY <2>1, <2>5 DEF Holds, InCharge, Renews
    <3>2. thread[v] # "none"  BY <3>1 DEF Holds, InCharge, Renews
    <3>3. lease.holder = ident[v] /\ until[v] = lease.expires  BY <3>1 DEF LeaseInv
    <3>4. ident[v] # ident[w]  BY <2>5, <3>2 DEF IdentInv
    <3> QED  BY <2>1, <3>1, <3>3, <3>4
  <2>6. LeaseInv'  BY <2>4, <2>5 DEF LeaseInv
  <2> QED  BY <2>2, <2>3, <2>6
<1>4. CASE Die(w)
  <2>1. /\ life' = [life EXCEPT ![w] = "down"] /\ ident' = [ident EXCEPT ![w] = 0]
        /\ thread' = [thread EXCEPT ![w] = "none"] /\ leader' = [leader EXCEPT ![w] = FALSE]
        /\ until' = [until EXCEPT ![w] = 0] /\ UNCHANGED <<now, boots, lease>>
    BY <1>4 DEF Die
  <2>2. DownInv'  BY <2>1 DEF DownInv
  <2>3. IdentInv'  BY <2>1 DEF IdentInv
  <2>4. ~Holds(w)' /\ \A v \in Workers : v # w => (Holds(v)' <=> Holds(v))
    BY <2>1 DEF Holds, InCharge, Renews
  <2>5. LeaseInv'  BY <2>1, <2>4 DEF LeaseInv
  <2> QED  BY <2>2, <2>3, <2>5
<1> QED  BY <1>1, <1>2, <1>3, <1>4 DEF ProcessStep, Exit, Crash

LEMMA NextLeader == ASSUME TypeOK, LeaderInv, [Next]_vars PROVE LeaderInv'
<1> USE DEF TypeOK
<1>1. CASE UNCHANGED vars \/ DbDown \/ DbBack
  <2>1. UNCHANGED <<now, boots, lease, life, ident, thread, leader, until>>
    BY <1>1 DEF vars, DbDown, DbBack
  <2> QED  BY <2>1 DEF LeaderInv, DownInv, IdentInv, LeaseInv, Holds, InCharge, Renews
<1>2. CASE Tick
  <2>1. /\ now' = now + 1 /\ UNCHANGED <<boots, lease, life, ident, thread, leader>>
        /\ \A v \in Workers : until'[v] = IF until[v] < now + 1 THEN 0 ELSE until[v]
    BY <1>2 DEF Tick
  <2>2. now \in Nat /\ \A v \in Workers : until[v] \in Nat  OBVIOUS
  <2>3. \A v \in Workers : Holds(v)' => Holds(v) /\ until'[v] = until[v]
    BY <2>1, <2>2 DEF Holds, InCharge, Renews
  <2>4. LeaseInv'  BY <2>1, <2>3 DEF LeaderInv, LeaseInv
  <2>5. DownInv' /\ IdentInv'  BY <2>1 DEF LeaderInv, DownInv, IdentInv
  <2> QED  BY <2>4, <2>5 DEF LeaderInv
<1>3. ASSUME NEW w \in Workers, StandDown(w) PROVE LeaderInv'
  <2>1. /\ thread[w] = "tick" /\ leader' = [leader EXCEPT ![w] = FALSE]
        /\ until' = [until EXCEPT ![w] = 0] /\ UNCHANGED <<now, boots, lease, life, ident, thread>>
    BY <1>3 DEF StandDown
  <2>2. ~Holds(w)' /\ \A v \in Workers : v # w => (Holds(v)' <=> Holds(v))
    BY <2>1 DEF Holds, InCharge, Renews
  <2>3. LeaseInv'  BY <2>1, <2>2 DEF LeaderInv, LeaseInv
  <2>4. DownInv' /\ IdentInv'  BY <2>1 DEF LeaderInv, DownInv, IdentInv
  <2> QED  BY <2>3, <2>4 DEF LeaderInv
<1>4. ASSUME NEW w \in Workers, LoopStep(w) PROVE LeaderInv'
  BY <1>3, <1>4, LoopTame, TameLeader, AcquireLeader
<1>5. ASSUME NEW w \in Workers, ApiStep(w) \/ \E j \in Jobs : SlowDone(w, j) \/ SlowLeaves(w, j)
      PROVE LeaderInv'
  <2>1. Tame(w)  BY <1>5, OtherTame DEF Tame, InCharge, Renews
  <2> QED  BY <2>1, TameLeader
<1> QED  BY <1>1, <1>2, <1>4, <1>5, ProcessLeader DEF Next

\* Two loops within their leases would both be the process the one row names.
LEMMA LeaderSingle == LeaderInv => SingleLeader
<1> SUFFICES ASSUME LeaderInv, NEW v \in Workers, NEW w \in Workers, Holds(v), Holds(w) PROVE v = w
  BY DEF SingleLeader
<1>1. ident[v] = ident[w]  BY DEF LeaderInv, LeaseInv
<1>2. thread[v] # "none"  BY DEF Holds, InCharge, Renews
<1> QED  BY <1>1, <1>2 DEF LeaderInv, IdentInv

\* The conditional UPDATE, renewals, expiry, stand-downs, releases, crashes, restarts
\* and outages never leave two workers' loops within a lease that has not run out,
\* whatever the TTL, the number of workers and the length of a pass.
THEOREM OneLeader == Spec => []SingleLeader
<1>1. TypeOK /\ LeaderInv /\ [Next]_vars => LeaderInv'  BY NextLeader
<1> QED  BY <1>1, InitLeader, TypeCorrect, LeaderSingle, PTL DEF Spec
-----------------------------------------------------------------------------
(* No occurrence is started twice within leases.  OncePerLease needs to know *)
(* that the queue of a leader within its term holds occurrences nobody has   *)
(* started: entries are made for the future, only the past has been started, *)
(* and a queue is only fired from after the promotion has rebuilt it.        *)

\* The queue of w will be fired from as it stands.
Leads(w) == thread[w] \in {"run", "exec"} \/ (thread[w] = "tick" /\ leader[w] = TRUE)

\* What it fires counts.
OnTerm(w) == Leads(w) /\ Entitled(w)

\* Only occurrences that are past have been started.
PastInv == \A j \in Jobs, t \in 1..MaxTime : fires[j][t] # 0 => t <= now

\* The entries a leader within its term has queued have not been started by another.
EntryInv == \A w \in Workers, j \in Jobs :
    OnTerm(w) /\ queue[w][j] \in 1..MaxTime => fires[j][queue[w][j]] = 0

FiringInv == PastInv /\ EntryInv /\ OncePerLease

LEMMA InitFiring == Init => FiringInv
BY DEF Init, FiringInv, PastInv, EntryInv, OncePerLease, OnTerm, Leads

\* A step that starts nothing that counts, puts no loop on its term, and adds only
\* future entries to a queue that will be fired from.
Calm ==
    /\ fires' = fires /\ now <= now'
    /\ \A w \in Workers, j \in Jobs : OnTerm(w)' =>
          \/ queue'[w][j] \in {0, NextRun}
          \/ OnTerm(w) /\ queue'[w][j] = queue[w][j]

LEMMA CalmFiring ==
    ASSUME TypeOK, TypeOK', FiringInv, Calm
    PROVE  FiringInv'
<1>1. NextRun \in Nat /\ NextRun > now  BY NextRunAfter
<1>2. OncePerLease'  BY DEF Calm, FiringInv, OncePerLease
<1>3. PastInv'  BY DEF Calm, FiringInv, PastInv, TypeOK
<1>4. ASSUME NEW w \in Workers, NEW j \in Jobs, OnTerm(w)', queue'[w][j] \in 1..MaxTime
      PROVE fires'[j][queue'[w][j]] = 0
  <2>1. CASE queue'[w][j] = NextRun
    BY <1>1, <1>4, <2>1 DEF FiringInv, PastInv, Calm, TypeOK
  <2>2. CASE OnTerm(w) /\ queue'[w][j] = queue[w][j]
    BY <1>4, <2>2 DEF FiringInv, EntryInv, Calm
  <2> QED  BY <1>4, <2>1, <2>2 DEF Calm
<1> QED  BY <1>2, <1>3, <1>4 DEF FiringInv, EntryInv

\* A step that leaves the terms alone and puts no queue to use.
LEMMA CalmQueue ==
    ASSUME UNCHANGED <<fires, now, term>>, now \in Nat, \A v \in Workers : Leads(v)' => Leads(v),
           \A v \in Workers, j \in Jobs : queue'[v][j] \in {0, NextRun, queue[v][j]}
    PROVE  Calm
<1>1. \A v \in Workers : OnTerm(v)' => OnTerm(v)  BY DEF OnTerm, Entitled
<1> QED  BY <1>1 DEF Calm

\* What the end of a run, or a request, does to one queue.
LEMMA ScheduleCalm ==
    ASSUME TypeOK, NEW w \in Workers, NEW m, NEW i, Schedule(w, m, i)
    PROVE  \A v \in Workers, j \in Jobs : queue'[v][j] \in {NextRun, queue[v][j]}
<1>1. CASE queue' = queue  BY <1>1
<1>2. CASE queue' = [queue EXCEPT ![w] = [queue[w] EXCEPT ![i] = NextRun]]
  <2>1. \A v \in Workers : v # w => queue'[v] = queue[v]  BY <1>2 DEF TypeOK
  <2>2. queue'[w] = [queue[w] EXCEPT ![i] = NextRun]  BY <1>2 DEF TypeOK
  <2>3. \A j \in Jobs : queue'[w][j] \in {NextRun, queue[w][j]}  BY <2>2 DEF TypeOK
  <2> QED  BY <2>1, <2>3
<1> QED  BY <1>1, <1>2 DEF Schedule, TypeOK

LEMMA FinishCalm ==
    ASSUME TypeOK, NEW w \in Workers, NEW i, Finish(w, i)
    PROVE  \A v \in Workers, j \in Jobs : queue'[v][j] \in {NextRun, queue[v][j]}
BY ScheduleCalm DEF Finish

\* Every step but a firing is calm.
LEMMA LoopCalm ==
    ASSUME TypeOK, NEW w \in Workers, LoopStep(w)
    PROVE  Calm \/ \E j \in Jobs : Fire(w, j)
<1> USE DEF TypeOK
<1>0. now \in Nat /\ TTL \in Nat  BY SchedulerAssumption
<1>d. ASSUME ThreadDies(w) PROVE Calm  BY <1>0, <1>d, CalmQueue DEF ThreadDies, Leads
<1>1. CASE AcquireLease(w)
  <2>1. /\ thread[w] = "tick" /\ UNCHANGED <<fires, now, queue, leader>>
        /\ thread' = [thread EXCEPT ![w] = IF leader[w] THEN "run" ELSE "promote"]
        /\ until' = [until EXCEPT ![w] = now + TTL]
        /\ lapsed' = [lapsed EXCEPT ![w] = leader[w] /\ (lapsed[w] \/ now > until[w])]
    BY <1>1 DEF AcquireLease
  <2>2. \A v \in Workers : v # w => thread'[v] = thread[v] /\ until'[v] = until[v] /\ lapsed'[v] = lapsed[v]
    BY <2>1
  <2>3. \A v \in Workers : v # w => (OnTerm(v)' => OnTerm(v))  BY <2>1, <2>2 DEF OnTerm, Leads, Entitled
  <2>4. OnTerm(w)' => OnTerm(w)
    <3> SUFFICES ASSUME OnTerm(w)' PROVE OnTerm(w)  OBVIOUS
    <3>1. leader[w] = TRUE  BY <2>1 DEF OnTerm, Leads
    <3>2. Leads(w)  BY <2>1, <3>1 DEF Leads
    <3>3. CASE \A v \in Workers : v = w  BY <3>2, <3>3 DEF OnTerm, Entitled
    <3>4. CASE ~lapsed'[w]
      <4>1. lapsed'[w] <=> (lapsed[w] \/ now > until[w])  BY <2>1, <3>1
      <4>2. until[w] \in Nat  OBVIOUS
      <4> QED  BY <1>0, <3>2, <3>4, <4>1, <4>2 DEF OnTerm, Entitled
    <3> QED  BY <3>3, <3>4 DEF OnTerm, Entitled
  <2> QED  BY <1>0, <2>1, <2>3, <2>4 DEF Calm
<1>2. CASE StandDown(w)
  <2>1. /\ thread[w] = "tick" /\ UNCHANGED <<fires, now, thread>> /\ leader' = [leader EXCEPT ![w] = FALSE]
        /\ queue' = [queue EXCEPT ![w] = [j \in Jobs |-> 0]]
        /\ until' = [until EXCEPT ![w] = 0] /\ lapsed' = [lapsed EXCEPT ![w] = FALSE]
    BY <1>2 DEF StandDown
  <2>2. ~Leads(w)'  BY <2>1 DEF Leads
  <2>3. \A v \in Workers : v # w => (OnTerm(v)' => OnTerm(v)) /\ queue'[v] = queue[v]
    BY <2>1 DEF OnTerm, Leads, Entitled
  <2> QED  BY <1>0, <2>1, <2>2, <2>3 DEF Calm, OnTerm
<1>3. CASE Promote(w)
  <2>1. CASE Reschedule(w) /\ ~ThreadDies(w)
    <3>1. /\ UNCHANGED <<fires, now, term>> /\ leader' = [leader EXCEPT ![w] = TRUE]
          /\ thread' = [thread EXCEPT ![w] = "run"]
          /\ queue' = [queue EXCEPT ![w] = [j \in Jobs |-> IF Loaded(w)[j] = "on" THEN NextRun ELSE 0]]
      BY <1>3, <2>1 DEF Promote, Reschedule
    <3>2. \A j \in Jobs : queue'[w][j] \in {0, NextRun}  BY <3>1
    <3>3. \A v \in Workers : v # w => (OnTerm(v)' => OnTerm(v)) /\ queue'[v] = queue[v]
      BY <3>1 DEF OnTerm, Leads, Entitled
    <3> QED  BY <1>0, <3>1, <3>2, <3>3 DEF Calm
  <2> QED  BY <1>3, <1>d, <2>1 DEF Promote
<1>4. CASE ExecDone(w)
  <2>1. UNCHANGED <<fires, now, term>>  BY <1>4 DEF ExecDone
  <2>2. \A v \in Workers : Leads(v)' => Leads(v)  BY <1>4 DEF ExecDone, Leads
  <2>3. \A v \in Workers, j \in Jobs : queue'[v][j] \in {0, NextRun, queue[v][j]}
    BY <1>4, FinishCalm, CutShortType DEF ExecDone
  <2> QED  BY <1>0, <2>1, <2>2, <2>3, CalmQueue
<1>5. CASE EndPass(w)  BY <1>0, <1>5, CalmQueue DEF EndPass, Leads
<1>6. CASE Converge(w)
  <2>2. CASE ~ThreadDies(w)
    <3>1. /\ thread[w] = "run" /\ To(w, "tick") /\ UNCHANGED <<fires, now, leader, term>>
          /\ queue' = [queue EXCEPT ![w] = [j \in Jobs |->
                IF Loaded(w)[j] # "on" THEN 0
                ELSE IF j \in Queued(w) THEN queue[w][j] ELSE NextRun]]
      BY <1>6, <2>2 DEF Converge
    <3>2. \A v \in Workers, j \in Jobs : queue'[v][j] \in {0, NextRun, queue[v][j]}
      BY <3>1
    <3>3. \A v \in Workers : Leads(v)' => Leads(v)  BY <3>1 DEF Leads
    <3> QED  BY <1>0, <3>1, <3>2, <3>3, CalmQueue
  <2> QED  BY <1>d, <2>2
<1>7. CASE ThreadEnds(w)  BY <1>0, <1>7, CalmQueue DEF ThreadEnds, Leads
<1> QED  BY <1>1, <1>2, <1>3, <1>4, <1>5, <1>6, <1>7 DEF LoopStep

\* So are requests and the ends of slow jobs ...
LEMMA OtherCalm ==
    ASSUME TypeOK, NEW w \in Workers,
           ApiStep(w) \/ \E j \in Jobs : SlowDone(w, j) \/ SlowLeaves(w, j)
    PROVE  Calm
<1> USE DEF TypeOK
<1>1. UNCHANGED <<thread, leader, now, fires, term>>  BY OtherTame
<1>2. ASSUME NEW i \in Jobs, Cancel(w, i)
      PROVE \A v \in Workers, j \in Jobs : queue'[v][j] \in {0, queue[v][j]}
  BY <1>2 DEF Cancel
<1>3. \A v \in Workers, j \in Jobs : queue'[v][j] \in {0, NextRun, queue[v][j]}
  <2>1. CASE Reload(w)  BY <2>1, ScheduleCalm DEF Reload
  <2>2. CASE WriteRow(w)  BY <2>2 DEF WriteRow
  <2>3. CASE TriggerDone(w)  BY <2>3, FinishCalm, CutShortType DEF TriggerDone
  <2>4. CASE \E j \in Jobs : AddJob(w, j) \/ UpdateJob(w, j) \/ TriggerJob(w, j)
    BY <2>4 DEF AddJob, UpdateJob, TriggerJob
  <2>5. CASE \E j \in Jobs : RemoveJob(w, j) \/ DisableJob(w, j)
    BY <2>5, <1>2 DEF RemoveJob, DisableJob
  <2>6. CASE \E j \in Jobs : EnableJob(w, j)  BY <2>6, ScheduleCalm DEF EnableJob
  <2>7. CASE \E j \in Jobs : SlowDone(w, j)  BY <2>7, FinishCalm, CutShortType DEF SlowDone
  <2>8. CASE \E j \in Jobs : SlowLeaves(w, j)  BY <2>8 DEF SlowLeaves
  <2> QED  BY <2>1, <2>2, <2>3, <2>4, <2>5, <2>6, <2>7, <2>8 DEF ApiStep
<1>4. \A v \in Workers : Leads(v)' => Leads(v)  BY <1>1 DEF Leads
<1>5. now \in Nat  OBVIOUS
<1> QED  BY <1>1, <1>3, <1>4, <1>5, CalmQueue

\* ... starts, stops and deaths, time and outages.
LEMMA OutsideCalm ==
    ASSUME TypeOK, DownInv,
           (\E w \in Workers : ProcessStep(w)) \/ Tick \/ DbDown \/ DbBack \/ UNCHANGED vars
    PROVE  Calm
<1> USE DEF TypeOK
<1>0. now \in Nat /\ now >= 1  OBVIOUS
<1>1. ASSUME NEW w \in Workers, ProcessStep(w) PROVE Calm
  <2>1. CASE Boot(w)
    <3>1. /\ UNCHANGED <<fires, now, leader, term>> /\ life[w] = "down"
          /\ thread' = [thread EXCEPT ![w] = "tick"]
          /\ \A v \in Workers : v # w => queue'[v] = queue[v]
      BY <2>1 DEF Boot, Reschedule
    <3>2. ~Leads(w)'  BY <3>1 DEF Leads, DownInv
    <3>3. \A v \in Workers : v # w => (OnTerm(v)' => OnTerm(v))  BY <3>1 DEF OnTerm, Leads, Entitled
    <3> QED  BY <1>0, <3>1, <3>2, <3>3 DEF Calm, OnTerm
  <2>2. CASE Stop(w)  BY <1>0, <2>2, CalmQueue DEF Stop, Leads
  <2>3. CASE Release(w)
    <3>1. /\ UNCHANGED <<fires, now, thread, queue, lapsed>> /\ leader' = [leader EXCEPT ![w] = FALSE]
          /\ until' = [until EXCEPT ![w] = 0]
      BY <2>3 DEF Release
    <3>2. \A v \in Workers : (Leads(v)' => Leads(v)) /\ (Entitled(v)' => Entitled(v))
      BY <1>0, <3>1 DEF Leads, Entitled
    <3> QED  BY <1>0, <3>1, <3>2 DEF Calm, OnTerm
  <2>4. CASE Die(w)
    <3>1. /\ UNCHANGED <<fires, now>> /\ thread' = [thread EXCEPT ![w] = "none"]
          /\ \A v \in Workers : v # w => /\ queue'[v] = queue[v] /\ leader'[v] = leader[v]
                                        /\ until'[v] = until[v] /\ lapsed'[v] = lapsed[v]
      BY <2>4 DEF Die
    <3>2. ~Leads(w)'  BY <3>1 DEF Leads
    <3>3. \A v \in Workers : v # w => (OnTerm(v)' => OnTerm(v))  BY <3>1 DEF OnTerm, Leads, Entitled
    <3> QED  BY <1>0, <3>1, <3>2, <3>3 DEF Calm, OnTerm
  <2> QED  BY <1>1, <2>1, <2>2, <2>3, <2>4 DEF ProcessStep, Exit, Crash
<1>2. CASE Tick
  <2>1. /\ now' = now + 1 /\ UNCHANGED <<fires, queue, thread, leader, lapsed>>
        /\ \A v \in Workers : until'[v] = IF until[v] < now + 1 THEN 0 ELSE until[v]
    BY <1>2 DEF Tick
  <2>2. \A v \in Workers : until[v] \in Nat  OBVIOUS
  <2>3. \A v \in Workers : (Leads(v)' => Leads(v)) /\ (Entitled(v)' => Entitled(v))
    BY <1>0, <2>1, <2>2 DEF Leads, Entitled
  <2> QED  BY <1>0, <2>1, <2>3 DEF Calm, OnTerm
<1>3. CASE DbDown \/ DbBack \/ UNCHANGED vars
  BY <1>0, <1>3, CalmQueue DEF DbDown, DbBack, vars, Leads
<1> QED  BY <1>1, <1>2, <1>3

\* A loop beyond its term starts nothing that counts; one within it starts an
\* occurrence for the first time: the entry is one of its own, and no other queue on
\* its term exists.
LEMMA FireFiring ==
    ASSUME TypeOK, TypeOK', SingleLeader, FiringInv,
           NEW w \in Workers, NEW i \in Jobs, Fire(w, i)
    PROVE  FiringInv'
<1> DEFINE t == queue[w][i]
<1>1. /\ thread[w] = "run" /\ t \in 1..now /\ now' = now /\ leader' = leader /\ UNCHANGED term
      /\ queue' = [queue EXCEPT ![w] = [queue[w] EXCEPT ![i] = 0]]
      /\ \A v \in Workers : v # w => thread'[v] = thread[v]
  BY DEF Fire, Due, TypeOK
<1>a. \/ fires' = fires
      \/ Entitled(w) /\ fires' = [fires EXCEPT ![i] = [fires[i] EXCEPT ![t] = fires[i][t] + 1]]
  BY DEF Fire, Count
<1>b. Leads(w) /\ \A v \in Workers : Leads(v)' => Leads(v)  BY <1>1 DEF Leads
<1>c. \A v \in Workers, j \in Jobs : queue'[v][j] \in {0, queue[v][j]}
  <2>1. \A v \in Workers : v # w => queue'[v] = queue[v]  BY <1>1 DEF TypeOK
  <2>2. \A j \in Jobs : queue'[w][j] \in {0, queue[w][j]}  BY <1>1 DEF TypeOK
  <2> QED  BY <2>1, <2>2
<1>d. CASE fires' = fires
  <2>1. now \in Nat  BY DEF TypeOK
  <2>2. Calm  BY <1>1, <1>b, <1>c, <1>d, <2>1, CalmQueue
  <2> QED  BY <2>2, CalmFiring
<1>e. CASE Entitled(w) /\ fires' = [fires EXCEPT ![i] = [fires[i] EXCEPT ![t] = fires[i][t] + 1]]
  <2>1. OnTerm(w)  BY <1>b, <1>e DEF OnTerm
  <2>2. ASSUME NEW v \in Workers, OnTerm(v) PROVE v = w
    <3>1. CASE (\A u \in Workers : u = w) \/ (\A u \in Workers : u = v)  BY <3>1
    <3>2. CASE now <= until[w] /\ now <= until[v]
      BY <2>1, <2>2, <3>2 DEF SingleLeader, Holds, OnTerm, Leads, InCharge, Renews
    <3> QED  BY <2>1, <2>2, <3>1, <3>2 DEF OnTerm, Entitled
  <2>3. t \in 1..MaxTime /\ fires[i][t] = 0
    <3>1. t \in 1..MaxTime
      <4> HIDE DEF t
      <4>1. now \in 1..MaxTime /\ MaxTime \in Nat  BY SchedulerAssumption DEF TypeOK
      <4> QED  BY <1>1, <4>1
    <3> QED  BY <2>1, <3>1 DEF FiringInv, EntryInv
  <2>4. \A j \in Jobs, s \in 1..MaxTime :
           \/ fires'[j][s] = fires[j][s]
           \/ j = i /\ s = t /\ fires'[j][s] = 1
    <3> HIDE DEF t
    <3>1. fires'[i] = [fires[i] EXCEPT ![t] = 1]  BY <1>e, <2>3 DEF TypeOK
    <3>2. \A j \in Jobs : j # i => fires'[j] = fires[j]  BY <1>e DEF TypeOK
    <3>3. \A s \in 1..MaxTime : fires'[i][s] = IF s = t THEN 1 ELSE fires[i][s]
      BY <3>1 DEF TypeOK
    <3> QED  BY <3>2, <3>3
  <2>5. OncePerLease'  BY <2>4 DEF FiringInv, OncePerLease
  <2>6. PastInv'
    <3> HIDE DEF t
    <3>1. t <= now' /\ now' = now  BY <1>1 DEF TypeOK
    <3> QED  BY <2>4, <3>1 DEF FiringInv, PastInv
  <2>7. ASSUME NEW v \in Workers, NEW j \in Jobs, OnTerm(v)', queue'[v][j] \in 1..MaxTime
        PROVE fires'[j][queue'[v][j]] = 0
    <3>1. OnTerm(v)  BY <1>1, <1>b, <2>7 DEF OnTerm, Entitled
    <3>2. v = w  BY <2>2, <3>1
    <3>3. j # i  BY <1>1, <2>7, <3>2 DEF TypeOK
    <3>4. queue'[v][j] = queue[w][j]  BY <1>1, <3>2, <3>3 DEF TypeOK
    <3> QED  BY <2>1, <2>4, <2>7, <3>2, <3>3, <3>4 DEF FiringInv, EntryInv
  <2> QED  BY <2>5, <2>6, <2>7 DEF FiringInv, EntryInv
<1> QED  BY <1>a, <1>d, <1>e

LEMMA NextFiring ==
    ASSUME TypeOK, TypeOK', LeaderInv, FiringInv, [Next]_vars
    PROVE  FiringInv'
<1>1. CASE (\E w \in Workers : ProcessStep(w)) \/ Tick \/ DbDown \/ DbBack \/ UNCHANGED vars
  BY <1>1, OutsideCalm, CalmFiring DEF LeaderInv
<1>2. ASSUME NEW w \in Workers, LoopStep(w) PROVE FiringInv'
  BY <1>2, LoopCalm, CalmFiring, FireFiring, LeaderSingle
<1>3. ASSUME NEW w \in Workers, ApiStep(w) \/ \E j \in Jobs : SlowDone(w, j) \/ SlowLeaves(w, j)
      PROVE FiringInv'
  BY <1>3, OtherCalm, CalmFiring
<1> QED  BY <1>1, <1>2, <1>3 DEF Next

\* "a takeover cannot double-fire the boundary job" (_reschedule_all), for every
\* schedule of takeovers, API calls, crashes and outages, every TTL, period and length
\* of a pass: leaders within their leases start no occurrence twice between them, and
\* a worker alone on its database none at all.
THEOREM FiresOnce == Spec => []OncePerLease
<1>1. Init => LeaderInv /\ FiringInv  BY InitLeader, InitFiring
<1>2. TypeOK /\ TypeOK' /\ LeaderInv /\ FiringInv /\ [Next]_vars => LeaderInv' /\ FiringInv'
  BY NextLeader, NextFiring
<1>3. FiringInv => OncePerLease  BY DEF FiringInv
<1> QED  BY <1>1, <1>2, <1>3, TypeCorrect, PTL DEF Spec
-----------------------------------------------------------------------------
(* A worker that is alone loses no fast job.  Its memory may disagree with   *)
(* the table while a request is half done; what keeps the job is that a key  *)
(* of _queued belongs to a job the memory has as enabled, whenever memory,   *)
(* table or the request under way have it so.                                *)

\* One worker process on the database.
Alone == \A v, w \in Workers : v = w

Wanted(w, j) == mem[w][j] = "on" \/ rows[j] = "on" \/ api[w] = Req("on", j)
Runs(w, j)   == thread[w] = "exec" /\ cur[w] = j

KeyInv(w, j) ==
    /\ rows[j] = "new" => mem[w][j] = "none" /\ j \notin Queued(w)
    /\ j \in Queued(w) /\ Wanted(w, j) => mem[w][j] = "on"
    /\ Running(w) /\ j \in spent[w] /\ Wanted(w, j) => Runs(w, j)

KeysInv == faults = 0 => dbUp /\ \A w \in Workers, j \in Jobs \ Slow : KeyInv(w, j)

LEMMA InitKeys == Init => KeysInv
<1> SUFFICES ASSUME Init, NEW w \in Workers, NEW j \in Jobs \ Slow PROVE dbUp /\ KeyInv(w, j)
  BY DEF KeysInv, Init
<1>1. dbUp /\ mem[w][j] = "none" /\ queue[w][j] = 0 /\ spent[w] = {}  BY DEF Init
<1> QED  BY <1>1 DEF KeyInv, Queued

\* A step that queues, wants and forgets nothing keeps a job's key.
LEMMA KeyKept ==
    ASSUME NEW w \in Workers, NEW j \in Jobs, KeyInv(w, j),
           mem'[w][j] = mem[w][j], rows'[j] = "new" => rows[j] = "new",
           queue'[w][j] # 0 => queue[w][j] # 0, j \in spent'[w] => j \in spent[w],
           Wanted(w, j)' => Wanted(w, j), Runs(w, j) => Runs(w, j)', Running(w)' => Running(w)
    PROVE  KeyInv(w, j)'
BY DEF KeyInv, Queued

\* Scheduling replaces the entry and the key of an enabled job, and of no other.
LEMMA ScheduleIs ==
    ASSUME TypeOK, NEW w \in Workers, NEW m, NEW i \in Jobs, Schedule(w, m, i)
    PROVE  /\ \A j \in Jobs : j # i \/ m[i] # "on" =>
                queue'[w][j] = queue[w][j] /\ (j \in spent'[w] <=> j \in spent[w])
           /\ m[i] = "on" => i \notin spent'[w]
<1>1. CASE m[i] # "on"  BY <1>1 DEF Schedule
<1>2. CASE m[i] = "on"
  <2>1. queue' = [queue EXCEPT ![w] = [queue[w] EXCEPT ![i] = NextRun]]  BY <1>2 DEF Schedule, TypeOK
  <2>2. spent' = [spent EXCEPT ![w] = spent[w] \ {i}]  BY <1>2 DEF Schedule, TypeOK
  <2>3. queue'[w] = [queue[w] EXCEPT ![i] = NextRun] /\ spent'[w] = spent[w] \ {i}
    BY <2>1, <2>2 DEF TypeOK
  <2>4. \A j \in Jobs : j # i => queue'[w][j] = queue[w][j]  BY <2>3 DEF TypeOK
  <2> QED  BY <1>2, <2>3, <2>4
<1> QED  BY <1>1, <1>2

\* The end of a run schedules the job again, or finds it unwanted.
LEMMA FinishKeys ==
    ASSUME TypeOK, NEW w \in Workers, NEW i \in Jobs, Finish(w, i), NEW j \in Jobs, KeyInv(w, j),
           UNCHANGED <<mem, rows, life>>, api'[w] = Req("on", j) => api[w] = Req("on", j),
           j # i /\ Runs(w, j) => Runs(w, j)'
    PROVE  KeyInv(w, j)'
<1>0. Wanted(w, j)' => Wanted(w, j)  BY DEF Wanted
<1>1. CASE Running(w) /\ mem[w][i] = "on"
  <2>1. Schedule(w, mem[w], i)  BY <1>1 DEF Finish
  <2>2. CASE j = i
    <3>1. mem'[w][j] = "on" /\ j \notin spent'[w]  BY <1>1, <2>1, <2>2, ScheduleIs
    <3>2. rows'[j] # "new"  BY <1>1, <2>2 DEF KeyInv
    <3> QED  BY <3>1, <3>2 DEF KeyInv
  <2>3. CASE j # i
    <3>1. queue'[w][j] = queue[w][j] /\ (j \in spent'[w] <=> j \in spent[w])  BY <2>1, <2>3, ScheduleIs
    <3>2. Running(w)' => Running(w)  BY DEF Running
    <3> QED  BY <1>0, <2>3, <3>1, <3>2, KeyKept
  <2> QED  BY <2>2, <2>3
<1>2. CASE ~(Running(w) /\ mem[w][i] = "on")
  <2>1. UNCHANGED <<queue, spent>>  BY <1>2 DEF Finish, Schedule
  <2>2. Queued(w)' = Queued(w) /\ (Running(w)' <=> Running(w))  BY <2>1 DEF Queued, Running
  <2>3. CASE j = i
    <3>1. Running(w)' /\ j \in spent'[w] => ~Wanted(w, j)
      <4>1. Running(w) /\ j \in spent[w] => j \in Queued(w) /\ mem[w][j] # "on"
        BY <1>2, <2>3 DEF Queued
      <4> QED  BY <2>1, <2>2, <4>1 DEF KeyInv
    <3> QED  BY <1>0, <2>2, <3>1 DEF KeyInv
  <2>4. CASE j # i  BY <1>0, <2>1, <2>2, <2>4, KeyKept
  <2> QED  BY <2>3, <2>4
<1> QED  BY <1>1, <1>2

\* A reload makes no job wanted, and disables only jobs nobody wants.
LEMMA LoadedIs ==
    ASSUME TypeOK, NEW w \in Workers, NEW j \in Jobs, KeyInv(w, j)
    PROVE  /\ Loaded(w)[j] = "on" => Wanted(w, j)
           /\ Loaded(w)[j] # "on" => rows[j] # "on"
           /\ Loaded(w)[j] # "on" /\ rows[j] # "off" => mem[w][j] # "on"
           /\ rows[j] = "new" => Loaded(w)[j] = "none"
BY DEF Loaded, KeyInv, Wanted, TypeOK

LEMMA LoopKeys ==
    ASSUME TypeOK, dbUp, NEW w \in Workers, LoopStep(w), faults' = faults,
           NEW j \in Jobs \ Slow, KeyInv(w, j)
    PROVE  KeyInv(w, j)'
<1> USE DEF TypeOK
<1>0. ~ThreadDies(w) /\ ~CutShort  BY DEF ThreadDies, CutShort
<1>1. ASSUME UNCHANGED <<rows, mem, queue, spent, slow, api, life, cur>>, thread[w] # "exec"
      PROVE  KeyInv(w, j)'
  BY <1>1, KeyKept DEF Wanted, Runs, Running
<1>2. CASE AcquireLease(w)  BY <1>1, <1>2 DEF AcquireLease
<1>3. CASE EndPass(w)  BY <1>1, <1>3 DEF EndPass
<1>4. CASE ThreadEnds(w)  BY <1>1, <1>4 DEF ThreadEnds
<1>5. CASE StandDown(w)
  <2>1. queue'[w][j] = 0 /\ spent'[w] = {} /\ UNCHANGED <<rows, mem, slow, api, life, cur, thread>>
    BY <1>5 DEF StandDown
  <2> QED  BY <2>1, KeyKept DEF Wanted, Runs, Running
<1>6. CASE Promote(w)
  <2>1. Reschedule(w) /\ UNCHANGED <<rows, api, life>>  BY <1>0, <1>6 DEF Promote
  <2>2. mem'[w][j] = Loaded(w)[j] /\ spent'[w] = {} /\ (Loaded(w)[j] # "on" => queue'[w][j] = 0)
    BY <2>1 DEF Reschedule
  <2>3. rows[j] = "new" => Loaded(w)[j] = "none"  BY LoadedIs
  <2> QED  BY <2>1, <2>2, <2>3 DEF KeyInv, Queued
<1>7. CASE Converge(w)
  <2>1. /\ thread[w] = "run" /\ UNCHANGED <<rows, api, life, slow>>
        /\ mem' = [mem EXCEPT ![w] = Loaded(w)]
        /\ queue' = [queue EXCEPT ![w] = [k \in Jobs |->
              IF Loaded(w)[k] # "on" THEN 0 ELSE IF k \in Queued(w) THEN queue[w][k] ELSE NextRun]]
        /\ spent' = [spent EXCEPT ![w] = {k \in spent[w] : Loaded(w)[k] = "on"}]
    BY <1>0, <1>7 DEF Converge
  <2>2. /\ mem'[w][j] = Loaded(w)[j] /\ (Loaded(w)[j] # "on" => queue'[w][j] = 0)
        /\ j \in spent'[w] => j \in spent[w] /\ Loaded(w)[j] = "on"
    BY <2>1
  <2>3. rows[j] = "new" => Loaded(w)[j] = "none"  BY LoadedIs
  <2>4. j \in spent'[w] => Wanted(w, j)  BY <2>2, LoadedIs
  <2>5. Runs(w, j) => Runs(w, j)'  BY <2>1 DEF Runs
  <2>6. Running(w)' => Running(w)  BY <2>1 DEF Running
  <2> QED  BY <2>1, <2>2, <2>3, <2>4, <2>5, <2>6 DEF KeyInv, Queued
<1>8. CASE ExecDone(w)
  <2>1. Finish(w, cur[w]) /\ thread[w] = "exec" /\ UNCHANGED <<rows, mem, life, api, slow>>
    BY <1>0, <1>8 DEF ExecDone
  <2>2. CASE cur[w] \in Jobs
    <3>1. j # cur[w] /\ Runs(w, j) => Runs(w, j)'  BY <2>1 DEF Runs
    <3> QED  BY <2>1, <2>2, <3>1, FinishKeys
  <2>3. CASE cur[w] \notin Jobs
    <3>2. /\ queue'[w][j] = queue[w][j] /\ (j \in spent'[w] => j \in spent[w])
      BY <2>1, <2>3 DEF Finish, Schedule
    <3>3. Runs(w, j) => Runs(w, j)'  BY <2>1, <2>3 DEF Runs
    <3> QED  BY <2>1, <3>2, <3>3, KeyKept DEF Wanted, Running
  <2> QED  BY <2>2, <2>3
<1>9. ASSUME NEW i \in Jobs, Fire(w, i) PROVE KeyInv(w, j)'
  <2>1. /\ thread[w] = "run" /\ queue[w][i] # 0 /\ UNCHANGED <<rows, mem, life, api>>
        /\ queue' = [queue EXCEPT ![w] = [queue[w] EXCEPT ![i] = 0]]
        /\ spent' = [spent EXCEPT ![w] = spent[w] \cup {i}]
    BY <1>9 DEF Fire, Due
  <2>2. queue'[w] = [queue[w] EXCEPT ![i] = 0] /\ spent'[w] = spent[w] \cup {i}  BY <2>1
  <2>3. i \notin Slow /\ mem[w][i] = "on" => Runs(w, i)'
    <3>1. i \notin Slow => i \notin slow[w]  OBVIOUS
    <3>2. i \notin Slow /\ mem[w][i] = "on" =>
             thread' = [thread EXCEPT ![w] = "exec"] /\ cur' = [cur EXCEPT ![w] = i]
      BY <1>9, <3>1 DEF Fire
    <3> QED  BY <3>2 DEF Runs
  <2>4. Runs(w, j) => Runs(w, j)'  BY <1>9, <2>1 DEF Fire, Runs
  <2>5. (Wanted(w, j)' <=> Wanted(w, j)) /\ (Running(w)' <=> Running(w))  BY <2>1 DEF Wanted, Running
  <2>6. CASE j = i
    <3>1. j \in Queued(w)  BY <2>1, <2>6 DEF Queued
    <3>2. rows[j] # "new" /\ (Wanted(w, j) => mem[w][j] = "on")  BY <3>1 DEF KeyInv
    <3> QED  BY <2>1, <2>3, <2>5, <2>6, <3>2 DEF KeyInv
  <2>7. CASE j # i
    <3>1. queue'[w][j] = queue[w][j] /\ (j \in spent'[w] => j \in spent[w])  BY <2>2, <2>7
    <3> QED  BY <2>1, <2>4, <2>5, <3>1, KeyKept
  <2> QED  BY <2>6, <2>7
<1> QED  BY <1>2, <1>3, <1>4, <1>5, <1>6, <1>7, <1>8, <1>9 DEF LoopStep

\* The steps of the job API of the only worker.
LEMMA ApiKeys ==
    ASSUME TypeOK, dbUp, NEW w \in Workers, ApiStep(w), faults' = faults,
           NEW j \in Jobs \ Slow, KeyInv(w, j)
    PROVE  KeyInv(w, j)'
<1> USE DEF TypeOK
<1>0. /\ Idle # Req("on", j) /\ \A op \in {"reload", "gone", "off", "exec"}, i \in Jobs : Req(op, i) # Req("on", j)
  BY DEF Idle, Req
<1>1. UNCHANGED <<life, thread, cur>> /\ (Running(w)' <=> Running(w))
  BY DEF ApiStep, Reload, WriteRow, TriggerDone, AddJob, UpdateJob, RemoveJob, DisableJob, EnableJob,
         TriggerJob, Running
<1>2. CASE Reload(w)
  <2>1. /\ api[w].op = "reload" /\ api' = [api EXCEPT ![w] = Idle] /\ UNCHANGED <<rows, slow>>
        /\ mem' = [mem EXCEPT ![w] = Loaded(w)]
        /\ IF Running(w) THEN Schedule(w, Loaded(w), api[w].job) ELSE UNCHANGED <<queue, spent>>
    BY <1>2 DEF Reload
  <2>2. api[w].job \in Jobs /\ api'[w] # Req("on", j)  BY <1>0, <2>1, RequestType
  <2>3. mem'[w][j] = Loaded(w)[j]  BY <2>1
  <2>4. Wanted(w, j)' => Wanted(w, j) /\ Loaded(w)[j] = "on"
    <3>1. Wanted(w, j)' => Loaded(w)[j] = "on"  BY <2>1, <2>2, <2>3, LoadedIs DEF Wanted
    <3> QED  BY <3>1, LoadedIs
  <2>5. rows[j] = "new" => Loaded(w)[j] = "none"  BY LoadedIs
  <2>6. Runs(w, j)' <=> Runs(w, j)  BY <1>1, <2>1 DEF Runs
  <2>7. CASE Loaded(w)[j] = "on"
    <3>1. j \in spent'[w] => j \in spent[w]
      <4>1. CASE ~Running(w)  BY <2>1, <4>1
      <4>2. CASE Running(w) /\ j = api[w].job
        <5>1. Schedule(w, Loaded(w), j)  BY <2>1, <4>2
        <5> QED  BY <2>7, <5>1, ScheduleIs
      <4>3. CASE Running(w) /\ j # api[w].job
        <5>1. Schedule(w, Loaded(w), api[w].job)  BY <2>1, <4>3
        <5> QED  BY <2>2, <4>3, <5>1, ScheduleIs
      <4> QED  BY <4>1, <4>2, <4>3
    <3> QED  BY <1>1, <2>1, <2>3, <2>4, <2>5, <2>6, <2>7, <3>1 DEF KeyInv, Queued
  <2>8. CASE Loaded(w)[j] # "on"
    <3>1. queue'[w][j] = queue[w][j] /\ (j \in spent'[w] <=> j \in spent[w])
      <4>1. j # api[w].job \/ Loaded(w)[api[w].job] # "on"  BY <2>8
      <4> QED  BY <2>1, <2>2, <4>1, ScheduleIs
    <3> QED  BY <2>1, <2>3, <2>4, <2>5, <2>8, <3>1 DEF KeyInv, Queued
  <2> QED  BY <2>7, <2>8
<1>3. CASE WriteRow(w)
  <2>1. /\ api[w].op \in {"on", "off", "gone"} /\ api' = [api EXCEPT ![w] = Idle]
        /\ rows' = [rows EXCEPT ![api[w].job] = IF rows[api[w].job] \in {"on", "off"} THEN api[w].op ELSE rows[api[w].job]]
        /\ UNCHANGED <<mem, queue, spent, slow>>
    BY <1>3 DEF WriteRow
  <2>2. api[w].job \in Jobs /\ api'[w] # Req("on", j)  BY <1>0, <2>1, RequestType
  <2>3. rows'[j] = "new" => rows[j] = "new"  BY <2>1, <2>2
  <2>4. rows'[j] = "on" => rows[j] = "on" \/ (api[w].op = "on" /\ api[w].job = j)  BY <2>1, <2>2
  <2>5. api[w].op = "on" /\ api[w].job = j => api[w] = Req("on", j)
    <3>1. api[w] \in Requests  OBVIOUS
    <3> QED  BY <3>1 DEF Requests, Idle, Req
  <2>6. Wanted(w, j)' => Wanted(w, j)  BY <2>1, <2>2, <2>4, <2>5 DEF Wanted
  <2>7. Runs(w, j) => Runs(w, j)'  BY <1>1, <2>1 DEF Runs
  <2> QED  BY <1>1, <2>1, <2>3, <2>6, <2>7, KeyKept
<1>4. CASE TriggerDone(w)
  <2>1. api[w].op = "exec" /\ api' = [api EXCEPT ![w] = Idle] /\ Finish(w, api[w].job)
        /\ UNCHANGED <<rows, mem, slow>>
    BY <1>4 DEF TriggerDone, CutShort
  <2>2. api[w].job \in Jobs /\ api'[w] # Req("on", j)  BY <1>0, <2>1, RequestType
  <2>3. Runs(w, j) => Runs(w, j)'  BY <1>1, <2>1 DEF Runs
  <2> QED  BY <1>1, <2>1, <2>2, <2>3, FinishKeys
<1>5. ASSUME NEW i \in Jobs, AddJob(w, i) PROVE KeyInv(w, j)'
  <2>1. /\ rows' = [rows EXCEPT ![i] = IF rows[i] = "new" THEN "on" ELSE rows[i]]
        /\ api' = [api EXCEPT ![w] = Req("reload", i)] /\ UNCHANGED <<mem, queue, spent, slow>>
    BY <1>5 DEF AddJob
  <2>2. api'[w] # Req("on", j)  BY <1>0, <2>1
  <2>3. Queued(w)' = Queued(w)  BY <2>1 DEF Queued
  <2>4. CASE rows[j] = "new"
    <3>1. j \notin Queued(w) /\ mem[w][j] = "none" /\ j \notin spent[w]  BY <2>4 DEF KeyInv, Queued
    <3> QED  BY <2>1, <2>3, <3>1 DEF KeyInv
  <2>5. CASE rows[j] # "new"
    <3>1. rows'[j] = rows[j]  BY <2>1, <2>5
    <3> QED  BY <1>1, <2>1, <2>2, <3>1, KeyKept DEF Wanted, Runs
  <2> QED  BY <2>4, <2>5
<1>6. ASSUME NEW i \in Jobs, UpdateJob(w, i) PROVE KeyInv(w, j)'
  <2>1. api' = [api EXCEPT ![w] = Req("reload", i)] /\ UNCHANGED <<rows, mem, queue, spent, slow>>
    BY <1>6 DEF UpdateJob
  <2>2. api'[w] # Req("on", j)  BY <1>0, <2>1
  <2> QED  BY <1>1, <2>1, <2>2, KeyKept DEF Wanted, Runs
<1>7. ASSUME NEW i \in Jobs, RemoveJob(w, i) \/ DisableJob(w, i) PROVE KeyInv(w, j)'
  <2>1. PICK m \in {"none", "off"}, op \in {"gone", "off"} :
           /\ mem' = [mem EXCEPT ![w] = [mem[w] EXCEPT ![i] = m]]
           /\ api' = [api EXCEPT ![w] = Req(op, i)] /\ UNCHANGED <<rows, slow>>
    BY <1>7 DEF RemoveJob, DisableJob, SetMem
  <2>2. /\ queue' = [queue EXCEPT ![w] = [queue[w] EXCEPT ![i] = 0]]
        /\ spent' = [spent EXCEPT ![w] = spent[w] \ {i}] /\ mem[w][i] # "none"
    BY <1>7 DEF RemoveJob, DisableJob, Cancel
  <2>3. /\ mem'[w] = [mem[w] EXCEPT ![i] = m] /\ queue'[w] = [queue[w] EXCEPT ![i] = 0]
        /\ spent'[w] = spent[w] \ {i} /\ api'[w] # Req("on", j)
    BY <1>0, <2>1, <2>2
  <2>4. CASE j = i
    <3>1. j \notin Queued(w)' /\ j \notin spent'[w]  BY <2>3, <2>4 DEF Queued
    <3>2. rows'[j] # "new"  BY <2>1, <2>2, <2>4 DEF KeyInv
    <3> QED  BY <3>1, <3>2 DEF KeyInv
  <2>5. CASE j # i
    <3>1. mem'[w][j] = mem[w][j] /\ queue'[w][j] = queue[w][j] /\ (j \in spent'[w] => j \in spent[w])
      BY <2>3, <2>5
    <3> QED  BY <1>1, <2>1, <2>3, <3>1, KeyKept DEF Wanted, Runs
  <2> QED  BY <2>4, <2>5
<1>8. ASSUME NEW i \in Jobs, EnableJob(w, i) PROVE KeyInv(w, j)'
  <2> DEFINE m == [mem[w] EXCEPT ![i] = "on"]
  <2>1. /\ mem' = [mem EXCEPT ![w] = m] /\ Schedule(w, m, i) /\ mem[w][i] # "none"
        /\ api' = [api EXCEPT ![w] = Req("on", i)] /\ UNCHANGED <<rows, slow>>
    BY <1>8 DEF EnableJob, SetMem
  <2>2. m[i] = "on" /\ mem'[w] = m /\ api'[w] = Req("on", i) /\ (j # i => m[j] = mem[w][j])  BY <2>1
  <2> HIDE DEF m
  <2>a. i \notin spent'[w]  BY <2>1, <2>2, ScheduleIs
  <2>b. j # i => queue'[w][j] = queue[w][j]  BY <2>1, <2>2, ScheduleIs
  <2>c. j # i => (j \in spent'[w] => j \in spent[w])  BY <2>1, <2>2, ScheduleIs
  <2>3. i \notin spent'[w] /\ (j # i => queue'[w][j] = queue[w][j] /\ (j \in spent'[w] => j \in spent[w]))
    BY <2>a, <2>b, <2>c
  <2>4. CASE j = i
    <3>1. rows'[j] # "new" /\ mem'[w][j] = "on"  BY <2>1, <2>2, <2>4 DEF KeyInv
    <3> QED  BY <2>3, <2>4, <3>1 DEF KeyInv
  <2>5. CASE j # i
    <3>1. Req("on", i) # Req("on", j)  BY <2>5 DEF Req
    <3>2. Wanted(w, j)' => Wanted(w, j)  BY <2>1, <2>2, <2>5, <3>1 DEF Wanted
    <3>3. Runs(w, j) => Runs(w, j)'  BY <1>1, <2>1 DEF Runs
    <3>4. mem'[w][j] = mem[w][j]  BY <2>2, <2>5
    <3> QED  BY <1>1, <2>1, <2>3, <2>5, <3>2, <3>3, <3>4, KeyKept
  <2> QED  BY <2>4, <2>5
<1>9. ASSUME NEW i \in Jobs, TriggerJob(w, i) PROVE KeyInv(w, j)'
  <2>1. /\ UNCHANGED <<rows, mem, queue, spent>>
        /\ api' = api \/ api' = [api EXCEPT ![w] = Req("exec", i)]
        /\ slow[w] \subseteq slow'[w]
    BY <1>9 DEF TriggerJob
  <2>2. api'[w] = Req("on", j) => api[w] = Req("on", j)  BY <1>0, <2>1
  <2> QED  BY <1>1, <2>1, <2>2, KeyKept DEF Wanted, Runs
<1> QED  BY <1>2, <1>3, <1>4, <1>5, <1>6, <1>7, <1>8, <1>9 DEF ApiStep

\* A process that starts has no keys, and one that ends leaves none.
LEMMA ProcessKeys ==
    ASSUME TypeOK, dbUp, NEW w \in Workers, ProcessStep(w), NEW j \in Jobs \ Slow, KeyInv(w, j)
    PROVE  KeyInv(w, j)'
<1> USE DEF TypeOK
<1>1. CASE Boot(w)
  <2>1. Reschedule(w) /\ UNCHANGED rows  BY <1>1 DEF Boot
  <2>2. mem'[w][j] = Loaded(w)[j] /\ spent'[w] = {} /\ (Loaded(w)[j] # "on" => queue'[w][j] = 0)
    BY <2>1 DEF Reschedule
  <2>3. rows[j] = "new" => Loaded(w)[j] = "none"  BY LoadedIs
  <2> QED  BY <2>1, <2>2, <2>3 DEF KeyInv, Queued
<1>2. CASE Stop(w) \/ Release(w)
  <2>1. UNCHANGED <<rows, mem, queue, spent, slow, api, thread, cur>> /\ ~Running(w)'
    BY <1>2 DEF Stop, Release, Running
  <2> QED  BY <2>1, KeyKept DEF Wanted, Runs
<1>3. CASE Die(w)
  <2>1. mem'[w][j] = "none" /\ queue'[w][j] = 0 /\ spent'[w] = {}  BY <1>3 DEF Die
  <2> QED  BY <2>1 DEF KeyInv, Queued
<1> QED  BY <1>1, <1>2, <1>3 DEF ProcessStep, Exit, Crash

\* The end of a slow job leaves the fast ones alone.
LEMMA SlowKeys ==
    ASSUME TypeOK, dbUp, NEW w \in Workers, NEW i \in Jobs, SlowDone(w, i) \/ SlowLeaves(w, i),
           faults' = faults, NEW j \in Jobs \ Slow, KeyInv(w, j)
    PROVE  KeyInv(w, j)'
<1>1. UNCHANGED <<rows, mem, life, api, thread, cur>>  BY DEF SlowDone, SlowLeaves
<1>2. (Runs(w, j)' <=> Runs(w, j)) /\ (Running(w)' <=> Running(w)) /\ (Wanted(w, j)' <=> Wanted(w, j))
  BY <1>1 DEF Runs, Running, Wanted
<1>3. CASE SlowDone(w, i)
  <2>1. Finish(w, i)  BY <1>3 DEF SlowDone, CutShort, TypeOK
  <2> QED  BY <1>1, <1>2, <2>1, FinishKeys
<1>4. CASE SlowLeaves(w, i)
  <2>1. UNCHANGED <<queue, spent>>  BY <1>4 DEF SlowLeaves
  <2> QED  BY <1>1, <1>2, <2>1, KeyKept
<1> QED  BY <1>3, <1>4

\* The steps of a worker do not repair the database, and count what goes wrong.
LEMMA FaultsGrow ==
    ASSUME TypeOK, NEW w \in Workers,
           \/ LoopStep(w) \/ ApiStep(w) \/ ProcessStep(w)
           \/ \E j \in Jobs : SlowDone(w, j) \/ SlowLeaves(w, j)
    PROVE  dbUp' = dbUp /\ faults' \in {faults, faults + 1}
<1> USE DEF CutShort
<1>1. CASE LoopStep(w)
  BY <1>1 DEF LoopStep, AcquireLease, StandDown, Promote, ThreadDies, ExecDone, EndPass, Converge,
              ThreadEnds, Fire
<1>2. CASE ApiStep(w)
  BY <1>2 DEF ApiStep, Reload, WriteRow, TriggerDone, AddJob, UpdateJob, RemoveJob, DisableJob,
              EnableJob, TriggerJob
<1>3. CASE ProcessStep(w)  BY <1>3 DEF ProcessStep, Boot, Stop, Release, Exit, Crash, Die
<1>4. CASE \E j \in Jobs : SlowDone(w, j) \/ SlowLeaves(w, j)  BY <1>4 DEF SlowDone, SlowLeaves
<1> QED  BY <1>1, <1>2, <1>3, <1>4

LEMMA NextKeys ==
    ASSUME Alone, TypeOK, KeysInv, [Next]_vars
    PROVE  KeysInv'
<1>1. CASE DbDown
  <2>1. faults' # 0  BY <1>1 DEF DbDown, TypeOK
  <2> QED  BY <2>1 DEF KeysInv
<1>2. CASE DbBack \/ Tick \/ UNCHANGED vars
  <2> SUFFICES ASSUME faults = 0, NEW w \in Workers, NEW j \in Jobs \ Slow PROVE dbUp' /\ KeyInv(w, j)'
    BY <1>2 DEF KeysInv, DbBack, Tick, vars
  <2>1. dbUp /\ KeyInv(w, j)  BY DEF KeysInv
  <2>2. UNCHANGED <<rows, mem, queue, spent, api, life, thread, cur>> /\ (dbUp => dbUp')
    BY <1>2 DEF DbBack, Tick, vars
  <2> QED  BY <2>1, <2>2, KeyKept DEF Wanted, Runs, Running
<1>3. ASSUME NEW w \in Workers,
             \/ LoopStep(w) \/ ApiStep(w) \/ ProcessStep(w)
             \/ \E i \in Jobs : SlowDone(w, i) \/ SlowLeaves(w, i)
      PROVE  KeysInv'
  <2>1. dbUp' = dbUp /\ faults' \in {faults, faults + 1} /\ faults \in Nat
    BY <1>3, FaultsGrow DEF TypeOK
  <2> SUFFICES ASSUME faults = 0, faults' = faults, NEW j \in Jobs \ Slow PROVE KeyInv(w, j)'
    BY <2>1 DEF KeysInv, Alone
  <2>2. dbUp /\ KeyInv(w, j)  BY DEF KeysInv
  <2> QED  BY <1>3, <2>2, LoopKeys, ApiKeys, ProcessKeys, SlowKeys
<1> QED  BY <1>1, <1>2, <1>3 DEF Next

\* While the database answers and jobs raise only what is caught, the only worker on
\* it never loses an enabled job of the kind that runs on the scheduler thread: no
\* order of API calls, reloads, convergence and run ends leaves a key in _queued that
\* nobody will replace.  (With a second worker it can: see the run scheduler_converge.)
THEOREM AloneKeepsFastJobs == Alone => (Spec => []FastJobsKept)
<1> SUFFICES ASSUME Alone PROVE Spec => []FastJobsKept  OBVIOUS
<1>1. TypeOK /\ KeysInv /\ [Next]_vars => KeysInv'  BY NextKeys
<1>2. KeysInv => FastJobsKept  BY DEF KeysInv, KeyInv, FastJobsKept, Tended, Wanted, Runs
<1> QED  BY <1>1, <1>2, InitKeys, TypeCorrect, PTL DEF Spec
-----------------------------------------------------------------------------
(* Nobody is shut out.  What Takeover rests on: a lease never reaches more   *)
(* than the TTL beyond the clock, so a worker whose loop lives can take it   *)
(* over after that; and only a fault ends the loop of a running worker.      *)

\* The loop of w leads, looks at the lease or has died of an exception that left _run.
Placed(w) == InCharge(w) \/ thread[w] = "tick" \/ (thread[w] = "dead" /\ faults > 0)

\* The lease ends within the TTL from now, and the loop of every running worker leads
\* or looks at the lease, unless a fault ended it.
InReach ==
    /\ lease.expires <= now + TTL
    /\ \A w \in Workers : Running(w) => Placed(w)

ReachInv == InReach /\ (faults = 0 => dbUp)

\* A loop that is in its place stays there.
LEMMA LoopPlaced ==
    ASSUME TypeOK, ReachInv, NEW w \in Workers, LoopStep(w), Running(w), Placed(w)
    PROVE  Placed(w)'
<1> USE DEF TypeOK, Placed, InCharge
<1>0. faults \in Nat  OBVIOUS
<1>d. ASSUME ThreadDies(w) PROVE Placed(w)'  BY <1>0, <1>d DEF ThreadDies, ReachInv
<1>1. CASE AcquireLease(w)  BY <1>1 DEF AcquireLease
<1>2. CASE StandDown(w)  BY <1>2 DEF StandDown
<1>3. CASE Promote(w)  BY <1>3, <1>d DEF Promote
<1>4. CASE ExecDone(w)  BY <1>0, <1>4 DEF ExecDone, CutShort, ReachInv
<1>5. CASE EndPass(w)  BY <1>5 DEF EndPass
<1>6. CASE Converge(w)  BY <1>6, <1>d DEF Converge
<1>7. CASE ThreadEnds(w)  BY <1>7 DEF ThreadEnds, Running
<1>8. ASSUME NEW j \in Jobs, Fire(w, j) PROVE Placed(w)'  BY <1>8 DEF Fire
<1> QED  BY <1>1, <1>2, <1>3, <1>4, <1>5, <1>6, <1>7, <1>8 DEF LoopStep

LEMMA NextReach == ASSUME TypeOK, ReachInv, [Next]_vars PROVE ReachInv'
<1>0. now \in Nat /\ now >= 1 /\ TTL \in Nat /\ lease.expires \in Nat /\ faults \in Nat
  BY SchedulerAssumption DEF TypeOK
<1>1. ASSUME faults' = 0 => faults = 0 /\ (dbUp => dbUp'), lease'.expires <= now' + TTL,
             \A w \in Workers : Running(w)' /\ (Running(w) => Placed(w)) => Placed(w)'
      PROVE  ReachInv'
  BY <1>1 DEF ReachInv, InReach, Placed
<1>2. CASE DbDown
  <2>1. faults' = faults + 1 /\ UNCHANGED <<now, lease, life, thread>>  BY <1>2 DEF DbDown
  <2>2. \A w \in Workers : Placed(w) => Placed(w)'  BY <1>0, <2>1 DEF Placed, InCharge
  <2>3. lease'.expires <= now' + TTL  BY <2>1 DEF ReachInv, InReach
  <2>4. faults' # 0  BY <1>0, <2>1
  <2> QED  BY <1>1, <2>1, <2>2, <2>3, <2>4 DEF Running
<1>3. CASE DbBack \/ Tick \/ UNCHANGED vars
  <2>1. /\ UNCHANGED <<lease, faults, life, thread>> /\ (dbUp => dbUp') /\ now' \in {now, now + 1}
    BY <1>3 DEF DbBack, Tick, vars
  <2>2. lease'.expires <= now' + TTL  BY <1>0, <2>1 DEF ReachInv, InReach
  <2> QED  BY <1>1, <2>1, <2>2 DEF Running, Placed, InCharge
<1>4. ASSUME NEW w \in Workers,
             \/ LoopStep(w) \/ ApiStep(w) \/ ProcessStep(w)
             \/ \E j \in Jobs : SlowDone(w, j) \/ SlowLeaves(w, j)
      PROVE  ReachInv'
  <2>1. dbUp' = dbUp /\ faults' \in {faults, faults + 1}  BY <1>4, FaultsGrow
  <2>2. faults' = 0 => faults = 0 /\ (dbUp => dbUp')  BY <1>0, <2>1
  <2>3. CASE LoopStep(w)
    <3>1. UNCHANGED <<now, life>> /\ (lease' = lease \/ lease' = [holder |-> ident[w], expires |-> now + TTL])
      BY <2>3 DEF LoopStep, AcquireLease, StandDown, Promote, ThreadDies, ExecDone, EndPass, Converge,
                  ThreadEnds, Fire
    <3>2. lease'.expires <= now' + TTL  BY <1>0, <3>1 DEF ReachInv, InReach
    <3>3. \A v \in Workers : v # w => thread'[v] = thread[v]
      BY <2>3 DEF LoopStep, AcquireLease, StandDown, Promote, ThreadDies, ExecDone, EndPass, Converge,
                  ThreadEnds, Fire, TypeOK
    <3>4. \A v \in Workers : v # w => (Placed(v) => Placed(v)')  BY <1>0, <2>1, <3>3 DEF Placed, InCharge
    <3>5. Running(w) => Placed(w)'  BY <2>3, LoopPlaced DEF ReachInv, InReach, Placed
    <3> QED  BY <1>1, <2>2, <3>1, <3>2, <3>4, <3>5 DEF Running
  <2>4. CASE ApiStep(w) \/ \E j \in Jobs : SlowDone(w, j) \/ SlowLeaves(w, j)
    <3>1. UNCHANGED <<now, lease, life, thread>>  BY <2>4, OtherTame
    <3>2. \A v \in Workers : Placed(v) => Placed(v)'  BY <1>0, <2>1, <3>1 DEF Placed, InCharge
    <3>3. lease'.expires <= now' + TTL  BY <3>1 DEF ReachInv, InReach
    <3> QED  BY <1>1, <2>2, <3>1, <3>2, <3>3 DEF Running
  <2>5. CASE ProcessStep(w)
    <3>1. UNCHANGED <<now, faults>> /\ (lease' = lease \/ lease' = [holder |-> 0, expires |-> now - 1])
      BY <2>5 DEF ProcessStep, Boot, Stop, Release, Exit, Crash, Die
    <3>2. lease'.expires <= now' + TTL  BY <1>0, <3>1 DEF ReachInv, InReach
    <3>3. \A v \in Workers : Running(v)' => thread'[v] = "tick" \/ (Running(v) /\ thread'[v] = thread[v])
      BY <2>5 DEF ProcessStep, Boot, Stop, Release, Exit, Crash, Die, Running, TypeOK
    <3>4. \A v \in Workers : Running(v)' /\ (Running(v) => Placed(v)) => Placed(v)'
      BY <3>1, <3>3 DEF Placed, InCharge
    <3> QED  BY <1>1, <2>2, <3>2, <3>4
  <2> QED  BY <1>4, <2>3, <2>4, <2>5
<1> QED  BY <1>2, <1>3, <1>4 DEF Next

\* Whatever leaders do, stop or crash, and however long their passes last, no lease
\* outlasts the clock by more than the TTL, and the loop of every running worker is
\* there to take it over unless a fault has ended it (_try_acquire_lease,
\* _release_lease, _run).
THEOREM LeaseWithinReach == Spec => []InReach
<1>1. Init => ReachInv
  <2>1. TTL \in Nat  BY SchedulerAssumption
  <2> QED  BY <2>1 DEF Init, ReachInv, InReach, Running
<1>2. TypeOK /\ ReachInv /\ [Next]_vars => ReachInv'  BY NextReach
<1>3. ReachInv => InReach  BY DEF ReachInv
<1> QED  BY <1>1, <1>2, <1>3, TypeCorrect, PTL DEF Spec
=============================================================================
