--------------------------- MODULE ScanJobsProofs ---------------------------
(***************************************************************************)
(* Proofs about ScanJobs, for any set of requests, any pool and queue size,*)
(* any store backend and any number of boots and outages: admission, honest*)
(* answers, no orphans, rows that move forward and no lost slot; that the  *)
(* daemon uses its store as DurableStore allows; and a pool that is bounded*)
(* and leaves nobody waiting in vain.                                      *)
(***************************************************************************)
EXTENDS ScanJobs, FiniteSetTheorems, SequenceTheorems, TLAPS

-----------------------------------------------------------------------------
(* The store's operators *)

\* A store update keeps the rows well typed.
LEMMA UpdateType ==
    ASSUME rows \in [Jobs -> Status], NEW j \in Jobs, NEW s \in Status
    PROVE  Update(rows, j, s) \in [Jobs -> Status]
BY DEF Update

\* A row of every status the handler and the scan write is well typed.
LEMMA SetRowType ==
    ASSUME TypeOK, NEW j \in Jobs,
           NEW s \in {"queued", "running", "completed", "failed"}, SetRow(j, s)
    PROVE  rows' \in [Jobs -> Status] /\ order' \in Seq(Jobs)
<1>1. s \in Status  BY DEF Status, Active, Terminal
<1> QED  BY <1>1, UpdateType DEF SetRow, TypeOK

\* The cap of a store cuts the creation order to a sequence of jobs.
LEMMA NewestType ==
    ASSUME NEW s \in Seq(Jobs)
    PROVE  Newest(s) \in Seq(Jobs)
<1>1. CASE Len(s) > MaxJobs
  <2>1. Len(s) \in Nat /\ MaxJobs \in Nat  BY StoreAssumption, LenProperties
  <2>2. \A i \in Len(s) - MaxJobs + 1 .. Len(s) : s[i] \in Jobs
    BY <2>1, <1>1, ElementOfSeq
  <2> QED  BY <2>1, <2>2, <1>1, SubSeqProperties DEF Newest
<1>2. CASE ~(Len(s) > MaxJobs)  BY <1>2 DEF Newest
<1> QED  BY <1>1, <1>2

\* add() keeps rows and creation order well typed on every backend.
LEMMA AddType ==
    ASSUME TypeOK, NEW j \in Jobs
    PROVE  /\ Add(rows, order, j).rows \in [Jobs -> Status]
           /\ Add(rows, order, j).order \in Seq(Jobs)
<1>1. Append(order, j) \in Seq(Jobs)  BY DEF TypeOK
<1>2. Newest(Append(order, j)) \in Seq(Jobs)  BY <1>1, NewestType
<1>3. "pending" \in Status /\ "absent" \in Status  BY DEF Status
<1> QED  BY <1>1, <1>2, <1>3 DEF Add, TypeOK

\* The sqlite store's cap keeps them well typed.
LEMMA PruneType ==
    ASSUME TypeOK
    PROVE  /\ Prune(rows, order).rows \in [Jobs -> Status]
           /\ Prune(rows, order).order \in Seq(Jobs)
<1>1. Newest(order) \in Seq(Jobs)  BY NewestType DEF TypeOK
<1>2. "absent" \in Status  BY DEF Status
<1> QED  BY <1>1, <1>2 DEF Prune, TypeOK
-----------------------------------------------------------------------------
(* Type correctness *)

LEMMA InitType == Init => TypeOK
<1>1. Capacity \in Nat  BY PoolAssumption DEF Capacity
<1> QED  BY <1>1 DEF Init, TypeOK, Phases, Status, PCs, Runs, Replies

USE DEF Goto, Answer, RunTo, store, daemon, outside

\* Every step of a handler keeps the state well typed.
LEMMA HandlerType ==
    ASSUME TypeOK, NEW j \in Jobs, Reject(j) \/ AddRow(j) \/ HandlerStep(j)
    PROVE  TypeOK'
<1> USE DEF TypeOK, PCs, Replies, Runs
<1>1. CASE Reject(j)  BY <1>1 DEF Reject
<1>2. CASE AddRow(j)  BY <1>2, AddType DEF AddRow, Insert, Raises, Unavailable
<1>3. CASE StampTenant(j)  BY <1>3 DEF StampTenant, Raises, Unavailable
<1>4. CASE ReadExecutor(j)  BY <1>4 DEF ReadExecutor
<1>5. CASE AcquireSlot(j)  BY <1>5 DEF AcquireSlot, Detached
<1>6. CASE RejectFull(j)  BY <1>6, SetRowType DEF RejectFull, Raises, ToOuter
<1>7. CASE MarkQueued(j)  BY <1>7, SetRowType DEF MarkQueued, Raises, ToOuter
<1>8. CASE Submit(j)
  <2>1. Append(pool, j) \in Seq(Jobs)  OBVIOUS
  <2>2. pool' \in Seq(Jobs) /\ run' \in [Jobs -> Runs] /\ inline' \subseteq Jobs
    BY <1>8, <2>1 DEF Submit
  <2> QED  BY <1>8, <2>2 DEF Submit
<1>9. CASE Reply(j)
  BY <1>9 DEF Reply, ResultCode, ToOuter
<1>10. CASE OuterFail(j)
  BY <1>10, SetRowType DEF OuterFail, OuterAnswer, Raises
<1>11. CASE PruneRows(j)  BY <1>11, PruneType DEF PruneRows, Cut, Raises, Unavailable
<1> QED  BY <1>1, <1>2, <1>3, <1>4, <1>5, <1>6, <1>7, <1>8, <1>9, <1>10, <1>11
         DEF HandlerStep

\* Every step of a scan keeps the state well typed.
LEMMA ScanType ==
    ASSUME TypeOK, NEW j \in Jobs, Scan(j)
    PROVE  TypeOK'
<1> USE DEF TypeOK, Runs
<1>1. CASE StartScan(j)  BY <1>1, HeadTailProperties DEF StartScan
<1>2. CASE MarkRunning(j)  BY <1>2, SetRowType DEF MarkRunning, ScanRaises
<1>3. CASE Execute(j)  BY <1>3 DEF Execute
<1>4. CASE MarkCompleted(j)  BY <1>4, SetRowType DEF MarkCompleted, ScanRaises
<1>5. CASE MarkFailed(j)  BY <1>5, SetRowType DEF MarkFailed, ScanRaises
<1>6. CASE FreeSlot(j)  BY <1>6 DEF FreeSlot, Outcome, ReleaseSlot
<1> QED  BY <1>1, <1>2, <1>3, <1>4, <1>5, <1>6 DEF Scan

\* Every step of the daemon and of the store's outages keeps the state well typed.
LEMMA DaemonType ==
    ASSUME TypeOK, Drain \/ StopStep \/ Crash \/ Boot \/ Outage \/ Recover
    PROVE  TypeOK'
<1> USE DEF TypeOK, Phases
<1>1. CASE Drain  BY <1>1 DEF Drain
<1>2. CASE ShutExecutor  BY <1>2 DEF ShutExecutor, Runs
<1>3. CASE Detach  BY <1>3 DEF Detach
<1>4. CASE Die  BY <1>4 DEF Die, Runs, PCs
<1>5. CASE Boot
  <2>1. Capacity \in Nat  BY PoolAssumption DEF Capacity
  <2>2. "failed" \in Status  BY DEF Status, Terminal
  <2>3. rows' \in [Jobs -> Status]  BY <1>5, <2>2 DEF Boot, Reconcile
  <2> QED  BY <1>5, <2>1, <2>3 DEF Boot
<1>6. CASE Outage
  <2>1. storeUp' \in BOOLEAN  BY <1>6, Zenon DEF Outage
  <2>2. outages' \in Nat  BY <1>6 DEF Outage
  <2> QED  BY <1>6, <2>1, <2>2 DEF Outage
<1>7. CASE Recover  BY <1>7 DEF Recover
<1> QED  BY <1>1, <1>2, <1>3, <1>4, <1>5, <1>6, <1>7 DEF StopStep, Exit, Crash

LEMMA NextType == TypeOK /\ [Next]_vars => TypeOK'
<1> SUFFICES ASSUME TypeOK, [Next]_vars PROVE TypeOK'  OBVIOUS
<1>1. CASE UNCHANGED vars  BY <1>1 DEF TypeOK, vars
<1>2. CASE Next  BY <1>2, HandlerType, ScanType, DaemonType DEF Next
<1> QED  BY <1>1, <1>2

\* Every reachable state of the submit path is well typed: the semaphore's value
\* is never negative, a row never leaves the status alphabet.
THEOREM TypeCorrect == Spec => []TypeOK
BY InitType, NextType, PTL DEF Spec
-----------------------------------------------------------------------------
(* Admission.  NeverOverAdmits alone is not inductive: a scan that releases  *)
(* must be one that holds, and a boot must find nobody holding.              *)

InFlight(j) == run[j] = "queued" \/ run[j] \in RunActive

\* The pool's queue holds each of its jobs once, and only queued ones.
PoolInv ==
    /\ \A i \in 1..Len(pool) : run[pool[i]] = "queued"
    /\ \A i, k \in 1..Len(pool) : pool[i] = pool[k] => i = k

\* The handler of a scan in flight waits for it.
WaitInv == \A j \in Jobs : InFlight(j) => pc[j] = "wait"

\* No thread outlives its process.
DownInv == phase = "down" => \A j \in Jobs : pc[j] \in {"idle", "done", "dead"}

AdmissionInv == TypeOK /\ PoolInv /\ WaitInv /\ DownInv /\ NeverOverAdmits

\* The requests that hold a slot are finitely many.
LEMMA HoldersFinite == IsFiniteSet(Holders) /\ Cardinality(Holders) \in Nat
BY StoreAssumption, FS_Subset, FS_CardinalityType DEF Holders

\* A step that frees no slot and adds no holder keeps the bound.
LEMMA NoNewHolder ==
    ASSUME TypeOK, TypeOK', NeverOverAdmits, Attached' => Attached,
           slots' = slots, Holders' \subseteq Holders
    PROVE  NeverOverAdmits'
<1>1. IsFiniteSet(Holders) /\ Cardinality(Holders) \in Nat  BY HoldersFinite
<1>2. Cardinality(Holders') \in Nat /\ Cardinality(Holders') <= Cardinality(Holders)
  BY <1>1, FS_Subset, FS_CardinalityType
<1>3. Capacity \in Nat  BY PoolAssumption DEF Capacity
<1> QED  BY <1>1, <1>2, <1>3 DEF NeverOverAdmits, TypeOK

\* A step that takes a slot for one holder keeps the bound.
LEMMA TakeSlot ==
    ASSUME TypeOK, NeverOverAdmits, Attached, slots > 0, slots' = slots - 1,
           NEW j, Holders' \subseteq Holders \cup {j}
    PROVE  NeverOverAdmits'
<1>1. IsFiniteSet(Holders) /\ Cardinality(Holders) \in Nat  BY HoldersFinite
<1>2. /\ IsFiniteSet(Holders \cup {j})
      /\ Cardinality(Holders \cup {j}) \in Nat
      /\ Cardinality(Holders \cup {j}) <= Cardinality(Holders) + 1
  BY <1>1, FS_AddElement
<1>3. /\ Cardinality(Holders') \in Nat
      /\ Cardinality(Holders') <= Cardinality(Holders \cup {j})
  BY <1>2, FS_Subset, FS_CardinalityType
<1>4. Capacity \in Nat  BY PoolAssumption DEF Capacity
<1> QED  BY <1>1, <1>2, <1>3, <1>4 DEF NeverOverAdmits, TypeOK

\* A step in which a holder gives its slot back keeps the bound.
LEMMA GiveSlot ==
    ASSUME TypeOK, NeverOverAdmits, Attached, slots' = slots + 1,
           NEW j \in Holders, Holders' \subseteq Holders \ {j}
    PROVE  NeverOverAdmits'
<1>1. IsFiniteSet(Holders) /\ Cardinality(Holders) \in Nat  BY HoldersFinite
<1>2. /\ IsFiniteSet(Holders \ {j})
      /\ Cardinality(Holders \ {j}) = Cardinality(Holders) - 1
  BY <1>1, FS_RemoveElement
<1>3. /\ Cardinality(Holders') \in Nat
      /\ Cardinality(Holders') <= Cardinality(Holders \ {j})
  BY <1>2, FS_Subset, FS_CardinalityType
<1>4. Capacity \in Nat  BY PoolAssumption DEF Capacity
<1> QED  BY <1>1, <1>2, <1>3, <1>4 DEF NeverOverAdmits, TypeOK
-----------------------------------------------------------------------------
USE DEF HoldsSlot, RunActive, InFlight

LEMMA InitAdmission == Init => AdmissionInv
<1> SUFFICES ASSUME Init PROVE AdmissionInv  OBVIOUS
<1>1. TypeOK  BY InitType
<1>2. PoolInv /\ WaitInv /\ DownInv  BY DEF Init, PoolInv, WaitInv, DownInv
<1>3. Holders = {}  BY DEF Init, Holders
<1>4. Capacity \in Nat  BY PoolAssumption DEF Capacity
<1>5. NeverOverAdmits  BY <1>3, <1>4, FS_EmptySet DEF NeverOverAdmits, Init
<1> QED  BY <1>1, <1>2, <1>5 DEF AdmissionInv

\* The steps of a handler.
LEMMA HandlerAdmission ==
    ASSUME AdmissionInv, TypeOK', NEW j \in Jobs,
           Reject(j) \/ AddRow(j) \/ HandlerStep(j)
    PROVE  AdmissionInv'
<1> USE DEF AdmissionInv, TypeOK
<1>1. ASSUME pc[j] \notin {"enqueue", "submit", "wait"}, pc[j] # "slot",
             phase # "down",
             NEW p \in {"done", "outer", "prune", "stamp", "gate", "slot"}, Goto(j, p),
             UNCHANGED <<phase, slots, pool, run>>
      PROVE  AdmissionInv'
  <2>1. PoolInv'  BY <1>1 DEF PoolInv
  <2>2. WaitInv'  BY <1>1 DEF WaitInv
  <2>3. DownInv'  BY <1>1 DEF DownInv
  <2>4. Holders' \subseteq Holders  BY <1>1 DEF Holders
  <2>5. NeverOverAdmits'  BY <1>1, <2>4, NoNewHolder DEF Attached
  <2> QED  BY <2>1, <2>2, <2>3, <2>5
<1>0. pc[j] \notin {"idle", "done", "dead"} => phase # "down"  BY DEF DownInv
<1>2. CASE Reject(j)  BY <1>1, <1>2 DEF Reject
<1>3. CASE AddRow(j)  BY <1>1, <1>3 DEF AddRow, Raises, Unavailable
<1>4. CASE StampTenant(j)  BY <1>0, <1>1, <1>4 DEF StampTenant, Raises, Unavailable
<1>5. CASE RejectFull(j)  BY <1>0, <1>1, <1>5 DEF RejectFull, Raises, ToOuter
<1>6. CASE OuterFail(j)
  BY <1>0, <1>1, <1>6 DEF OuterFail, OuterAnswer, Raises
<1>12. CASE PruneRows(j)  BY <1>0, <1>1, <1>12 DEF PruneRows, Raises, Unavailable
<1>7. CASE ReadExecutor(j)
  <2>1. CASE Attached
    BY <1>0, <1>1, <1>7, <2>1 DEF ReadExecutor
  <2>2. CASE ~Attached
    <3>1. PoolInv'  BY <1>7, <2>2 DEF ReadExecutor, PoolInv, WaitInv
    <3>2. WaitInv'  BY <1>7, <2>2 DEF ReadExecutor, WaitInv
    <3>3. DownInv'  BY <1>7, <2>2 DEF ReadExecutor, DownInv
    <3>4. NeverOverAdmits'
      BY <1>7, <2>2 DEF ReadExecutor, NeverOverAdmits, Attached
    <3> QED  BY <3>1, <3>2, <3>3, <3>4
  <2> QED  BY <2>1, <2>2
<1>8. CASE AcquireSlot(j)
  <2>1. PoolInv'  BY <1>8 DEF AcquireSlot, PoolInv
  <2>2. WaitInv'  BY <1>8 DEF AcquireSlot, Detached, WaitInv
  <2>3. DownInv'  BY <1>8 DEF AcquireSlot, Detached, DownInv
  <2>4. CASE Attached /\ slots > 0
    <3>1. Holders' \subseteq Holders \cup {j}  BY <1>8 DEF AcquireSlot, Detached, Holders
    <3>2. slots' = slots - 1  BY <1>8, <2>4 DEF AcquireSlot, Detached
    <3> QED  BY <2>1, <2>2, <2>3, <2>4, <3>1, <3>2, TakeSlot
  <2>5. CASE Attached /\ slots = 0
    <3>1. Holders' \subseteq Holders  BY <1>8, <2>5 DEF AcquireSlot, Detached, Holders
    <3>2. slots' = slots /\ (Attached' => Attached)
      BY <1>8, <2>5 DEF AcquireSlot, Detached
    <3> QED  BY <2>1, <2>2, <2>3, <3>1, <3>2, NoNewHolder
  <2>6. CASE ~Attached
    <3>1. ~Attached'  BY <1>8, <2>6 DEF AcquireSlot, Attached
    <3> QED  BY <2>1, <2>2, <2>3, <3>1 DEF NeverOverAdmits
  <2> QED  BY <1>8, <2>4, <2>5, <2>6 DEF AcquireSlot, Detached
<1>9. CASE MarkQueued(j)
  <2>1. PoolInv'  BY <1>9 DEF MarkQueued, PoolInv
  <2>2. WaitInv'  BY <1>9 DEF MarkQueued, WaitInv, Raises, ToOuter
  <2>3. DownInv'  BY <1>9 DEF MarkQueued, DownInv
  <2>4. Holders' \subseteq Holders
    BY <1>9 DEF MarkQueued, Holders, Raises, ToOuter
  <2>5. slots' = slots /\ (Attached' => Attached)
    BY <1>9 DEF MarkQueued, Attached
  <2> QED  BY <2>1, <2>2, <2>3, <2>4, <2>5, NoNewHolder
<1>10. CASE Submit(j)
  <2>1. \A i \in 1..Len(pool) : pool[i] # j
    BY <1>10 DEF Submit, PoolInv, WaitInv
  <2>2. PoolInv'
    <3>1. CASE phase \in {"up", "draining"}
      <4>1. /\ Len(pool') = Len(pool) + 1
            /\ \A i \in 1..Len(pool) : pool'[i] = pool[i]
            /\ pool'[Len(pool) + 1] = j
        <5>1. pool \in Seq(Jobs) /\ pool' = Append(pool, j)
          BY <1>10, <3>1 DEF Submit
        <5> QED  BY <5>1, AppendProperties
      <4>2. run' = [run EXCEPT ![j] = "queued"]  BY <1>10, <3>1 DEF Submit
      <4>3. Len(pool) \in Nat /\ \A i \in 1..Len(pool) : pool[i] \in Jobs
        <5>1. pool \in Seq(Jobs)  OBVIOUS
        <5> QED  BY <5>1, ElementOfSeq, LenProperties
      <4>4. \A i \in 1..Len(pool') : run'[pool'[i]] = "queued"
        <5> TAKE i \in 1..Len(pool')
        <5>1. CASE i \in 1..Len(pool)
          <6>1. pool[i] \in Jobs /\ pool[i] # j /\ run[pool[i]] = "queued"
            BY <4>3, <2>1, <5>1 DEF PoolInv
          <6>2. pool'[i] = pool[i]  BY <4>1, <5>1
          <6> QED  BY <4>2, <6>1, <6>2
        <5>2. CASE i = Len(pool) + 1  BY <4>1, <4>2, <5>2
        <5> QED  BY <4>1, <4>3, <5>1, <5>2
      <4>5. \A i, k \in 1..Len(pool') : pool'[i] = pool'[k] => i = k
        <5>1. \A i \in 1..Len(pool') : i \in 1..Len(pool) \/ i = Len(pool) + 1
          BY <4>1, <4>3
        <5>2. \A i, k \in 1..Len(pool) : pool[i] = pool[k] => i = k  BY DEF PoolInv
        <5> QED  BY <4>1, <2>1, <5>1, <5>2
      <4> QED  BY <4>4, <4>5 DEF PoolInv
    <3>2. CASE phase \in {"shut", "closed"}
      BY <1>10, <2>1, <3>2 DEF Submit, PoolInv
    <3> QED  BY <1>10, <3>1, <3>2 DEF Submit
  <2>3. WaitInv'  BY <1>10 DEF Submit, WaitInv
  <2>4. DownInv'  BY <1>10 DEF Submit, DownInv
  <2>5. Holders' \subseteq Holders  BY <1>10 DEF Submit, Holders
  <2>6. slots' = slots /\ (Attached' => Attached)
    BY <1>10 DEF Submit, Attached
  <2> QED  BY <2>2, <2>3, <2>4, <2>5, <2>6, NoNewHolder
<1>11. CASE Reply(j)
  <2>1. run[j] \in {"ok", "err", "broken", "cancelled"}  BY <1>11 DEF Reply, ResultCode
  <2>2. PoolInv'  BY <1>11 DEF Reply, PoolInv
  <2>3. WaitInv'  BY <1>11, <2>1 DEF Reply, WaitInv, ToOuter
  <2>4. DownInv'  BY <1>11 DEF Reply, DownInv
  <2>5. Holders' \subseteq Holders
    BY <1>11, <2>1 DEF Reply, Holders, ToOuter
  <2>6. slots' = slots /\ (Attached' => Attached)
    BY <1>11 DEF Reply, Attached
  <2> QED  BY <2>2, <2>3, <2>4, <2>5, <2>6, NoNewHolder
<1> QED  BY <1>2, <1>3, <1>4, <1>5, <1>6, <1>7, <1>8, <1>9, <1>10, <1>11, <1>12
         DEF HandlerStep

\* The steps of a scan: the one that ends it gives its slot back.
LEMMA ScanAdmission ==
    ASSUME AdmissionInv, TypeOK', NEW j \in Jobs, Scan(j)
    PROVE  AdmissionInv'
<1> USE DEF AdmissionInv, TypeOK
<1>1. ASSUME run[j] \in RunActive,
             NEW s \in RunActive, RunTo(j, s), UNCHANGED <<phase, slots, pool, pc>>
      PROVE  AdmissionInv'
  <2>1. PoolInv'  BY <1>1 DEF PoolInv
  <2>2. WaitInv'  BY <1>1 DEF WaitInv
  <2>3. DownInv'  BY <1>1 DEF DownInv
  <2>4. Holders' \subseteq Holders  BY <1>1 DEF Holders
  <2>5. NeverOverAdmits'  BY <1>1, <2>4, NoNewHolder DEF Attached
  <2> QED  BY <2>1, <2>2, <2>3, <2>5
<1>2. ASSUME run[j] \in RunActive, NEW s \in {"ok", "err", "broken"}, RunTo(j, s),
             Attached => slots' = slots + 1, UNCHANGED <<phase, pool, pc>>
      PROVE  AdmissionInv'
  <2>1. PoolInv'  BY <1>2 DEF PoolInv
  <2>2. WaitInv'  BY <1>2 DEF WaitInv
  <2>3. DownInv'  BY <1>2 DEF DownInv
  <2>4. j \in Holders /\ Holders' \subseteq Holders \ {j}
    BY <1>2 DEF Holders, WaitInv
  <2>5. CASE Attached
    BY <1>2, <2>1, <2>2, <2>3, <2>4, <2>5, GiveSlot
  <2>6. CASE ~Attached
    BY <1>2, <2>1, <2>2, <2>3, <2>6 DEF Attached, NeverOverAdmits
  <2> QED  BY <2>5, <2>6
<1>3. CASE StartScan(j)
  <2>1. pool \in Seq(Jobs) /\ pool # <<>> /\ j = pool[1] /\ Len(pool) \in Nat \ {0}
    BY <1>3, EmptySeq DEF StartScan
  <2>2. pool' = Tail(pool) /\ run' = [run EXCEPT ![j] = "starting"]
    BY <1>3 DEF StartScan
  <2>3. /\ Len(pool') = Len(pool) - 1
        /\ \A i \in 1..Len(pool') : pool'[i] = pool[i + 1]
    BY <2>1, <2>2, HeadTailProperties
  <2>4. run[j] = "queued"  BY <2>1 DEF PoolInv
  <2>5. PoolInv'
    <3>1. \A i \in 1..Len(pool') : i + 1 \in 1..Len(pool) /\ pool[i + 1] # j
      BY <2>1, <2>3 DEF PoolInv
    <3>2. \A i \in 1..Len(pool') : run'[pool'[i]] = "queued"
      BY <2>2, <2>3, <3>1 DEF PoolInv
    <3>3. \A i, k \in 1..Len(pool') : pool'[i] = pool'[k] => i = k
      <4> TAKE i, k \in 1..Len(pool')
      <4>1. i \in Int /\ k \in Int  OBVIOUS
      <4>2. pool[i + 1] = pool[k + 1] => i + 1 = k + 1  BY <3>1 DEF PoolInv
      <4> QED  BY <2>3, <4>1, <4>2
    <3> QED  BY <3>2, <3>3 DEF PoolInv
  <2>6. WaitInv'  BY <1>3, <2>2, <2>4 DEF StartScan, WaitInv
  <2>7. DownInv'  BY <1>3 DEF StartScan, DownInv
  <2>8. Holders' \subseteq Holders  BY <1>3, <2>2, <2>4 DEF StartScan, Holders
  <2>9. slots' = slots /\ (Attached' => Attached)
    BY <1>3 DEF StartScan, Attached
  <2> QED  BY <2>5, <2>6, <2>7, <2>8, <2>9, NoNewHolder
<1>4. CASE MarkRunning(j)  BY <1>1, <1>4 DEF MarkRunning
<1>5. CASE Execute(j)  BY <1>1, <1>5 DEF Execute
<1>6. CASE MarkCompleted(j)  BY <1>1, <1>2, <1>6 DEF MarkCompleted
<1>7. CASE MarkFailed(j)  BY <1>1, <1>2, <1>7 DEF MarkFailed
<1>8. CASE FreeSlot(j)  BY <1>2, <1>8 DEF FreeSlot, Outcome, ReleaseSlot
<1> QED  BY <1>3, <1>4, <1>5, <1>6, <1>7, <1>8 DEF Scan

\* The steps of the daemon: a process that ends takes its threads with it, so a
\* boot's fresh semaphore meets no holder.
LEMMA DaemonAdmission ==
    ASSUME AdmissionInv, TypeOK',
           Drain \/ StopStep \/ Crash \/ Boot \/ Outage \/ Recover
    PROVE  AdmissionInv'
<1> USE DEF AdmissionInv, TypeOK
<1>1. ASSUME UNCHANGED <<pc, run, pool, slots>>, phase' # "down" \/ phase = "down",
             Attached' => Attached
      PROVE  AdmissionInv'
  <2>1. PoolInv' /\ WaitInv'  BY <1>1 DEF PoolInv, WaitInv
  <2>2. DownInv'  BY <1>1 DEF DownInv
  <2>3. Holders' \subseteq Holders  BY <1>1 DEF Holders
  <2> QED  BY <1>1, <2>1, <2>2, <2>3, NoNewHolder
<1>2. CASE Drain  BY <1>1, <1>2 DEF Drain, Attached
<1>3. CASE Detach  BY <1>1, <1>3 DEF Detach, Attached
<1>4. CASE Outage  BY <1>1, <1>4 DEF Outage, Attached
<1>5. CASE Recover  BY <1>1, <1>5 DEF Recover, Attached
<1>6. CASE ShutExecutor
  <2>1. PoolInv'  BY <1>6, EmptySeq DEF ShutExecutor, PoolInv
  <2>2. WaitInv'  BY <1>6 DEF ShutExecutor, WaitInv
  <2>3. DownInv'  BY <1>6 DEF ShutExecutor, DownInv
  <2>4. Holders' \subseteq Holders  BY <1>6 DEF ShutExecutor, Holders
  <2>5. slots' = slots /\ (Attached' => Attached)
    BY <1>6 DEF ShutExecutor, Attached
  <2> QED  BY <2>1, <2>2, <2>3, <2>4, <2>5, NoNewHolder
<1>7. CASE Die
  <2>1. PoolInv'  BY <1>7, EmptySeq DEF Die, PoolInv
  <2>2. WaitInv'  BY <1>7 DEF Die, WaitInv
  <2>3. DownInv'  BY <1>7 DEF Die, DownInv
  <2>4. NeverOverAdmits'  BY <1>7 DEF Die, NeverOverAdmits, Attached
  <2> QED  BY <2>1, <2>2, <2>3, <2>4
<1>8. CASE Boot
  <2>1. UNCHANGED <<pc, run, pool>> /\ slots' = Capacity /\ phase' = "up"
    BY <1>8 DEF Boot
  <2>2. PoolInv' /\ WaitInv'  BY <2>1 DEF PoolInv, WaitInv
  <2>3. DownInv'  BY <2>1 DEF DownInv
  <2>4. Holders' = {}  BY <1>8, <2>1 DEF Boot, Holders, DownInv, WaitInv
  <2>5. Capacity \in Nat  BY PoolAssumption DEF Capacity
  <2>6. NeverOverAdmits'
    BY <2>1, <2>4, <2>5, FS_EmptySet DEF NeverOverAdmits
  <2> QED  BY <2>2, <2>3, <2>6
<1> QED  BY <1>2, <1>3, <1>4, <1>5, <1>6, <1>7, <1>8 DEF StopStep, Exit, Crash

LEMMA NextAdmission == AdmissionInv /\ [Next]_vars => AdmissionInv'
<1> SUFFICES ASSUME AdmissionInv, [Next]_vars PROVE AdmissionInv'  OBVIOUS
<1>1. TypeOK'  BY NextType DEF AdmissionInv
<1>2. CASE UNCHANGED vars
  <2>1. Holders' = Holders  BY <1>2 DEF vars, Holders
  <2> QED  BY <1>1, <1>2, <2>1
           DEF AdmissionInv, vars, PoolInv, WaitInv, DownInv, NeverOverAdmits, Attached
<1>3. CASE Next
  BY <1>1, <1>3, HandlerAdmission, ScanAdmission, DaemonAdmission DEF Next
<1> QED  BY <1>2, <1>3

\* Over every interleaving of requests, scans, stop, crash, boot and outage, the
\* free slots and the requests holding one never exceed workers + queue.
THEOREM Admission == Spec => []NeverOverAdmits
<1>1. Spec => []AdmissionInv  BY InitAdmission, NextAdmission, PTL DEF Spec
<1>2. AdmissionInv => NeverOverAdmits  BY DEF AdmissionInv
<1> QED  BY <1>1, <1>2, PTL
-----------------------------------------------------------------------------
(* What a row says, by where its handler and its scan are.  The replies and  *)
(* the orphans depend on it: an answer is given from the row the scan left,  *)
(* and nobody writes the row after the answer.                               *)

BeforeQueued == {"prune", "stamp", "gate", "slot", "full", "enqueue"}

\* A handler that has no answer yet, and the scan it has or has not started.
ThreadInv(j) ==
    /\ pc[j] # "done" => reply[j] = "none"
    /\ pc[j] \in {"idle", "submit"} \cup BeforeQueued => run[j] = "none"
    /\ pc[j] = "wait" => run[j] # "none"
    /\ pc[j] = "wait" /\ run[j] = "cancelled" => phase \notin {"up", "draining"}

RowInv(j) ==
    /\ pc[j] = "idle" => rows[j] = "absent"
    /\ pc[j] \in BeforeQueued => rows[j] \in {"pending", "absent"}
    /\ pc[j] = "submit" \/ run[j] = "queued" => rows[j] \in {"queued", "absent"}
    /\ run[j] = "starting" => rows[j] \in {"pending", "queued", "absent"}
    /\ run[j] \in {"executing", "saving"} => rows[j] \in {"running", "absent"}
    /\ run[j] = "failing" => \/ rows[j] \in {"pending", "queued", "running", "absent"}
                             \/ outages # 0 /\ rows[j] = "completed"
    /\ run[j] = "freeing" => rows[j] \in {"completed", "absent"}
    /\ run[j] = "freeErr" /\ outages = 0 => rows[j] \in {"failed", "absent"}
    /\ pc[j] = "wait" =>
         /\ run[j] = "ok" => rows[j] \in {"completed", "absent"}
         /\ run[j] = "err" /\ outages = 0 => rows[j] \in {"failed", "absent"}
         /\ run[j] = "broken" /\ outages = 0 => rows[j] \in {"completed", "failed", "absent"}
         /\ run[j] = "cancelled" => rows[j] \in {"queued", "absent"}

HonestInv(j) ==
    /\ reply[j] = "201" => rows[j] \in {"completed", "absent"}
    /\ reply[j] = "429" => rows[j] \in {"failed", "absent"}
    /\ outages = 0 /\ reply[j] = "500" => rows[j] \in {"failed", "absent"}
    /\ outages = 0 /\ reply[j] = "503" => rows[j] \in {"queued", "failed", "absent"}

\* Redis reconciles what its index still lists, the other stores every row.
OrphanInv(j) ==
    Backend # "redis" /\ outages = 0 /\ phase \in {"up", "draining"} /\ rows[j] \in Active => Live(j)

JobInv(j) == ThreadInv(j) /\ RowInv(j) /\ HonestInv(j) /\ OrphanInv(j)

StoreInv == outages = 0 => storeUp

StoryInv == AdmissionInv /\ StoreInv /\ \A j \in Jobs : JobInv(j)

\* update() writes the row if there is one, and no other.
LEMMA SetRowIs ==
    ASSUME TypeOK, NEW j \in Jobs, NEW s \in Status, SetRow(j, s)
    PROVE  /\ rows'[j] = IF rows[j] = "absent" THEN "absent" ELSE s
           /\ \A k \in Jobs : k # j => rows'[k] = rows[k]
BY DEF SetRow, Update, TypeOK

\* The sqlite store's cap may evict any row, and writes none.
LEMMA PruneIs ==
    ASSUME rows' = Prune(rows, order).rows
    PROVE  \A k \in Jobs : rows'[k] \in {rows[k], "absent"}
BY DEF Prune

\* add() writes a pending row; the cap may evict any.
LEMMA AddIs ==
    ASSUME TypeOK, NEW j \in Jobs, rows' = Add(rows, order, j).rows
    PROVE  /\ rows'[j] \in {"pending", "absent"}
           /\ \A k \in Jobs : k # j => rows'[k] \in {rows[k], "absent"}
BY DEF Add, TypeOK

USE DEF BeforeQueued

\* A step of one request touches another's row only by evicting it.
LEMMA OneJob ==
    ASSUME TypeOK, \A k \in Jobs : JobInv(k), NEW j \in Jobs, phase' = phase, outages' = outages,
           \A k \in Jobs : k # j => /\ pc'[k] = pc[k] /\ run'[k] = run[k] /\ reply'[k] = reply[k]
                                    /\ rows'[k] \in {rows[k], "absent"},
           JobInv(j)'
    PROVE  \A k \in Jobs : JobInv(k)'
<1> SUFFICES ASSUME NEW k \in Jobs, k # j PROVE JobInv(k)'  OBVIOUS
<1>0. JobInv(k) /\ pc'[k] = pc[k] /\ run'[k] = run[k] /\ reply'[k] = reply[k]
  OBVIOUS
<1>1. CASE rows'[k] = rows[k]
  BY <1>0, <1>1 DEF JobInv, ThreadInv, RowInv, HonestInv, OrphanInv, Live
<1>2. CASE rows'[k] = "absent"
  <2>1. ThreadInv(k)'  BY <1>0 DEF JobInv, ThreadInv
  <2>2. RowInv(k)' /\ HonestInv(k)' /\ OrphanInv(k)'
    BY <1>2 DEF RowInv, HonestInv, OrphanInv, Active
  <2> QED  BY <2>1, <2>2 DEF JobInv
<1> QED  BY <1>1, <1>2

LEMMA InitStory == Init => StoryInv
<1> SUFFICES ASSUME Init PROVE StoryInv  OBVIOUS
<1>1. AdmissionInv  BY InitAdmission
<1>2. StoreInv  BY DEF Init, StoreInv
<1>3. \A j \in Jobs : JobInv(j)
  BY DEF Init, JobInv, ThreadInv, RowInv, HonestInv, OrphanInv, Active
<1> QED  BY <1>1, <1>2, <1>3 DEF StoryInv

LEMMA HandlerStory ==
    ASSUME StoryInv, NEW j \in Jobs, Reject(j) \/ AddRow(j) \/ HandlerStep(j)
    PROVE  \A k \in Jobs : JobInv(k)'
<1> USE DEF StoryInv, AdmissionInv
<1>0. /\ JobInv(j) /\ TypeOK /\ WaitInv /\ StoreInv
      /\ "failed" \in Status /\ "queued" \in Status
  BY DEF Status, Active, Terminal
<1>1. phase' = phase /\ outages' = outages
  BY DEF Reject, AddRow, HandlerStep, PruneRows, StampTenant, ReadExecutor, AcquireSlot, RejectFull, MarkQueued,
         Submit, Reply, OuterFail
<1>2. \A k \in Jobs : k # j => /\ pc'[k] = pc[k] /\ run'[k] = run[k] /\ reply'[k] = reply[k]
                               /\ rows'[k] \in {rows[k], "absent"}
  <2>1. \A k \in Jobs : k # j => pc'[k] = pc[k] /\ reply'[k] = reply[k]
    BY DEF TypeOK, Reject, AddRow, HandlerStep, PruneRows, StampTenant, ReadExecutor, AcquireSlot, RejectFull,
           MarkQueued, Submit, Reply, OuterFail, Detached, Raises, Unavailable, ToOuter, OuterAnswer
  <2>2. \A k \in Jobs : k # j => run'[k] = run[k]
    BY DEF TypeOK, Reject, AddRow, HandlerStep, PruneRows, StampTenant, ReadExecutor, AcquireSlot, RejectFull,
           MarkQueued, Submit, Reply, OuterFail
  <2>3. \/ UNCHANGED rows \/ SetRow(j, "failed") \/ SetRow(j, "queued")
        \/ rows' = Add(rows, order, j).rows \/ rows' = Prune(rows, order).rows
    BY DEF Reject, AddRow, HandlerStep, PruneRows, StampTenant, ReadExecutor, AcquireSlot, RejectFull,
           MarkQueued, Submit, Reply, OuterFail, Raises, Insert, Cut
  <2>4. \A k \in Jobs : k # j => rows'[k] \in {rows[k], "absent"}
    BY <1>0, <2>3, SetRowIs, AddIs, PruneIs
  <2> QED  BY <2>1, <2>2, <2>4
<1>3. JobInv(j)'
  <2> USE DEF JobInv, ThreadInv, RowInv, HonestInv, OrphanInv, Live, TypeOK, Active, WaitInv, StoreInv
  <2>1. CASE Reject(j)  BY <1>0, <1>1, <2>1 DEF Reject
  <2>2. CASE AddRow(j)
    <3>1. CASE Insert(j) /\ pc'[j] \in {"prune", "stamp"} /\ UNCHANGED reply
      <4>1. rows'[j] \in {"pending", "absent"}  BY <1>0, <3>1, AddIs DEF Insert
      <4> QED  BY <1>0, <1>1, <2>2, <3>1, <4>1 DEF AddRow
    <3>2. CASE Raises(j, Unavailable(j), Insert(j))
      <4>1. rows'[j] \in {rows[j], "pending", "absent"}  BY <1>0, <3>2, AddIs DEF Insert, Raises
      <4> QED  BY <1>0, <1>1, <2>2, <3>2, <4>1 DEF AddRow, Raises, Unavailable, StoreOk
    <3> QED  BY <2>2, <3>1, <3>2 DEF AddRow
  <2>11. CASE PruneRows(j)
    <3>1. CASE Cut /\ Goto(j, "stamp") /\ UNCHANGED reply
      <4>1. rows'[j] \in {rows[j], "absent"}  BY <1>0, <3>1, PruneIs DEF Cut
      <4> QED  BY <1>0, <1>1, <2>11, <3>1, <4>1 DEF PruneRows
    <3>2. CASE Raises(j, Unavailable(j), Cut)
      <4>1. rows'[j] \in {rows[j], "absent"}  BY <1>0, <3>2, PruneIs DEF Cut, Raises
      <4> QED  BY <1>0, <1>1, <2>11, <3>2, <4>1 DEF PruneRows, Raises, Unavailable, StoreOk
    <3> QED  BY <2>11, <3>1, <3>2 DEF PruneRows
  <2>3. CASE StampTenant(j)  BY <1>0, <1>1, <2>3 DEF StampTenant, Raises, Unavailable, StoreOk
  <2>4. CASE ReadExecutor(j)  BY <1>0, <1>1, <2>4 DEF ReadExecutor
  <2>5. CASE AcquireSlot(j)  BY <1>0, <1>1, <2>5 DEF AcquireSlot, Detached
  <2>6. CASE RejectFull(j)
    <3>1. CASE SetRow(j, "failed")
      <4>1. rows'[j] \in {"failed", "absent"}  BY <1>0, <3>1, SetRowIs
      <4> QED  BY <1>0, <1>1, <2>6, <3>1, <4>1 DEF RejectFull, ToOuter, Raises, StoreOk
    <3>2. CASE UNCHANGED rows /\ Raises(j, ToOuter(j), UNCHANGED store)
      BY <1>0, <1>1, <2>6, <3>2 DEF RejectFull, ToOuter, Raises, StoreOk
    <3> QED  BY <2>6, <3>1, <3>2 DEF RejectFull, Raises
  <2>7. CASE MarkQueued(j)
    <3>1. CASE SetRow(j, "queued") /\ Goto(j, "submit") /\ UNCHANGED reply
      <4>1. rows'[j] \in {"queued", "absent"}  BY <1>0, <3>1, SetRowIs
      <4> QED  BY <1>0, <1>1, <2>7, <3>1, <4>1 DEF MarkQueued
    <3>2. CASE Raises(j, ToOuter(j), SetRow(j, "queued"))
      <4>1. rows'[j] \in {rows[j], "queued", "absent"}  BY <1>0, <3>2, SetRowIs DEF Raises
      <4> QED  BY <1>0, <1>1, <2>7, <3>2, <4>1 DEF MarkQueued, ToOuter, Raises, StoreOk
    <3> QED  BY <2>7, <3>1, <3>2 DEF MarkQueued
  <2>8. CASE Submit(j)  BY <1>0, <1>1, <2>8 DEF Submit
  <2>9. CASE Reply(j)
    <3>1. /\ UNCHANGED <<rows, run>> /\ pc[j] = "wait" /\ pc'[j] \in {"done", "outer"}
          /\ ~InFlight(j) /\ run[j] # "none"
          /\ pc'[j] = "outer" => reply'[j] = reply[j]
          /\ \/ reply'[j] \in {reply[j], "lost"}
             \/ run[j] = "ok" /\ reply'[j] = "201"
             \/ run[j] = "err" /\ reply'[j] = "500"
             \/ run[j] = "cancelled" /\ reply'[j] = "503"
      BY <1>0, <2>9 DEF Reply, ResultCode, ToOuter
    <3>2. ThreadInv(j)'  BY <1>0, <1>1, <3>1
    <3>3. RowInv(j)'  BY <1>0, <1>1, <3>1
    <3>4. HonestInv(j)'  BY <1>0, <1>1, <3>1
    <3>5. OrphanInv(j)'
      <4>1. run[j] \in {"ok", "err", "broken", "cancelled"}  BY <1>0, <3>1 DEF Runs
      <4> QED  BY <1>0, <1>1, <3>1, <4>1
    <3> QED  BY <3>2, <3>3, <3>4, <3>5
  <2>10. CASE OuterFail(j)
    <3>1. CASE SetRow(j, "failed") /\ OuterAnswer(j)
      <4>1. rows'[j] \in {"failed", "absent"}  BY <1>0, <3>1, SetRowIs
      <4> QED  BY <1>0, <1>1, <2>10, <3>1, <4>1 DEF OuterFail, OuterAnswer
    <3>2. CASE Raises(j, OuterAnswer(j), SetRow(j, "failed"))
      <4>1. rows'[j] \in {rows[j], "failed", "absent"}  BY <1>0, <3>2, SetRowIs DEF Raises
      <4> QED  BY <1>0, <1>1, <2>10, <3>2, <4>1 DEF OuterFail, OuterAnswer, Raises, StoreOk
    <3> QED  BY <2>10, <3>1, <3>2 DEF OuterFail
  <2> QED  BY <2>1, <2>2, <2>3, <2>4, <2>5, <2>6, <2>7, <2>8, <2>9, <2>10, <2>11 DEF HandlerStep
<1> QED  BY <1>0, <1>1, <1>2, <1>3, OneJob

LEMMA ScanStory ==
    ASSUME StoryInv, NEW j \in Jobs, Scan(j)
    PROVE  \A k \in Jobs : JobInv(k)'
<1> USE DEF StoryInv, AdmissionInv
<1>0. /\ JobInv(j) /\ TypeOK /\ WaitInv /\ StoreInv
      /\ "failed" \in Status /\ "running" \in Status /\ "completed" \in Status
  BY DEF Status, Active, Terminal
<1>1. phase' = phase /\ outages' = outages /\ pc' = pc /\ reply' = reply
  BY DEF Scan, StartScan, MarkRunning, Execute, MarkCompleted, MarkFailed, FreeSlot
<1>2. \A k \in Jobs : k # j => run'[k] = run[k] /\ rows'[k] \in {rows[k], "absent"}
  <2>1. \A k \in Jobs : k # j => run'[k] = run[k]
    BY DEF TypeOK, Scan, StartScan, MarkRunning, Execute, MarkCompleted, MarkFailed, FreeSlot
  <2>2. \/ UNCHANGED rows \/ SetRow(j, "failed") \/ SetRow(j, "running") \/ SetRow(j, "completed")
    BY DEF Scan, StartScan, MarkRunning, Execute, MarkCompleted, MarkFailed, FreeSlot, ScanRaises
  <2> QED  BY <1>0, <2>1, <2>2, SetRowIs
<1>3. JobInv(j)'
  <2> USE DEF JobInv, ThreadInv, RowInv, HonestInv, OrphanInv, Live, TypeOK, Active, WaitInv, StoreInv
  <2>1. CASE StartScan(j)
    <3>1. run[j] = "queued"
      <4>1. pool \in Seq(Jobs) /\ pool # <<>> /\ j = pool[1] /\ Len(pool) \in Nat \ {0}
        BY <2>1, EmptySeq DEF StartScan
      <4> QED  BY <4>1 DEF PoolInv
    <3> QED  BY <1>0, <1>1, <2>1, <3>1 DEF StartScan
  <2>2. CASE MarkRunning(j)
    <3>1. CASE SetRow(j, "running") /\ RunTo(j, "executing")
      <4>1. rows'[j] \in {"running", "absent"}  BY <1>0, <3>1, SetRowIs
      <4> QED  BY <1>0, <1>1, <2>2, <3>1, <4>1 DEF MarkRunning
    <3>2. CASE ScanRaises(j, "running") /\ RunTo(j, "failing")
      <4>1. rows'[j] \in {rows[j], "running", "absent"}  BY <1>0, <3>2, SetRowIs DEF ScanRaises
      <4> QED  BY <1>0, <1>1, <2>2, <3>2, <4>1 DEF MarkRunning
    <3> QED  BY <2>2, <3>1, <3>2 DEF MarkRunning
  <2>3. CASE Execute(j)  BY <1>0, <1>1, <2>3 DEF Execute
  <2>4. CASE MarkCompleted(j)
    <3>1. CASE SetRow(j, "completed") /\ run'[j] \in {"freeing", "ok"}
      <4>1. rows'[j] \in {"completed", "absent"}  BY <1>0, <3>1, SetRowIs
      <4> QED  BY <1>0, <1>1, <2>4, <3>1, <4>1 DEF MarkCompleted
    <3>2. CASE ScanRaises(j, "completed") /\ RunTo(j, "failing")
      <4>1. rows'[j] \in {rows[j], "completed", "absent"} /\ outages # 0
        BY <1>0, <3>2, SetRowIs DEF ScanRaises, StoreOk
      <4> QED  BY <1>0, <1>1, <2>4, <3>2, <4>1 DEF MarkCompleted
    <3> QED  BY <2>4, <3>1, <3>2 DEF MarkCompleted
  <2>5. CASE MarkFailed(j)
    <3>1. CASE SetRow(j, "failed")
      <4>1. rows'[j] \in {"failed", "absent"}  BY <1>0, <3>1, SetRowIs
      <4> QED  BY <1>0, <1>1, <2>5, <4>1 DEF MarkFailed
    <3>2. CASE ~StoreOk /\ UNCHANGED rows  BY <1>0, <1>1, <2>5, <3>2 DEF MarkFailed, StoreOk
    <3> QED  BY <2>5, <3>1, <3>2 DEF MarkFailed, ScanRaises
  <2>6. CASE FreeSlot(j)  BY <1>0, <1>1, <2>6 DEF FreeSlot, Outcome
  <2> QED  BY <2>1, <2>2, <2>3, <2>4, <2>5, <2>6 DEF Scan
<1>4. \A k \in Jobs : k # j => /\ pc'[k] = pc[k] /\ run'[k] = run[k] /\ reply'[k] = reply[k]
                               /\ rows'[k] \in {rows[k], "absent"}
  BY <1>1, <1>2
<1> QED  BY <1>0, <1>1, <1>3, <1>4, OneJob

LEMMA DaemonStory ==
    ASSUME StoryInv, Drain \/ StopStep \/ Crash \/ Boot \/ Outage \/ Recover, NEW k \in Jobs
    PROVE  JobInv(k)'
<1> USE DEF StoryInv, AdmissionInv
<1>0. JobInv(k) /\ TypeOK /\ WaitInv /\ DownInv /\ StoreInv  OBVIOUS
<1> USE DEF JobInv, ThreadInv, RowInv, HonestInv, OrphanInv, Live, TypeOK, Active, WaitInv, StoreInv
<1>1. CASE Drain  BY <1>0, <1>1 DEF Drain
<1>2. CASE Detach  BY <1>0, <1>2 DEF Detach
<1>3. CASE Outage
  <2>1. outages' # 0  BY <1>0, <1>3 DEF Outage
  <2> QED  BY <1>0, <1>3, <2>1 DEF Outage
<1>4. CASE Recover  BY <1>0, <1>4 DEF Recover
<1>5. CASE ShutExecutor  BY <1>0, <1>5 DEF ShutExecutor
<1>6. CASE Die
  <2>1. /\ rows'[k] = rows[k] /\ reply'[k] = reply[k] /\ outages' = outages /\ phase' = "down"
        /\ pc'[k] \in {pc[k], "dead"} /\ pc'[k] \in {"idle", "done", "dead"}
        /\ pc[k] = "done" => pc'[k] = "done"
        /\ run'[k] \in {run[k], "none"} /\ ~InFlight(k)'
    BY <1>6 DEF Die
  <2> QED  BY <1>0, <2>1
<1>7. CASE Boot
  <2>1. /\ UNCHANGED <<outages, pc, run, reply>> /\ phase = "down" /\ phase' = "up"
        /\ outages = 0 => rows' = Reconcile(rows, order)
    BY <1>0, <1>7 DEF Boot, StoreOk
  <2>2. rows'[k] = rows[k] \/ (rows[k] \in Active /\ rows'[k] = "failed")
    BY <1>0, <1>7 DEF Boot, Reconcile
  <2>3. pc[k] \in {"idle", "done", "dead"}  BY <1>0, <2>1 DEF DownInv
  <2>4. Backend # "redis" /\ outages = 0 => rows'[k] \notin Active  BY <2>1 DEF Reconcile
  <2> QED  BY <1>0, <2>1, <2>2, <2>3, <2>4
<1> QED  BY <1>1, <1>2, <1>3, <1>4, <1>5, <1>6, <1>7 DEF StopStep, Exit, Crash

LEMMA NextStory == StoryInv /\ [Next]_vars => StoryInv'
<1> SUFFICES ASSUME StoryInv, [Next]_vars PROVE StoryInv'  OBVIOUS
<1>1. AdmissionInv'  BY NextAdmission DEF StoryInv
<1>2. StoreInv'
  <2>1. CASE Outage
    <3>1. outages' # 0  BY <2>1 DEF Outage, StoryInv, AdmissionInv, TypeOK
    <3> QED  BY <3>1 DEF StoreInv
  <2>2. CASE Recover  BY <2>2, Zenon DEF Recover, StoreInv
  <2>3. CASE UNCHANGED outside  BY <2>3 DEF StoryInv, StoreInv
  <2> QED  BY <2>1, <2>2, <2>3
      DEF Next, vars, Reject, AddRow, HandlerStep, PruneRows, StampTenant, ReadExecutor, AcquireSlot, RejectFull,
          MarkQueued, Submit, Reply, OuterFail, Scan, StartScan, MarkRunning, Execute, MarkCompleted,
          MarkFailed, FreeSlot, Drain, StopStep, ShutExecutor, Detach, Exit, Crash, Die, Boot
<1>3. \A k \in Jobs : JobInv(k)'
  <2>1. CASE UNCHANGED vars
    BY <2>1 DEF StoryInv, vars, JobInv, ThreadInv, RowInv, HonestInv, OrphanInv, Live
  <2>2. CASE Next  BY <2>2, HandlerStory, ScanStory, DaemonStory DEF Next
  <2> QED  BY <2>1, <2>2
<1> QED  BY <1>1, <1>2, <1>3 DEF StoryInv

LEMMA Story == Spec => []StoryInv
BY InitStory, NextStory, PTL DEF Spec

\* What a client was told is what the store says afterwards, over every crash,
\* stop, boot and outage: a 201's row stays completed, a 429's failed, and while
\* the store never failed an error's row is failed or waits for the next boot.
THEOREM RepliesAreHonest == Spec => []HonestReply
<1>1. StoryInv => HonestReply  BY DEF StoryInv, JobInv, HonestInv, HonestReply
<1> QED  BY <1>1, Story, PTL

\* On a file or sqlite store that never failed, a daemon that serves has no row
\* saying queued or running for a request nobody works on: reconcile_on_start
\* finds all that crashes and cancelled scans left.
THEOREM NoOrphansLeft == Spec => [](Backend # "redis" /\ outages = 0 => NoOrphans)
<1>1. StoryInv => (Backend # "redis" /\ outages = 0 => NoOrphans)
  BY DEF StoryInv, JobInv, OrphanInv, NoOrphans
<1> QED  BY <1>1, Story, PTL

\* Over every interleaving of handler, scan, boot and outage a row only moves
\* forward, and leaves completed only for the handler whose client is gone, or
\* because the store's cap evicts it.
THEOREM RowsMoveForward == Spec => StatusForward
<1> DEFINE Step == \A j \in Jobs :
               \/ rows'[j] = "absent"
               \/ /\ Rank[rows[j]] <= Rank[rows'[j]]
                  /\ rows[j] = "completed" /\ rows'[j] = "failed" =>
                       pc[j] = "outer" \/ (outages > 0 /\ run[j] = "failing")
<1>1. ASSUME StoryInv, Next, NEW j \in Jobs
      PROVE  \/ rows'[j] \in {rows[j], "absent"}
             \/ rows[j] = "absent" /\ rows'[j] = "pending"
             \/ rows[j] = "pending" /\ rows'[j] \in {"queued", "running", "failed"}
             \/ rows[j] = "queued" /\ rows'[j] \in {"running", "failed"}
             \/ rows[j] = "running" /\ rows'[j] \in {"completed", "failed"}
             \/ pc[j] = "outer" /\ rows'[j] = "failed"
             \/ outages > 0 /\ run[j] = "failing" /\ rows'[j] = "failed"
  <2>0. /\ TypeOK /\ \A k \in Jobs : JobInv(k)
        /\ "failed" \in Status /\ "queued" \in Status /\ "running" \in Status /\ "completed" \in Status
        /\ outages # 0 => outages > 0
    BY <1>1 DEF StoryInv, AdmissionInv, TypeOK, Status, Active, Terminal
  <2> USE DEF JobInv, RowInv
  <2>2. ASSUME NEW k \in Jobs, Reject(k) \/ AddRow(k) \/ HandlerStep(k)
        PROVE  \/ rows'[j] \in {rows[j], "absent"}
               \/ rows[j] = "absent" /\ rows'[j] = "pending"
               \/ rows[j] = "pending" /\ rows'[j] \in {"queued", "failed"}
               \/ pc[j] = "outer" /\ rows'[j] = "failed"
    <3>1. CASE RejectFull(k)  BY <2>0, <3>1, SetRowIs DEF RejectFull, Raises
    <3>2. CASE OuterFail(k)  BY <2>0, <3>2, SetRowIs DEF OuterFail, Raises
    <3>3. CASE MarkQueued(k)  BY <2>0, <3>3, SetRowIs DEF MarkQueued, Raises
    <3>4. CASE AddRow(k)  BY <2>0, <3>4, AddIs DEF AddRow, Raises, Insert
    <3>5. CASE PruneRows(k)  BY <2>0, <3>5, PruneIs DEF PruneRows, Raises, Cut
    <3>6. CASE UNCHANGED rows  BY <3>6
    <3> QED  BY <2>2, <3>1, <3>2, <3>3, <3>4, <3>5, <3>6
             DEF HandlerStep, Reject, StampTenant, ReadExecutor, AcquireSlot, Submit, Reply, Raises
  <2>3. ASSUME NEW k \in Jobs, Scan(k)
        PROVE  \/ rows'[j] \in {rows[j], "absent"}
               \/ rows[j] = "pending" /\ rows'[j] \in {"running", "failed"}
               \/ rows[j] = "queued" /\ rows'[j] \in {"running", "failed"}
               \/ rows[j] = "running" /\ rows'[j] \in {"completed", "failed"}
               \/ outages > 0 /\ run[j] = "failing" /\ rows'[j] = "failed"
    <3>1. CASE MarkRunning(k)  BY <2>0, <3>1, SetRowIs DEF MarkRunning, ScanRaises
    <3>2. CASE MarkCompleted(k)  BY <2>0, <3>2, SetRowIs DEF MarkCompleted, ScanRaises
    <3>3. CASE MarkFailed(k)  BY <2>0, <3>3, SetRowIs DEF MarkFailed, ScanRaises
    <3>4. CASE UNCHANGED rows  BY <3>4
    <3> QED  BY <2>3, <3>1, <3>2, <3>3, <3>4 DEF Scan, StartScan, Execute, FreeSlot
  <2>4. CASE Boot  BY <2>0, <2>4 DEF Boot, Reconcile, Active, TypeOK
  <2>5. CASE UNCHANGED rows  BY <2>5
  <2> QED  BY <1>1, <2>2, <2>3, <2>4, <2>5
           DEF Next, Drain, StopStep, ShutExecutor, Detach, Exit, Crash, Die, Outage, Recover
<1>2. ASSUME StoryInv, [Next]_vars PROVE [Step]_vars
  <2>1. CASE UNCHANGED vars  BY <2>1
  <2>2. CASE Next
    <3>1. ASSUME NEW j \in Jobs
          PROVE  \/ rows'[j] = "absent"
                 \/ /\ Rank[rows[j]] <= Rank[rows'[j]]
                    /\ rows[j] = "completed" /\ rows'[j] = "failed" =>
                         pc[j] = "outer" \/ (outages > 0 /\ run[j] = "failing")
      <4>1. rows[j] \in Status  BY <1>2 DEF StoryInv, AdmissionInv, TypeOK
      <4>2. /\ Rank["absent"] = 0 /\ Rank["pending"] = 1 /\ Rank["queued"] = 2 /\ Rank["running"] = 3
            /\ Rank["completed"] = 4 /\ Rank["failed"] = 5
        BY DEF Rank
      <4>3. Rank[rows[j]] \in 0..5  BY <4>1, <4>2 DEF Status, Active, Terminal
      <4> QED  BY <1>1, <1>2, <2>2, <4>2, <4>3
    <3> QED  BY <3>1
  <2> QED  BY <1>2, <2>1, <2>2
<1> QED  BY <1>2, Story, PTL DEF Spec, StatusForward
-----------------------------------------------------------------------------
(* No slot is lost.  Only a store that fails makes the handler drop one, and *)
(* only a daemon that stops runs a scan that holds none.                     *)

\* What a step makes of the free slots it makes of the holders, the other way.
Balanced ==
    \/ slots' = slots /\ Holders' = Holders
    \/ \E j \in Jobs : j \notin Holders /\ Holders' = Holders \cup {j} /\ slots' = slots - 1
    \/ \E j \in Holders : Holders' = Holders \ {j} /\ slots' = slots + 1

LEMMA BalanceKept ==
    ASSUME TypeOK, slots + Cardinality(Holders) = Capacity, Balanced
    PROVE  slots' + Cardinality(Holders') = Capacity
<1>1. IsFiniteSet(Holders) /\ Cardinality(Holders) \in Nat /\ slots \in Nat  BY HoldersFinite DEF TypeOK
<1>2. ASSUME NEW j \in Jobs, j \notin Holders, Holders' = Holders \cup {j}, slots' = slots - 1
      PROVE  slots' + Cardinality(Holders') = Capacity
  <2>1. Cardinality(Holders') = Cardinality(Holders) + 1  BY <1>1, <1>2, FS_AddElement
  <2> QED  BY <1>1, <1>2, <2>1
<1>3. ASSUME NEW j \in Holders, Holders' = Holders \ {j}, slots' = slots + 1
      PROVE  slots' + Cardinality(Holders') = Capacity
  <2>1. Cardinality(Holders') = Cardinality(Holders) - 1  BY <1>1, <1>3, FS_RemoveElement
  <2> QED  BY <1>1, <1>3, <2>1
<1> QED  BY <1>2, <1>3 DEF Balanced

\* With a store that works and a pool that takes scans every step is balanced.
LEMMA NextBalanced ==
    ASSUME StoryInv, storeUp, phase \in {"up", "draining"}, phase' \in {"up", "draining"}, Next
    PROVE  Balanced
<1> USE DEF StoryInv, AdmissionInv, TypeOK
<1>0. TypeOK /\ Attached  BY DEF Attached
<1>1. ASSUME NEW j \in Jobs, \A k \in Jobs : k # j => (HoldsSlot(k)' <=> HoldsSlot(k)),
             HoldsSlot(j)' <=> HoldsSlot(j), slots' = slots
      PROVE  Balanced
  <2>1. Holders' = Holders  BY <1>1 DEF Holders
  <2> QED  BY <1>1, <2>1 DEF Balanced
<1>2. ASSUME NEW j \in Jobs, Reject(j) \/ AddRow(j) \/ HandlerStep(j) PROVE Balanced
  <2>0. ThreadInv(j) /\ (InFlight(j) => pc[j] = "wait") /\ StoreOk  BY DEF JobInv, WaitInv, StoreOk
  <2>1. \A k \in Jobs : k # j => pc'[k] = pc[k] /\ run'[k] = run[k]
    BY <1>2 DEF Reject, AddRow, HandlerStep, PruneRows, StampTenant, ReadExecutor, AcquireSlot, RejectFull,
           MarkQueued, Submit, Reply, OuterFail, Detached, Raises, Unavailable, ToOuter, OuterAnswer
  <2>2. \A k \in Jobs : k # j => (HoldsSlot(k)' <=> HoldsSlot(k))  BY <2>1
  <2>3. CASE AcquireSlot(j) /\ slots > 0
    <3>1. ~HoldsSlot(j) /\ HoldsSlot(j)' /\ slots' = slots - 1
      BY <1>0, <2>0, <2>3 DEF AcquireSlot, Detached, ThreadInv
    <3>2. j \notin Holders /\ Holders' = Holders \cup {j}  BY <2>2, <3>1 DEF Holders
    <3> QED  BY <3>1, <3>2 DEF Balanced
  <2>4. CASE ~(AcquireSlot(j) /\ slots > 0)
    <3> USE DEF Raises, Detached, Unavailable, ToOuter, OuterAnswer, ThreadInv
    <3>1. CASE Reject(j)  BY <1>1, <2>0, <2>2, <3>1 DEF Reject
    <3>2. CASE AddRow(j)  BY <1>1, <2>0, <2>2, <3>2 DEF AddRow
    <3>11. CASE PruneRows(j)  BY <1>1, <2>0, <2>2, <3>11 DEF PruneRows
    <3>3. CASE StampTenant(j)  BY <1>1, <2>0, <2>2, <3>3 DEF StampTenant
    <3>4. CASE ReadExecutor(j)  BY <1>0, <1>1, <2>0, <2>2, <3>4 DEF ReadExecutor
    <3>5. CASE AcquireSlot(j)  BY <1>0, <1>1, <2>0, <2>2, <2>4, <3>5 DEF AcquireSlot
    <3>6. CASE RejectFull(j)  BY <1>1, <2>0, <2>2, <3>6 DEF RejectFull
    <3>7. CASE MarkQueued(j)  BY <1>1, <2>0, <2>2, <3>7 DEF MarkQueued
    <3>8. CASE Submit(j)  BY <1>1, <2>0, <2>2, <3>8 DEF Submit
    <3>9. CASE Reply(j)  BY <1>1, <2>0, <2>2, <3>9 DEF Reply, ResultCode
    <3>10. CASE OuterFail(j)  BY <1>1, <2>0, <2>2, <3>10 DEF OuterFail
    <3> QED  BY <1>2, <3>1, <3>2, <3>3, <3>4, <3>5, <3>6, <3>7, <3>8, <3>9, <3>10, <3>11 DEF HandlerStep
  <2> QED  BY <2>3, <2>4
<1>3. ASSUME NEW j \in Jobs, Scan(j) PROVE Balanced
  <2>0. (InFlight(j) => pc[j] = "wait") /\ StoreOk /\ pc' = pc
    BY <1>3 DEF WaitInv, StoreOk, Scan, StartScan, MarkRunning, Execute, MarkCompleted, MarkFailed, FreeSlot
  <2>1. \A k \in Jobs : k # j => (HoldsSlot(k)' <=> HoldsSlot(k))
    BY <1>3, <2>0 DEF Scan, StartScan, MarkRunning, Execute, MarkCompleted, MarkFailed, FreeSlot
  <2>2. ASSUME run[j] \in RunActive, run'[j] \in {"ok", "err"}, ReleaseSlot(j) PROVE Balanced
    <3>1. HoldsSlot(j) /\ ~HoldsSlot(j)' /\ slots' = slots + 1  BY <1>0, <2>0, <2>2 DEF ReleaseSlot
    <3>2. j \in Holders /\ Holders' = Holders \ {j}  BY <2>1, <3>1 DEF Holders
    <3> QED  BY <3>1, <3>2 DEF Balanced
  <2>3. CASE StartScan(j)
    <3>1. run[j] = "queued"
      <4>1. pool \in Seq(Jobs) /\ pool # <<>> /\ j = pool[1] /\ Len(pool) \in Nat \ {0}
        BY <2>3, EmptySeq DEF StartScan
      <4> QED  BY <4>1 DEF PoolInv
    <3> QED  BY <1>1, <2>1, <2>3, <3>1 DEF StartScan
  <2>4. CASE MarkRunning(j)  BY <1>1, <2>1, <2>4 DEF MarkRunning
  <2>5. CASE Execute(j)  BY <1>1, <2>1, <2>5 DEF Execute
  <2>6. CASE MarkCompleted(j)  BY <1>0, <1>1, <2>1, <2>6 DEF MarkCompleted
  <2>7. CASE MarkFailed(j)  BY <1>0, <1>1, <2>1, <2>7 DEF MarkFailed
  <2>8. CASE FreeSlot(j)  BY <1>0, <2>2, <2>8 DEF FreeSlot, Outcome
  <2> QED  BY <1>3, <2>3, <2>4, <2>5, <2>6, <2>7, <2>8 DEF Scan
<1>4. CASE Drain \/ StopStep \/ Crash \/ Boot \/ Outage \/ Recover
  <2>1. UNCHANGED <<pc, run, slots>>
    BY <1>4 DEF Drain, StopStep, ShutExecutor, Detach, Exit, Crash, Die, Boot, Outage, Recover
  <2>2. Holders' = Holders  BY <2>1 DEF Holders
  <2> QED  BY <2>1, <2>2 DEF Balanced
<1> QED  BY <1>2, <1>3, <1>4 DEF Next

SlotInv == outages = 0 => NoSlotLost

LEMMA NextSlot == StoryInv /\ SlotInv /\ [Next]_vars => SlotInv'
<1> SUFFICES ASSUME StoryInv, SlotInv, [Next]_vars, outages' = 0, phase' \in {"up", "draining"}
             PROVE  slots' + Cardinality(Holders') = Capacity
  BY DEF SlotInv, NoSlotLost
<1>0. TypeOK /\ Capacity \in Nat  BY PoolAssumption DEF StoryInv, AdmissionInv, Capacity
<1>1. CASE UNCHANGED vars
  <2>1. Holders' = Holders /\ slots' = slots /\ phase' = phase /\ outages' = outages  BY <1>1 DEF vars, Holders
  <2> QED  BY <2>1 DEF SlotInv, NoSlotLost
<1>2. CASE Next
  <2>1. outages = 0
    <3>1. outages' = outages \/ outages' = outages + 1
      BY <1>2 DEF Next, Reject, AddRow, HandlerStep, PruneRows, StampTenant, ReadExecutor, AcquireSlot, RejectFull,
          MarkQueued, Submit, Reply, OuterFail, Scan, StartScan, MarkRunning, Execute, MarkCompleted,
          MarkFailed, FreeSlot, Drain, StopStep, ShutExecutor, Detach, Exit, Crash, Die, Boot, Outage, Recover
    <3> QED  BY <1>0, <3>1 DEF TypeOK
  <2>2. storeUp  BY <2>1 DEF StoryInv, StoreInv
  <2>3. CASE phase \in {"up", "draining"}
    BY <1>0, <1>2, <2>1, <2>2, <2>3, NextBalanced, BalanceKept DEF SlotInv, NoSlotLost
  <2>4. CASE phase \notin {"up", "draining"}
    <3>1. Boot
      BY <1>2, <2>4 DEF Next, Reject, AddRow, HandlerStep, PruneRows, StampTenant, ReadExecutor, AcquireSlot, RejectFull,
          MarkQueued, Submit, Reply, OuterFail, Scan, StartScan, MarkRunning, Execute, MarkCompleted,
          MarkFailed, FreeSlot, Drain, StopStep, ShutExecutor, Detach, Exit, Crash, Die, Outage, Recover
    <3>2. Holders' = {} /\ slots' = Capacity
      BY <3>1 DEF Boot, Holders, StoryInv, AdmissionInv, DownInv, WaitInv
    <3> QED  BY <1>0, <3>2, FS_EmptySet
  <2> QED  BY <2>3, <2>4
<1> QED  BY <1>1, <1>2

\* While the store never failed and the pool is not shut, every slot is free or
\* held: no path of a request, fallback or failing scan forgets its release.
THEOREM NoSlotIsLost == Spec => [](outages = 0 => NoSlotLost)
<1>1. Init => SlotInv
  <2> SUFFICES ASSUME Init PROVE slots + Cardinality(Holders) = Capacity  BY DEF SlotInv, NoSlotLost
  <2>1. Holders = {} /\ slots = Capacity  BY DEF Init, Holders
  <2>2. Capacity \in Nat  BY PoolAssumption DEF Capacity
  <2> QED  BY <2>1, <2>2, FS_EmptySet
<1>2. Spec => []SlotInv  BY <1>1, NextSlot, Story, PTL DEF Spec
<1> QED  BY <1>2, PTL DEF SlotInv
-----------------------------------------------------------------------------
(* The daemon keeps to the store's contract: DurableStore, which the jsonl   *)
(* store implements, never sees more of it than adds of new ids, updates and *)
(* reconciliations.  *)

Durable == INSTANCE DurableStore

\* An id whose request has not reached the store is not in its index.
FreshInv == \A j \in Jobs : pc[j] = "idle" => j \notin Members(order)

\* Only the sqlite store's add() goes through the cap of its own.
SqliteInv == \A j \in Jobs : pc[j] = "prune" => Backend = "sqlite"

\* The cap keeps an end of the order.
LEMMA NewestMembers ==
    ASSUME NEW s \in Seq(Jobs)
    PROVE  Members(Newest(s)) \subseteq Members(s)
<1>0. Len(s) \in Nat /\ MaxJobs \in Nat \ {0} /\ DOMAIN s = 1..Len(s)  BY StoreAssumption, LenProperties
<1>1. CASE Len(s) > MaxJobs
  <2> DEFINE d == Len(s) - MaxJobs
             n == Newest(s)
  <2>1. n = SubSeq(s, d + 1, Len(s))  BY <1>0, <1>1 DEF Newest
  <2>2. d \in Nat /\ d + 1 \in 1..Len(s)  BY <1>0, <1>1
  <2>3. \A i \in d + 1 .. Len(s) : s[i] \in Jobs  BY <1>0, <2>2, ElementOfSeq
  <2>4. /\ n \in Seq(Jobs) /\ Len(n) = Len(s) - d
        /\ \A i \in 1..(Len(s) - d) : n[i] = s[i + d]
    BY <1>0, <2>1, <2>2, <2>3, SubSeqProperties
  <2> HIDE DEF d, n
  <2>5. DOMAIN n = 1..(Len(s) - d)  BY <2>4, LenProperties
  <2>6. \A i \in DOMAIN n : i + d \in DOMAIN s /\ n[i] = s[i + d]  BY <1>0, <2>2, <2>4, <2>5
  <2>7. Members(n) \subseteq Members(s)  BY <2>6 DEF Members
  <2> QED  BY <2>7 DEF n
<1>2. CASE ~(Len(s) > MaxJobs)  BY <1>2 DEF Newest
<1> QED  BY <1>1, <1>2

\* What add() makes of the index.
LEMMA AddOrder ==
    ASSUME TypeOK, NEW j \in Jobs
    PROVE  Members(Add(rows, order, j).order) \subseteq Members(order) \cup {j}
<1> DEFINE a == Append(order, j)
<1>1. order \in Seq(Jobs) /\ Len(order) \in Nat /\ DOMAIN order = 1..Len(order)
  BY LenProperties DEF TypeOK
<1>2. /\ a \in Seq(Jobs) /\ DOMAIN a = 1..(Len(order) + 1) /\ a[Len(order) + 1] = j
      /\ \A i \in 1..Len(order) : a[i] = order[i]
  BY <1>1, AppendProperties, LenProperties
<1>3. Add(rows, order, j).order = a \/ Add(rows, order, j).order = Newest(a)  BY DEF Add
<1> HIDE DEF a
<1>4. \A i \in DOMAIN a : i \in DOMAIN order \/ i = Len(order) + 1  BY <1>1, <1>2
<1>5. Members(a) \subseteq Members(order) \cup {j}  BY <1>1, <1>2, <1>4 DEF Members
<1>6. Members(Newest(a)) \subseteq Members(a)  BY <1>2, NewestMembers
<1> QED  BY <1>3, <1>5, <1>6

\* The daemon's steps on the store are steps of the contract.
LEMMA StepUses ==
    ASSUME StoryInv, FreshInv, SqliteInv, [Next]_vars
    PROVE  [Durable!Next]_<<rows, order>> /\ FreshInv'
<1>0. TypeOK  BY DEF StoryInv, AdmissionInv
<1>1. ASSUME UNCHANGED order, \A k \in Jobs : pc'[k] = "idle" => pc[k] = "idle" PROVE FreshInv'
  BY <1>1 DEF FreshInv
<1>2. ASSUME NEW j \in Jobs, NEW s \in Active \cup Terminal, SetRow(j, s)
      PROVE  Durable!Next
  BY <1>2 DEF SetRow, Update, Durable!Next, Durable!UpdateJob, Durable!Update, Durable!Active,
              Durable!Terminal, Active, Terminal
<1>3. "queued" \in Active /\ "running" \in Active /\ "failed" \in Terminal /\ "completed" \in Terminal
  BY DEF Active, Terminal
<1>4. ASSUME NEW j \in Jobs, AddRow(j), Insert(j),
             pc'[j] # "idle", \A k \in Jobs : k # j => pc'[k] = pc[k]
      PROVE  Durable!Next /\ FreshInv'
  <2>1. j \notin Members(order)  BY <1>4 DEF AddRow, FreshInv
  <2>2. Durable!Next
    BY <1>4, <2>1 DEF Insert, Durable!Next, Durable!AddJob, Durable!Add, Add, Durable!Members, Members,
                      Durable!Newest, Newest
  <2>3. Members(order') \subseteq Members(order) \cup {j}  BY <1>0, <1>4, AddOrder DEF Insert
  <2>4. \A k \in Jobs : pc'[k] = "idle" => pc[k] = "idle" /\ k # j  BY <1>4
  <2> QED  BY <2>2, <2>3, <2>4 DEF FreshInv
<1>10. ASSUME Cut, Backend = "sqlite", \A k \in Jobs : pc'[k] = "idle" => pc[k] = "idle"
       PROVE  Durable!Next /\ FreshInv'
  <2>1. Durable!Next
    BY <1>10 DEF Cut, Durable!Next, Durable!PruneJobs, Durable!Prune, Prune, Durable!Members, Members,
                 Durable!Newest, Newest
  <2>2. order' = Newest(order)  BY <1>10 DEF Cut, Prune
  <2>3. Members(order') \subseteq Members(order)  BY <1>0, <2>2, NewestMembers DEF TypeOK
  <2> QED  BY <1>10, <2>1, <2>3 DEF FreshInv
<1>5. CASE UNCHANGED vars  BY <1>1, <1>5 DEF vars
<1>6. ASSUME NEW j \in Jobs, Reject(j) \/ AddRow(j) \/ HandlerStep(j)
      PROVE  [Durable!Next]_<<rows, order>> /\ FreshInv'
  <2>1. pc'[j] # "idle" /\ \A k \in Jobs : k # j => pc'[k] = pc[k]
    BY <1>0, <1>6 DEF TypeOK, Reject, AddRow, HandlerStep, PruneRows, StampTenant, ReadExecutor, AcquireSlot,
           RejectFull, MarkQueued, Submit, Reply, OuterFail, Detached, Raises, Unavailable, ToOuter, OuterAnswer
  <2>2. \/ UNCHANGED <<rows, order>>
        \/ SetRow(j, "failed") \/ SetRow(j, "queued")
        \/ AddRow(j) /\ Insert(j)
        \/ PruneRows(j) /\ Cut
    BY <1>6 DEF Reject, AddRow, HandlerStep, PruneRows, StampTenant, ReadExecutor, AcquireSlot,
           RejectFull, MarkQueued, Submit, Reply, OuterFail, Raises
  <2>3. PruneRows(j) => Backend = "sqlite"  BY DEF PruneRows, SqliteInv
  <2>4. SetRow(j, "failed") \/ SetRow(j, "queued") => UNCHANGED order  BY DEF SetRow
  <2> QED  BY <1>1, <1>2, <1>3, <1>4, <1>10, <2>1, <2>2, <2>3, <2>4
<1>7. ASSUME NEW j \in Jobs, Scan(j) PROVE [Durable!Next]_<<rows, order>> /\ FreshInv'
  <2>1. UNCHANGED <<pc, order>>
    BY <1>7 DEF Scan, StartScan, MarkRunning, Execute, MarkCompleted, MarkFailed, FreeSlot,
                ScanRaises, SetRow
  <2>2. UNCHANGED rows \/ SetRow(j, "failed") \/ SetRow(j, "running") \/ SetRow(j, "completed")
    BY <1>7 DEF Scan, StartScan, MarkRunning, Execute, MarkCompleted, MarkFailed, FreeSlot, ScanRaises
  <2> QED  BY <1>1, <1>2, <1>3, <2>1, <2>2
<1>8. CASE Boot
  <2>1. UNCHANGED <<pc, order>> /\ (UNCHANGED rows \/ rows' = Reconcile(rows, order))
    BY <1>8 DEF Boot
  <2>2. rows' = Reconcile(rows, order) => Durable!Next
    BY <2>1 DEF Durable!Next, Durable!ReconcileJobs, Durable!Reconcile, Reconcile, Durable!Active, Active,
                Durable!Members, Members
  <2> QED  BY <1>1, <2>1, <2>2
<1>9. CASE Drain \/ StopStep \/ Crash \/ Outage \/ Recover
  <2>1. UNCHANGED <<rows, order>> /\ \A k \in Jobs : pc'[k] = "idle" => pc[k] = "idle"
    BY <1>0, <1>9 DEF TypeOK, Drain, StopStep, ShutExecutor, Detach, Exit, Crash, Die, Outage, Recover
  <2> QED  BY <1>1, <2>1
<1> QED  BY <1>5, <1>6, <1>7, <1>8, <1>9 DEF Next

\* Every behaviour of the daemon, with any backend, outages and restarts, is one
\* of the store it relies on: no id is added twice, and the rows change only by
\* add, update and the reconciliation (_handle_submit_scan, _run_scan_job,
\* PicoDomeDaemon.__init__).
THEOREM KeepsContract == Spec => Durable!Spec
<1>1. Init => Durable!Init /\ FreshInv /\ SqliteInv
  BY DEF Init, Durable!Init, FreshInv, SqliteInv, Members
<1>2. StoryInv /\ FreshInv /\ SqliteInv /\ [Next]_vars
      => [Durable!Next]_<<rows, order>> /\ FreshInv'
  BY StepUses
<1>3. StoryInv /\ SqliteInv /\ [Next]_vars => SqliteInv'
  BY DEF StoryInv, AdmissionInv, TypeOK, SqliteInv, vars, Next, Reject, AddRow, HandlerStep, PruneRows,
         StampTenant, ReadExecutor, AcquireSlot, RejectFull, MarkQueued, Submit, Reply, OuterFail,
         Detached, Raises, Unavailable, ToOuter, OuterAnswer, Scan, StartScan, MarkRunning, Execute,
         MarkCompleted, MarkFailed, FreeSlot, Drain, StopStep, ShutExecutor, Detach, Exit, Crash, Die,
         Boot, Outage, Recover
<1> QED  BY <1>1, <1>2, <1>3, Story, PTL DEF Spec, Durable!Spec
-----------------------------------------------------------------------------
(* The pool.  ThreadPoolExecutor's own queue has no bound: the semaphore is  *)
(* what bounds it.  And every scan somebody waits for is in somebody's hands.*)

\* A queued scan is in the queue of a pool that is not shut.
QueuedInv == \A j \in Jobs :
    run[j] = "queued" => phase \in {"up", "draining"} /\ \E i \in DOMAIN pool : pool[i] = j

PoolOk == QueuedInv /\ Cardinality(PoolBusy) <= Workers

\* No more scans run than there are pool threads, and what waits in the executor
\* and runs on it fits in workers + queue.
PoolBound ==
    /\ Cardinality(PoolBusy) <= Workers
    /\ Attached => Len(pool) + Cardinality(PoolBusy) <= Capacity

Ended == {"ok", "err", "broken", "cancelled"}

\* While a handler waits for a scan that has not ended, some scan can take a step:
\* one is under way, or a pool thread is free for the oldest in the queue.
SomeoneWorks ==
    (\E j \in Jobs : pc[j] = "wait" /\ run[j] \notin Ended) =>
        \/ \E k \in Jobs : run[k] \in RunActive
        \/ pool # <<>> /\ Cardinality(PoolBusy) < Workers

LEMMA BusyFinite == IsFiniteSet(PoolBusy) /\ Cardinality(PoolBusy) \in Nat
<1>1. PoolBusy \in SUBSET Jobs  BY DEF PoolBusy
<1>2. IsFiniteSet(PoolBusy)  BY <1>1, StoreAssumption, FS_Subset
<1> QED  BY <1>2, FS_CardinalityType

\* A step that puts no scan on the pool and takes none from its queue.
LEMMA PoolQuiet ==
    ASSUME PoolOk, UNCHANGED <<phase, pool>>, PoolBusy' \subseteq PoolBusy,
           \A k \in Jobs : run'[k] = "queued" => run[k] = "queued"
    PROVE  PoolOk'
<1>1. QueuedInv'  BY DEF PoolOk, QueuedInv
<1>2. IsFiniteSet(PoolBusy) /\ Cardinality(PoolBusy) \in Nat  BY BusyFinite
<1>3. Cardinality(PoolBusy') <= Cardinality(PoolBusy) /\ Cardinality(PoolBusy') \in Nat
  BY <1>2, FS_Subset, FS_CardinalityType
<1> QED  BY <1>1, <1>2, <1>3, PoolAssumption DEF PoolOk

\* A free thread takes one more.
LEMMA OneMoreBusy ==
    ASSUME NEW j, Cardinality(PoolBusy) < Workers, PoolBusy' \subseteq PoolBusy \cup {j}
    PROVE  Cardinality(PoolBusy') <= Workers
<1>1. IsFiniteSet(PoolBusy) /\ Cardinality(PoolBusy) \in Nat  BY BusyFinite
<1>2. /\ IsFiniteSet(PoolBusy \cup {j})
      /\ Cardinality(PoolBusy \cup {j}) \in Nat
      /\ Cardinality(PoolBusy \cup {j}) <= Cardinality(PoolBusy) + 1
  BY <1>1, FS_AddElement
<1>3. Cardinality(PoolBusy') \in Nat /\ Cardinality(PoolBusy') <= Cardinality(PoolBusy \cup {j})
  BY <1>2, FS_Subset, FS_CardinalityType
<1> QED  BY <1>1, <1>2, <1>3, PoolAssumption

LEMMA NextPool ==
    ASSUME AdmissionInv, PoolOk, [Next]_vars
    PROVE  PoolOk'
<1> USE DEF AdmissionInv, TypeOK
<1>0. IsFiniteSet(PoolBusy) /\ Cardinality(PoolBusy) \in Nat /\ Workers \in Nat
  BY BusyFinite, PoolAssumption
<1>1. ASSUME PoolBusy' \subseteq PoolBusy PROVE Cardinality(PoolBusy') <= Workers
  <2>1. Cardinality(PoolBusy') <= Cardinality(PoolBusy) /\ Cardinality(PoolBusy') \in Nat
    BY <1>0, <1>1, FS_Subset, FS_CardinalityType
  <2> QED  BY <1>0, <2>1 DEF PoolOk
<1>2. CASE UNCHANGED vars  BY <1>2, PoolQuiet DEF vars, PoolBusy
<1>3. ASSUME NEW j \in Jobs, Reject(j) \/ AddRow(j) \/ HandlerStep(j) PROVE PoolOk'
  <2>1. CASE Submit(j)
    <3>1. PoolBusy' \subseteq PoolBusy  BY <2>1 DEF Submit, PoolBusy
    <3>2. CASE phase \in {"up", "draining"}
      <4>1. pool' = Append(pool, j) /\ run' = [run EXCEPT ![j] = "queued"] /\ UNCHANGED phase
        BY <2>1, <3>2 DEF Submit
      <4>2. /\ Len(pool) \in Nat /\ DOMAIN pool = 1..Len(pool) /\ DOMAIN pool' = 1..(Len(pool) + 1)
            /\ \A i \in 1..Len(pool) : pool'[i] = pool[i]
            /\ pool'[Len(pool) + 1] = j
        <5>1. pool \in Seq(Jobs)  OBVIOUS
        <5> QED  BY <4>1, <5>1, AppendProperties, LenProperties
      <4>3. Len(pool) + 1 \in DOMAIN pool' /\ \A i \in DOMAIN pool : i \in DOMAIN pool'  BY <4>2
      <4>4. QueuedInv'  BY <3>2, <4>1, <4>2, <4>3 DEF PoolOk, QueuedInv
      <4> QED  BY <1>1, <3>1, <4>4 DEF PoolOk
    <3>3. CASE phase \in {"shut", "closed"}  BY <2>1, <3>1, <3>3, PoolQuiet DEF Submit
    <3> QED  BY <2>1, <3>2, <3>3 DEF Submit
  <2>2. CASE ReadExecutor(j)
    <3>1. PoolBusy' \subseteq PoolBusy  BY <2>2 DEF ReadExecutor, PoolBusy
    <3> QED  BY <2>2, <3>1, PoolQuiet DEF ReadExecutor
  <2>3. CASE UNCHANGED <<phase, pool, run, inline>>  BY <2>3, PoolQuiet DEF PoolBusy
  <2> QED  BY <1>3, <2>1, <2>2, <2>3 DEF Reject, AddRow, HandlerStep, PruneRows, StampTenant, AcquireSlot,
                                         RejectFull, MarkQueued, Reply, OuterFail
<1>4. ASSUME NEW j \in Jobs, Scan(j) PROVE PoolOk'
  <2>1. CASE StartScan(j)
    <3>1. /\ pool' = Tail(pool) /\ run' = [run EXCEPT ![j] = "starting"] /\ UNCHANGED <<phase, inline>>
          /\ pool \in Seq(Jobs) /\ pool # <<>> /\ j = pool[1] /\ Cardinality(PoolBusy) < Workers
      BY <2>1 DEF StartScan
    <3>2. /\ Len(pool) \in Nat \ {0} /\ DOMAIN pool = 1..Len(pool) /\ DOMAIN pool' = 1..(Len(pool) - 1)
          /\ \A i \in 1..(Len(pool) - 1) : pool'[i] = pool[i + 1]
      BY <3>1, EmptySeq, HeadTailProperties, LenProperties
    <3>3. ASSUME NEW k \in Jobs, run'[k] = "queued" PROVE \E i \in DOMAIN pool' : pool'[i] = k
      <4>1. k # j /\ run[k] = "queued"  BY <3>1, <3>3
      <4>2. PICK i \in DOMAIN pool : pool[i] = k  BY <4>1 DEF PoolOk, QueuedInv
      <4>3. i # 1  BY <3>1, <4>1, <4>2
      <4>4. i - 1 \in 1..(Len(pool) - 1) /\ (i - 1) + 1 = i  BY <3>2, <4>2, <4>3
      <4>5. pool'[i - 1] = k  BY <3>2, <4>2, <4>4
      <4> QED  BY <3>2, <4>4, <4>5
    <3>4. \A k \in Jobs : run'[k] = "queued" => run[k] = "queued"  BY <3>1
    <3>5. QueuedInv'  BY <3>1, <3>3, <3>4 DEF PoolOk, QueuedInv
    <3>6. PoolBusy' \subseteq PoolBusy \cup {j}  BY <3>1 DEF PoolBusy
    <3>7. Cardinality(PoolBusy') <= Workers  BY <3>1, <3>6, OneMoreBusy
    <3> QED  BY <3>5, <3>7 DEF PoolOk
  <2>2. ASSUME run[j] \in RunActive, NEW s \in RunActive \cup {"ok", "err", "broken"}, RunTo(j, s),
               UNCHANGED <<phase, pool, inline>>
        PROVE  PoolOk'
    <3>1. PoolBusy' \subseteq PoolBusy  BY <2>2 DEF PoolBusy
    <3> QED  BY <2>2, <3>1, PoolQuiet
  <2>3. CASE MarkRunning(j)  BY <2>2, <2>3 DEF MarkRunning
  <2>4. CASE Execute(j)  BY <2>2, <2>4 DEF Execute
  <2>5. CASE MarkCompleted(j)  BY <2>2, <2>5 DEF MarkCompleted
  <2>6. CASE MarkFailed(j)  BY <2>2, <2>6 DEF MarkFailed
  <2>7. CASE FreeSlot(j)  BY <2>2, <2>7 DEF FreeSlot, Outcome
  <2> QED  BY <1>4, <2>1, <2>3, <2>4, <2>5, <2>6, <2>7 DEF Scan
<1>5. CASE Drain \/ Detach \/ Boot \/ Outage \/ Recover
  <2>1. UNCHANGED <<pool, run, inline>> /\ (phase \in {"up", "draining"} => phase' \in {"up", "draining"})
    BY <1>5 DEF Drain, Detach, Boot, Outage, Recover
  <2>2. PoolBusy' = PoolBusy  BY <2>1 DEF PoolBusy
  <2>3. QueuedInv'  BY <2>1 DEF PoolOk, QueuedInv
  <2> QED  BY <1>1, <2>2, <2>3 DEF PoolOk
<1>6. CASE ShutExecutor \/ Die
  <2>1. PoolBusy' \subseteq PoolBusy  BY <1>6 DEF ShutExecutor, Die, PoolBusy
  <2>2. \A k \in Jobs : run'[k] # "queued"  BY <1>6 DEF ShutExecutor, Die
  <2> QED  BY <1>1, <2>1, <2>2 DEF PoolOk, QueuedInv
<1> QED  BY <1>2, <1>3, <1>4, <1>5, <1>6 DEF Next, StopStep, Exit, Crash

\* The scans of the pool hold a slot each.
LEMMA PoolFits ==
    ASSUME AdmissionInv, PoolOk
    PROVE  PoolBound
<1> DEFINE Q == Members(pool)
           f == [i \in DOMAIN pool |-> pool[i]]
           L == Len(pool)
<1>0. pool \in Seq(Jobs) /\ L \in Nat /\ DOMAIN pool = 1..L /\ Capacity \in Nat /\ slots \in Nat
  BY LenProperties, PoolAssumption DEF AdmissionInv, TypeOK, Capacity
<1>1. IsFiniteSet(DOMAIN pool) /\ Cardinality(DOMAIN pool) = L  BY <1>0, FS_Interval
<1>2. f \in [DOMAIN pool -> Q] /\ \A y \in Q : \E i \in DOMAIN pool : f[i] = y  BY DEF Members
<1>3. \A i, k \in DOMAIN pool : f[i] = f[k] => i = k  BY <1>0 DEF AdmissionInv, PoolInv
<1>4. f \in Surjection(DOMAIN pool, Q)  BY <1>2 DEF Surjection
<1>5. f \in Injection(DOMAIN pool, Q)  BY <1>2, <1>3 DEF Injection, IsInjective
<1>6. Q \cap PoolBusy = {} /\ Q \cup PoolBusy \in SUBSET Holders
  <2>1. \A y \in Q : y \in Jobs /\ run[y] = "queued"
    BY <1>0, ElementOfSeq DEF Members, AdmissionInv, PoolInv
  <2> QED  BY <2>1 DEF PoolBusy, Holders
<1> HIDE DEF Q, f, L
<1>7. IsFiniteSet(Q) /\ Cardinality(Q) = L  BY <1>1, <1>4, <1>5, FS_Surjection
<1>8. IsFiniteSet(PoolBusy) /\ Cardinality(PoolBusy) \in Nat  BY BusyFinite
<1>9. Cardinality(Q \cup PoolBusy) = L + Cardinality(PoolBusy)
  <2>1. Cardinality(Q \cap PoolBusy) = 0  BY <1>6, FS_EmptySet
  <2>2. Cardinality(Q \cup PoolBusy) = Cardinality(Q) + Cardinality(PoolBusy) - Cardinality(Q \cap PoolBusy)
    BY <1>7, <1>8, FS_Union
  <2> QED  BY <1>0, <1>7, <1>8, <2>1, <2>2
<1>10. Cardinality(Q \cup PoolBusy) <= Cardinality(Holders) /\ Cardinality(Holders) \in Nat
  BY <1>6, HoldersFinite, FS_Subset
<1>11. ASSUME Attached PROVE L + Cardinality(PoolBusy) <= Capacity
  <2>1. slots + Cardinality(Holders) <= Capacity  BY <1>11 DEF AdmissionInv, NeverOverAdmits
  <2> QED  BY <1>0, <1>8, <1>9, <1>10, <2>1
<1> QED  BY <1>11 DEF PoolBound, PoolOk, L

LEMMA Pooled == Spec => [](StoryInv /\ PoolOk)
<1>1. Init => PoolOk
  <2> SUFFICES ASSUME Init PROVE PoolOk  OBVIOUS
  <2>1. PoolBusy = {} /\ QueuedInv  BY DEF Init, PoolBusy, QueuedInv
  <2> QED  BY <2>1, FS_EmptySet, PoolAssumption DEF PoolOk
<1>2. StoryInv /\ PoolOk /\ [Next]_vars => PoolOk'  BY NextPool DEF StoryInv
<1> QED  BY <1>1, <1>2, Story, PTL DEF Spec

\* Over every interleaving of requests, stop, crash and boot, the executor's
\* unbounded queue and its threads never hold more than workers + queue scans
\* (scan_slots, ThreadPoolExecutor).
THEOREM PoolIsBounded == Spec => []PoolBound
<1>1. StoryInv /\ PoolOk => PoolBound  BY PoolFits DEF StoryInv
<1> QED  BY <1>1, Pooled, PTL

\* No state of the daemon leaves a handler waiting for a scan that nobody runs and
\* no pool thread can take: stop() drops no future without cancelling it, and a
\* pool whose threads are all taken has a scan that goes on (future.result()).
THEOREM NobodyWaitsInVain == Spec => []SomeoneWorks
<1>1. StoryInv /\ PoolOk => SomeoneWorks
  <2> SUFFICES ASSUME StoryInv, PoolOk, NEW j \in Jobs, pc[j] = "wait", run[j] \notin Ended,
                      \A k \in Jobs : run[k] \notin RunActive
               PROVE  pool # <<>> /\ Cardinality(PoolBusy) < Workers
    BY DEF SomeoneWorks
  <2>1. run[j] \in Runs /\ run[j] # "none" /\ run[j] \notin {"ok", "err", "broken", "cancelled"}
    BY DEF StoryInv, AdmissionInv, TypeOK, JobInv, ThreadInv, Ended
  <2>2. run[j] = "queued"  BY <2>1 DEF Runs
  <2>3. pool # <<>>
    <3>1. PICK i \in DOMAIN pool : pool[i] = j  BY <2>2 DEF PoolOk, QueuedInv
    <3>2. DOMAIN <<>> = {}  OBVIOUS
    <3> QED  BY <3>1, <3>2
  <2>4. PoolBusy = {}  BY DEF PoolBusy
  <2>5. Cardinality(PoolBusy) = 0 /\ Workers > 0  BY <2>4, FS_EmptySet, PoolAssumption
  <2> QED  BY <2>3, <2>5
<1> QED  BY <1>1, Pooled, PTL
=============================================================================
