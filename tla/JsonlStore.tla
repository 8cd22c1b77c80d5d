----------------------------- MODULE JsonlStore -----------------------------
(***************************************************************************)
(* PersistentScanJobStore, the default job store: a dict in memory, a      *)
(* jobs.jsonl file that add() appends to and that update(), reconcile and  *)
(* the bounded compaction replace as a whole (tmp file, rename).  Every    *)
(* operation runs under the store's lock; the process may die in the       *)
(* middle of one, and the disk may refuse some writes and take others,     *)
(* which the store logs and otherwise ignores.                             *)
(***************************************************************************)
EXTENDS JobStore, SequencesExt

CONSTANTS
    Ties,       \* two jobs may be created in one second
    Tears,      \* an append can be cut short and leave part of a line
    MaxLines,   \* MAX_FILE_SIZE, in lines
    MaxBoots,   \* bound: process starts
    MaxOutages  \* bound: disk outages

ASSUME JsonlAssumption ==
    /\ Backend = "jsonl" /\ Ties \in BOOLEAN /\ Tears \in BOOLEAN
    /\ MaxLines \in Nat /\ MaxBoots \in Nat /\ MaxOutages \in Nat

VARIABLES
    up,         \* the process runs (and has loaded the store)
    mem,        \* _jobs in dict order
    disk,       \* the file: its good lines, and whether its last line is cut
    appends,    \* _appends_since_rewrite
    fresh,      \* job ids not used yet
    now,        \* the second
    boots,      \* process starts so far
    diskOk,     \* the disk takes every read and write
    outages,    \* disk outages so far
    clean,      \* history: no write was lost since the file was last replaced
    dead,       \* history: dead lines the process loaded, until the file is replaced
    vain        \* history: rewrites add() asked for in vain since then

slack == <<dead, vain>>
vars  == <<up, mem, disk, appends, fresh, now, boots, diskOk, outages, clean, slack>>

Row == [job : Jobs, status : Status \ {"absent"}, at : Nat]

JobsOf(s) == {s[i].job : i \in DOMAIN s}

Init ==
    /\ up = FALSE /\ mem = << >> /\ appends = 0
    /\ disk = [lines |-> << >>, torn |-> FALSE]
    /\ fresh = Jobs /\ now = 0 /\ boots = 0
    /\ diskOk = TRUE /\ outages = 0 /\ clean = TRUE /\ dead = 0 /\ vain = 0
-----------------------------------------------------------------------------
(* Sorting by created_at: Python's sort is stable, reversed or not *)

Newer(s, i, k) == s[i].at > s[k].at \/ (s[i].at = s[k].at /\ i < k)
Rank(s, k) == Cardinality({i \in DOMAIN s : Newer(s, i, k)})

\* sorted(..., reverse=True)
NewestFirst(s) == [p \in DOMAIN s |-> s[CHOOSE k \in DOMAIN s : Rank(s, k) = p - 1]]

\* Mutant: the oldest jobs are kept.
TrimOldest(s) == SubSeq(s, 1, IF Len(s) < MaxJobs THEN Len(s) ELSE MaxJobs)

\* The max_jobs newest, newest first.
Trim(s) == SubSeq(NewestFirst(s), 1, IF Len(s) < MaxJobs THEN Len(s) ELSE MaxJobs)

\* Mutant: the cap is tested before the job is in.
EvictLate(s) == IF Len(s) > MaxJobs + 1 THEN Tail(s) ELSE s

\* _evict_oldest_locked: the first of the oldest goes.
Evict(s) ==
    IF Len(s) > MaxJobs
    THEN RemoveAt(s, CHOOSE i \in DOMAIN s : \A k \in DOMAIN s :
                        s[i].at < s[k].at \/ (s[i].at = s[k].at /\ i <= k))
    ELSE s
-----------------------------------------------------------------------------
(* The file *)

\* _append_to_disk: a line written behind a cut one joins it and is unreadable.
Appended(d, r) ==
    IF d.torn THEN [d EXCEPT !.torn = FALSE] ELSE [d EXCEPT !.lines = Append(@, r)]

Cut(d) == [d EXCEPT !.torn = @ \/ Tears]

\* _rewrite_disk that succeeds.
Replace(m) ==
    /\ disk' = [lines |-> m, torn |-> FALSE]
    /\ appends' = 0 /\ clean' = TRUE /\ dead' = 0 /\ vain' = 0

Rewrite(m) ==
    \/ Replace(m)
    \/ ~diskOk /\ clean' = FALSE /\ UNCHANGED <<disk, appends, slack>>

\* Mutant: appends are not counted.
AppendUncounted(r) ==
    /\ disk' = Appended(disk, r) /\ UNCHANGED <<appends, clean>>

\* The append of add(), when no successful rewrite follows.
AppendRow(r) ==
    /\ appends' = appends + 1
    /\ \/ disk' = Appended(disk, r) /\ clean' = (clean /\ ~disk.torn)
       \/ ~diskOk /\ disk' \in {disk, Cut(disk)} /\ clean' = FALSE
-----------------------------------------------------------------------------
Pending(j) == [job |-> j, status |-> "pending", at |-> now]

\* Ids are random and never compared: any fresh one stands for all.
Use(j) == j \in fresh /\ j = (CHOOSE k \in fresh : TRUE) /\ fresh' = fresh \ {j}

\* The clock a job is stamped with moves on, at once if no ties are allowed.
Clock == now' \in IF Ties THEN {now, now + 1} ELSE {now + 1}

\* add(): append, then rewrite once the appends outnumber the live rows.  On a bad
\* disk each of the two writes fails or succeeds by itself.
AddJob(j) ==
    /\ up /\ Use(j) /\ Clock
    /\ mem' = Evict(Append(mem, Pending(j)))
    /\ IF appends + 1 > Len(mem')
       THEN \/ Replace(mem')
            \/ ~diskOk /\ AppendRow(Pending(j)) /\ vain' = vain + 1 /\ UNCHANGED dead
       ELSE AppendRow(Pending(j)) /\ UNCHANGED slack
    /\ UNCHANGED <<up, boots, diskOk, outages>>

\* Mutant: a finished job is not written, only appended to by the next add.
UpdateLazily(j, s) ==
    /\ up /\ j \in JobsOf(mem)
    /\ mem' = [i \in DOMAIN mem |->
                 IF mem[i].job = j THEN [mem[i] EXCEPT !.status = s] ELSE mem[i]]
    /\ UNCHANGED <<up, disk, appends, fresh, now, boots, diskOk, outages, clean, slack>>

\* update(): an evicted job is ignored.
UpdateJob(j, s) ==
    /\ up /\ j \in JobsOf(mem)
    /\ mem' = [i \in DOMAIN mem |->
                 IF mem[i].job = j THEN [mem[i] EXCEPT !.status = s] ELSE mem[i]]
    /\ Rewrite(mem')
    /\ UNCHANGED <<up, fresh, now, boots, diskOk, outages>>

\* What the lines of a file give: a file over the size limit is compacted, one
\* with too many jobs is trimmed.
Loaded(lines) ==
    IF Len(lines) > MaxJobs \/ Len(lines) > MaxLines THEN Trim(lines) ELSE lines

Reconciled(m) == [i \in DOMAIN m |->
    IF m[i].status \in Active THEN [m[i] EXCEPT !.status = "failed"] ELSE m[i]]

\* Boot: _load_from_disk, or _compact, then reconcile_on_start.
Boot ==
    /\ ~up /\ boots < MaxBoots
    /\ up' = TRUE /\ boots' = boots + 1
    /\ LET found == Loaded(disk.lines)
           over  == Len(disk.lines) > MaxLines
       IN  /\ mem' = Reconciled(found)
           /\ \/ (mem' # found \/ over) /\ Replace(mem')
              \/ /\ ~diskOk /\ mem' # found /\ over    \* compacted, not reconciled
                 /\ disk' = [lines |-> found, torn |-> FALSE]
                 /\ appends' = 0 /\ clean' = FALSE /\ dead' = 0 /\ vain' = 0
              \/ /\ ~diskOk \/ (mem' = found /\ ~over)
                 /\ appends' = 0 /\ clean' = (clean /\ mem' = found) /\ UNCHANGED disk
                 /\ dead' = Len(disk.lines) - Len(mem') /\ vain' = 0
    /\ UNCHANGED <<fresh, now, diskOk, outages>>

\* The file exists and cannot be read: the store starts empty.
BootEmpty ==
    /\ ~up /\ boots < MaxBoots /\ ~diskOk
    /\ up' = TRUE /\ boots' = boots + 1
    /\ mem' = << >> /\ appends' = 0 /\ clean' = FALSE
    /\ dead' = Len(disk.lines) /\ vain' = 0
    /\ UNCHANGED <<disk, fresh, now, diskOk, outages>>

Down ==
    /\ up /\ up' = FALSE /\ mem' = << >> /\ appends' = 0 /\ dead' = 0 /\ vain' = 0
    /\ UNCHANGED <<boots, diskOk, outages>>

Crash == Down /\ UNCHANGED <<disk, fresh, now, clean>>

\* The process dies inside add(): around the append, or before the rewrite.
CrashInAdd(j) ==
    /\ Down /\ Use(j) /\ Clock
    /\ \/ disk' = Cut(disk) /\ clean' = (clean /\ disk' = disk)
       \/ disk' = Appended(disk, Pending(j)) /\ clean' = (clean /\ ~disk.torn)

DiskFails ==
    /\ diskOk /\ outages < MaxOutages
    /\ diskOk' = FALSE /\ outages' = outages + 1
    /\ UNCHANGED <<up, mem, disk, appends, fresh, now, boots, clean, slack>>

DiskBack ==
    /\ ~diskOk /\ diskOk' = TRUE
    /\ UNCHANGED <<up, mem, disk, appends, fresh, now, boots, outages, clean, slack>>

Next ==
    \/ \E j \in Jobs : \/ AddJob(j) \/ CrashInAdd(j)
                       \/ \E s \in Active \cup Terminal : UpdateJob(j, s)
    \/ Boot \/ BootEmpty \/ Crash \/ DiskFails \/ DiskBack

Spec == Init /\ [][Next]_vars
-----------------------------------------------------------------------------
TypeOK ==
    /\ up \in BOOLEAN /\ mem \in Seq(Row) /\ Len(mem) <= MaxJobs
    /\ disk \in [lines : Seq(Row), torn : BOOLEAN]
    /\ appends \in Nat /\ fresh \subseteq Jobs /\ now \in Nat /\ boots \in Nat
    /\ diskOk \in BOOLEAN /\ outages \in Nat /\ clean \in BOOLEAN
    /\ dead \in Nat /\ vain \in Nat

\* "the file stays within ~2x live size" (add): a running store's file has at most
\* two readable lines per live row, and beyond them only the dead lines it was
\* loaded with (the append counter begins anew while they stay) and one line for
\* every rewrite that add() asked for and the disk refused, until one succeeds.
TwiceLive == up => Len(disk.lines) <= 2 * Len(mem) + dead + vain

\* One successful rewrite heals whatever outages and cut lines did before: from
\* then on a reload would find what the memory holds, except that jobs created in
\* the same second may take one another's place at the cap.
Heals == LET found == ToSet(Loaded(disk.lines)) held == ToSet(mem)
         IN  up /\ clean =>
                /\ Cardinality(found) = Cardinality(held)
                /\ \A r \in held \ found :
                      /\ r.job \notin JobsOf(Loaded(disk.lines))
                      /\ \E q \in found \ held : q.at = r.at

\* The rows a reader sees, now or after the next load.
View == IF up THEN mem ELSE Loaded(disk.lines)

RowsOf(s) == [j \in Jobs |->
    IF j \in JobsOf(s) THEN s[CHOOSE i \in DOMAIN s : s[i].job = j].status ELSE "absent"]

OrderOf(s) == LET n == NewestFirst(s) IN [p \in DOMAIN n |-> n[Len(n) + 1 - p].job]

Durable == INSTANCE DurableStore WITH rows <- RowsOf(View), order <- OrderOf(View)

\* On a disk that works, with jobs of different seconds, the file makes the store
\* durable: a crash at any point of any operation, and the trimmed or compacted
\* reload, lose no row, revive none and change no status.
Implements == Durable!Spec
=============================================================================
