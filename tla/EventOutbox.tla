----------------------------- MODULE EventOutbox -----------------------------
(***************************************************************************)
(* The event bus of picosentry serve in multi-worker mode                  *)
(* (serve/services/event_bus.py): publish() stores the event in a shared   *)
(* table and dispatches it in its own process; the poller of every other   *)
(* worker dispatches it there.                                             *)
(*                                                                         *)
(* Events are numbered in the order of their timestamps, and the number of *)
(* events created so far is the clock.  A worker is one process life: a    *)
(* restart is another worker, as worker_identity() makes it.               *)
(***************************************************************************)
EXTENDS Integers, Sequences, FiniteSets

CONSTANTS Workers,
          MaxEvents,   \* bound: events published
          Batch,       \* _OUTBOX_BATCH
          MaxFaults    \* bound: failed statements and callbacks

ASSUME OutboxAssumption ==
    MaxEvents \in Nat /\ Batch \in Nat \ {0} /\ MaxFaults \in Nat

VARIABLES rows,      \* committed rows of event_outbox
          seq,       \* the last seq handed out
          clock,     \* events created
          pub,       \* per worker: the publish() under way
          poll,      \* per worker: the poller thread
          warm,      \* per worker: events only its history got
          fired,     \* per worker: events its poller dispatched, in order
          effects,   \* per event: how often local_only subscribers ran, anywhere
          faults,    \* failures so far
          sent,      \* ghost: rows ever committed
          late       \* ghost: <<w, e>>: e was committed after w had read past it

bus == <<pub, clock, seq>>
vars == <<rows, bus, poll, warm, fired, effects, faults, sent, late>>

Events == 1..MaxEvents
Row == [seq: Events, ev: Events, by: Workers]

NoPub == [pc |-> "idle", ev |-> 0, seq |-> 0]
\* last: the poller's cursor; top: the end of the batch it is dispatching;
\* born: _started_at; start: the first cursor; failed: some tick failed.
NewPoll == [pc |-> "new", last |-> 0, top |-> 0, batch |-> {},
            born |-> 0, start |-> 0, failed |-> FALSE]

Fault == faults < MaxFaults /\ faults' = faults + 1

-----------------------------------------------------------------------------
(***************************************************************************)
(* publish: the insert takes the next seq and becomes visible when it      *)
(* commits (SQLite has one writer, so there nothing comes between).        *)
(***************************************************************************)
Insert(w) ==
    /\ pub[w].pc = "idle" /\ poll[w].pc \notin {"new", "stopped"}
    /\ clock < MaxEvents
    /\ clock' = clock + 1
    /\ seq' = seq + 1
    /\ pub' = [pub EXCEPT ![w] = [pc |-> "insert", ev |-> clock', seq |-> seq']]
    /\ UNCHANGED <<rows, poll, warm, fired, effects, faults, sent, late>>

ReadPast(v, s) == poll[v].last > s \/ poll[v].top > s

\* _dispatch; skip_local_only leaves the side-effect subscribers out.
Dispatch(e, skip_local_only) ==
    effects' = IF skip_local_only THEN effects ELSE [effects EXCEPT ![e] = @ + 1]

\* The row is visible and the process calls its own subscribers.
Commit(w) ==
    LET r == [seq |-> pub[w].seq, ev |-> pub[w].ev, by |-> w] IN
    /\ pub[w].pc = "insert"
    /\ rows' = rows \cup {r}
    /\ sent' = sent \cup {r}
    /\ late' = late \cup {<<v, r.ev>> : v \in {u \in Workers : ReadPast(u, r.seq)}}
    /\ Dispatch(r.ev, FALSE)
    /\ pub' = [pub EXCEPT ![w] = NoPub]
    /\ UNCHANGED <<seq, clock, poll, warm, fired, faults>>

\* _persist_outbox swallows the error: only this worker will see the event.
PersistFails(w) ==
    /\ pub[w].pc = "insert" /\ Fault
    /\ Dispatch(pub[w].ev, FALSE)
    /\ pub' = [pub EXCEPT ![w] = NoPub]
    /\ UNCHANGED <<rows, seq, clock, poll, warm, fired, sent, late>>

-----------------------------------------------------------------------------
(***************************************************************************)
(* OutboxPoller.                                                           *)
(***************************************************************************)
Start(w) ==
    /\ poll[w].pc = "new"
    /\ poll' = [poll EXCEPT ![w].pc = "boot", ![w].born = clock]
    /\ UNCHANGED <<rows, bus, warm, fired, effects, faults, sent, late>>

MaxSeq == IF rows = {} THEN 0
          ELSE CHOOSE s \in {r.seq : r \in rows} : \A r \in rows : r.seq <= s

ReadStart(w) ==
    /\ poll[w].pc = "boot"
    /\ poll' = [poll EXCEPT ![w].pc = "tick", ![w].last = MaxSeq, ![w].start = MaxSeq]
    /\ UNCHANGED <<rows, bus, warm, fired, effects, faults, sent, late>>

\* The starting seq cannot be read: the thread returns and nothing restarts it.
Disable(w) ==
    /\ poll[w].pc = "boot" /\ Fault
    /\ poll' = [poll EXCEPT ![w].pc = "dead"]
    /\ UNCHANGED <<rows, bus, warm, fired, effects, sent, late>>

Unread(w) == {r \in rows : r.seq > poll[w].last}

\* The SELECT of _drain: in the order of seq, at most limit rows.
Select(w, limit) == {r \in Unread(w) : Cardinality({s \in Unread(w) : s.seq <= r.seq}) <= limit}

Take(w, batch) ==
    /\ poll[w].pc = "tick"
    /\ \E top \in batch :
         /\ \A r \in batch : r.seq <= top.seq
         /\ poll' = [poll EXCEPT ![w].pc = "drain", ![w].batch = batch, ![w].top = top.seq]
    /\ UNCHANGED <<rows, bus, warm, fired, effects, faults, sent, late>>

\* Mutants of Fetch: one row too many; only full batches.
FetchOver(w) == Take(w, Select(w, Batch + 1))
FetchFull(w) == Cardinality(Unread(w)) >= Batch /\ Take(w, Select(w, Batch))

\* _drain: the rows are selected ...
Fetch(w) == Take(w, Select(w, Batch))

Handle(w, skip_local_only, cutoff) ==
    /\ poll[w].pc = "drain"
    /\ \E r \in poll[w].batch :
         /\ \A s \in poll[w].batch : r.seq <= s.seq
         /\ poll' = [poll EXCEPT ![w].batch = @ \ {r}]
         /\ \/ r.by = w /\ UNCHANGED <<warm, fired, effects>>
            \/ /\ r.by # w /\ r.ev <= cutoff
               /\ warm' = [warm EXCEPT ![w] = @ \cup {r.ev}]
               /\ UNCHANGED <<fired, effects>>
            \/ /\ r.by # w /\ r.ev > cutoff
               /\ Dispatch(r.ev, skip_local_only)
               /\ fired' = [fired EXCEPT ![w] = Append(@, r.ev)]
               /\ UNCHANGED warm
    /\ UNCHANGED <<rows, bus, faults, sent, late>>

\* A mutant of Deliver: side effects on every worker.
DeliverAll(w) == Handle(w, FALSE, poll[w].born)

\* ... and the rows one by one.
Deliver(w) == Handle(w, TRUE, poll[w].born)

\* A mutant of Finish: the cursor is left where it was.
FinishBehind(w) ==
    /\ poll[w].pc = "drain" /\ poll[w].batch = {}
    /\ poll' = [poll EXCEPT ![w].pc = "tick", ![w].top = 0]
    /\ UNCHANGED <<rows, bus, warm, fired, effects, faults, sent, late>>

Finish(w) ==
    /\ poll[w].pc = "drain" /\ poll[w].batch = {}
    /\ poll' = [poll EXCEPT ![w].pc = "tick", ![w].last = poll[w].top, ![w].top = 0]
    /\ UNCHANGED <<rows, bus, warm, fired, effects, faults, sent, late>>

\* A mutant of TickFails: the cursor moves on all the same.
TickFailsAhead(w) ==
    /\ poll[w].pc = "drain" /\ Fault
    /\ poll' = [poll EXCEPT ![w].pc = "tick", ![w].batch = {}, ![w].failed = TRUE,
                            ![w].last = poll[w].top, ![w].top = 0]
    /\ UNCHANGED <<rows, bus, warm, fired, effects, sent, late>>

\* A payload or a callback raises one of _POLL_ERRORS out of _drain.
TickFails(w) ==
    /\ poll[w].pc = "drain" /\ Fault
    /\ poll' = [poll EXCEPT ![w].pc = "tick", ![w].batch = {}, ![w].failed = TRUE, ![w].top = 0]
    /\ UNCHANGED <<rows, bus, warm, fired, effects, sent, late>>

\* Any other exception ends the thread.
Die(w) ==
    /\ poll[w].pc = "drain" /\ Fault
    /\ poll' = [poll EXCEPT ![w].pc = "dead", ![w].batch = {}, ![w].top = 0]
    /\ UNCHANGED <<rows, bus, warm, fired, effects, sent, late>>

\* _maybe_prune: rows past retention go, whoever has not read them.
Prune(w, cutoff) ==
    /\ poll[w].pc = "tick"
    /\ rows' = {r \in rows : r.ev > cutoff}
    /\ rows' # rows
    /\ UNCHANGED <<bus, poll, warm, fired, effects, faults, sent, late>>

\* _stop_outbox_poller at shutdown: the process and all it holds are gone.
Stop(w) ==
    /\ poll[w].pc \in {"tick", "dead"} /\ pub[w].pc = "idle"
    /\ poll' = [poll EXCEPT ![w] = [NewPoll EXCEPT !.pc = "stopped"]]
    /\ warm' = [warm EXCEPT ![w] = {}]
    /\ fired' = [fired EXCEPT ![w] = <<>>]
    /\ UNCHANGED <<rows, bus, effects, faults, sent, late>>

-----------------------------------------------------------------------------
Init ==
    /\ rows = {} /\ seq = 0 /\ clock = 0
    /\ pub = [w \in Workers |-> NoPub]
    /\ poll = [w \in Workers |-> NewPoll]
    /\ warm = [w \in Workers |-> {}]
    /\ fired = [w \in Workers |-> <<>>]
    /\ effects = [e \in Events |-> 0]
    /\ faults = 0 /\ sent = {} /\ late = {}

Publishing(w) == Insert(w) \/ Commit(w) \/ PersistFails(w)
Polling(w) == ReadStart(w) \/ Fetch(w) \/ Deliver(w) \/ Finish(w)
Disturbing(w) == \/ Disable(w) \/ TickFails(w) \/ Die(w) \/ Stop(w)
                 \/ \E cutoff \in Events : Prune(w, cutoff)

Next == \E w \in Workers : Publishing(w) \/ Start(w) \/ Polling(w) \/ Disturbing(w)

Spec == Init /\ [][Next]_vars

\* The poller thread of a running worker is scheduled.
FairSpec == Spec /\ \A w \in Workers : WF_vars(Polling(w))

-----------------------------------------------------------------------------
\* Every variable has its type.
TypeOK ==
    /\ rows \subseteq sent /\ sent \subseteq Row
    /\ seq \in 0..MaxEvents /\ clock \in 0..MaxEvents
    /\ pub \in [Workers -> [pc: {"idle", "insert"}, ev: 0..MaxEvents, seq: 0..MaxEvents]]
    /\ \A w \in Workers :
         /\ poll[w].pc \in {"new", "boot", "tick", "drain", "dead", "stopped"}
         /\ poll[w].last \in 0..seq /\ poll[w].top \in 0..seq
         /\ poll[w].batch \subseteq Row /\ Cardinality(poll[w].batch) <= Batch
         /\ warm[w] \subseteq Events /\ fired[w] \in Seq(Events)
    /\ effects \in [Events -> Nat]
    /\ faults \in 0..MaxFaults /\ late \subseteq Workers \X Events

Saw(w, e) == \E k \in DOMAIN fired[w] : fired[w][k] = e

\* Side-effect subscribers run on the publishing worker and run once, whatever
\* is fetched again after a failed tick ("escalation Nx", event_bus.py:367).
SideEffectsOnce == \A e \in Events : effects[e] <= 1

\* The cursor passes no row undelivered, failed ticks included, unless the row
\* was committed after a later seq had been read or was pruned first.
NothingSkipped ==
    \A w \in Workers, r \in sent :
        /\ r.by # w /\ poll[w].start < r.seq /\ r.seq <= poll[w].last
        /\ ~Saw(w, r.ev) /\ r.ev \notin warm[w]
        => <<w, r.ev>> \in late \/ r \notin rows

\* Foreign events arrive once and in the order of their rows as long as no tick
\* of the poller failed, and subscribers are never called for what other workers
\* published before this process started, however late the row was committed
\* (event_bus.py:232).
InOrderOnce ==
    \A w \in Workers :
        /\ \A r \in sent : Saw(w, r.ev) => r.ev > poll[w].born
        /\ ~poll[w].failed =>
             \A r, s \in sent : \A i, j \in DOMAIN fired[w] :
                 i < j /\ fired[w][i] = r.ev /\ fired[w][j] = s.ev => r.seq < s.seq

Behind(w) == poll[w].pc \in {"tick", "drain"} /\ Unread(w) # {}

\* A poller that is behind reads to the end of the table, or ends: neither a
\* failed tick nor rows that vanish under it keep it where it is, and again and
\* again no poller is behind.
CatchesUp == []<>(\A w \in Workers : ~Behind(w))
=============================================================================
