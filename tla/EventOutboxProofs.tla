-------------------------- MODULE EventOutboxProofs --------------------------
(***************************************************************************)
(* Proofs about EventOutbox for any number of workers, events and faults   *)
(* and any batch size: type correctness, side effects that run once, a     *)
(* cursor that passes nothing undelivered, and delivery once, in order and *)
(* never from before the boot.                                             *)
(***************************************************************************)
EXTENDS EventOutbox, FiniteSetTheorems, SequenceTheorems, WellFoundedInduction, TLAPS

-----------------------------------------------------------------------------
(* The operators *)

\* A non-empty set of numbers up to n has a greatest element.
LEMMA Greatest ==
    ASSUME NEW n \in Nat, NEW S \in SUBSET (0..n), S # {}
    PROVE  \E m \in S : \A k \in S : k <= m
<1> DEFINE T == {i \in Nat : n - i \in S}
<1>1. T \subseteq Nat  OBVIOUS
<1>2. PICK s \in S : TRUE  OBVIOUS
<1>3. s \in 0..n /\ n - s \in Nat /\ n - (n - s) = s  OBVIOUS
<1>4. n - s \in T  BY <1>3
<1>5. \E x \in T : \A y \in T : ~(<<y, x>> \in OpToRel(<, Nat))
  BY <1>1, <1>4, NatLessThanWellFounded, WFMin
<1>6. PICK x \in T : \A y \in T : ~(y < x)
  BY <1>5 DEF OpToRel
<1>7. n - x \in S  OBVIOUS
<1>8. ASSUME NEW k \in S PROVE k <= n - x
  <2>1. k \in 0..n /\ n - k \in Nat /\ n - (n - k) = k  OBVIOUS
  <2>2. n - k \in T  BY <2>1
  <2>3. ~(n - k < x)  BY <2>2, <1>6
  <2> QED  BY <2>1, <2>3
<1> QED  BY <1>7, <1>8

\* The starting cursor is the seq of the last row, or 0.
LEMMA MaxSeqIs ==
    ASSUME rows \subseteq Row
    PROVE  \/ rows = {} /\ MaxSeq = 0
           \/ \E r \in rows : MaxSeq = r.seq
<1>1. CASE rows = {}  BY <1>1 DEF MaxSeq
<1>2. CASE rows # {}
  <2> DEFINE S == {r.seq : r \in rows}
  <2>1. MaxEvents \in Nat /\ S \in SUBSET (0..MaxEvents) /\ S # {}
    BY <1>2, OutboxAssumption DEF Row, Events
  <2>2. \E m \in S : \A k \in S : k <= m
    <3> HIDE DEF S
    <3> QED  BY <2>1, Greatest
  <2>3. \E m \in S : \A r \in rows : r.seq <= m  BY <2>2
  <2>4. MaxSeq = CHOOSE m \in S : \A r \in rows : r.seq <= m  BY <1>2 DEF MaxSeq
  <2>5. MaxSeq \in S  BY <2>3, <2>4
  <2> QED  BY <2>5
<1> QED  BY <1>1, <1>2

\* The rows selected are those up to the last of them, at most limit.
LEMMA SelectIs ==
    ASSUME IsFiniteSet(rows), rows \subseteq Row, NEW w \in Workers, poll[w].last \in Nat,
           NEW limit \in Nat,
           NEW top \in Select(w, limit), \A r \in Select(w, limit) : r.seq <= top.seq
    PROVE  /\ Select(w, limit) = {r \in Unread(w) : r.seq <= top.seq}
           /\ IsFiniteSet(Select(w, limit)) /\ Cardinality(Select(w, limit)) <= limit
<1> DEFINE UpTo(k) == {s \in Unread(w) : s.seq <= k}
<1>1. /\ top \in Unread(w) /\ Cardinality(UpTo(top.seq)) <= limit
      /\ \A r \in Unread(w) : r \in Select(w, limit) <=> Cardinality(UpTo(r.seq)) <= limit
      /\ Select(w, limit) \subseteq Unread(w)
  BY DEF Select
<1>2. IsFiniteSet(UpTo(top.seq))  BY FS_Subset DEF Unread
<1>3. \A r \in Unread(w) : r.seq \in Nat  BY OutboxAssumption DEF Unread, Row, Events
<1>4. ASSUME NEW r \in Unread(w), r.seq <= top.seq PROVE r \in Select(w, limit)
  <2>1. UpTo(r.seq) \in SUBSET UpTo(top.seq)  BY <1>1, <1>3, <1>4
  <2>2. /\ IsFiniteSet(UpTo(r.seq))
        /\ Cardinality(UpTo(r.seq)) <= Cardinality(UpTo(top.seq))
    <3> HIDE DEF UpTo
    <3> QED  BY <1>2, <2>1, FS_Subset
  <2>3. Cardinality(UpTo(r.seq)) \in Nat /\ Cardinality(UpTo(top.seq)) \in Nat
    <3> HIDE DEF UpTo
    <3> QED  BY <1>2, <2>2, FS_CardinalityType
  <2>4. Cardinality(UpTo(r.seq)) <= limit
    <3> HIDE DEF UpTo
    <3> QED  BY <1>1, <2>2, <2>3
  <2> QED  BY <1>1, <2>4
<1>5. Select(w, limit) = UpTo(top.seq)  BY <1>1, <1>4
<1> QED
  <2>1. IsFiniteSet(Select(w, limit)) /\ Cardinality(Select(w, limit)) <= limit
    <3> HIDE DEF UpTo
    <3> QED  BY <1>1, <1>2, <1>5
  <2> QED  BY <1>5, <2>1

\* What appending an event to a history does.
LEMMA AppendIs ==
    ASSUME NEW s \in Seq(Events), NEW e \in Events
    PROVE  /\ Append(s, e) \in Seq(Events)
           /\ DOMAIN s = 1..Len(s) /\ Len(s) \in Nat
           /\ DOMAIN Append(s, e) = 1..(Len(s) + 1)
           /\ \A k \in 1..Len(s) : Append(s, e)[k] = s[k]
           /\ Append(s, e)[Len(s) + 1] = e
           /\ \A k \in 1..Len(s) : s[k] \in Events
<1>1. Len(s) \in Nat /\ DOMAIN s = 1..Len(s) /\ s \in [1..Len(s) -> Events]  BY LenProperties
<1>2. Append(s, e) \in Seq(Events) /\ Len(Append(s, e)) = Len(s) + 1  OBVIOUS
<1>3. DOMAIN Append(s, e) = 1..(Len(s) + 1)  BY <1>2, LenProperties
<1>4. \A k \in 1..Len(s) : Append(s, e)[k] = s[k]  OBVIOUS
<1>5. Append(s, e)[Len(s) + 1] = e  OBVIOUS
<1> QED  BY <1>1, <1>2, <1>3, <1>4, <1>5

\* No batch is within the limit.
LEMMA EmptyBatch == IsFiniteSet({}) /\ Cardinality({}) <= Batch
<1>1. Cardinality({}) = 0 /\ IsFiniteSet({})  BY FS_EmptySet
<1>2. 0 <= Batch  BY OutboxAssumption
<1> QED  BY <1>1, <1>2

-----------------------------------------------------------------------------
(* The inductive invariant *)

Polls == [pc: {"new", "boot", "tick", "drain", "dead", "stopped"}, last: Nat, top: Nat,
          batch: SUBSET Row, born: Nat, start: Nat, failed: BOOLEAN]

\* The types, and: every event that is created takes the next seq.
Types ==
    /\ rows \subseteq sent /\ sent \subseteq Row /\ IsFiniteSet(rows)
    /\ clock \in 0..MaxEvents /\ seq = clock
    /\ pub \in [Workers -> [pc: {"idle", "insert"}, ev: 0..MaxEvents, seq: 0..MaxEvents]]
    /\ poll \in [Workers -> Polls]
    /\ warm \in [Workers -> SUBSET Events] /\ fired \in [Workers -> Seq(Events)]
    /\ effects \in [Events -> Nat]
    /\ faults \in 0..MaxFaults /\ late \subseteq Workers \X Events

\* Rows and publications under way have events of their own.
Numbered ==
    /\ \A r \in sent : r.seq = r.ev /\ r.ev <= clock
    /\ \A r, s \in sent : r.ev = s.ev => r = s
    /\ \A w \in Workers : pub[w].pc = "insert" =>
         /\ pub[w].seq = pub[w].ev /\ pub[w].ev \in 1..clock
         /\ \A r \in sent : r.ev # pub[w].ev
         /\ \A v \in Workers : pub[v].pc = "insert" /\ pub[v].ev = pub[w].ev => v = w

\* No side effect before the row is committed or the insert has failed.
Effects ==
    /\ \A e \in Events : effects[e] <= 1 /\ (e > clock => effects[e] = 0)
    /\ \A w \in Workers : pub[w].pc = "insert" => effects[pub[w].ev] = 0

\* The cursor and the end of the batch are seqs of rows, and the batch lies between.
Cursor(w) ==
    /\ poll[w].last = 0 \/ \E r \in sent : r.seq = poll[w].last
    /\ poll[w].top = 0 \/ \E r \in sent : r.seq = poll[w].top
    /\ poll[w].pc # "drain" => poll[w].top = 0 /\ poll[w].batch = {}
    /\ poll[w].pc \in {"new", "boot", "stopped"} => poll[w].last = 0 /\ fired[w] = <<>>
    /\ poll[w].batch \subseteq sent
    /\ \A r \in poll[w].batch : poll[w].last < r.seq /\ r.seq <= poll[w].top
    /\ IsFiniteSet(poll[w].batch) /\ Cardinality(poll[w].batch) <= Batch

Got(w, r) == Saw(w, r.ev) \/ r.ev \in warm[w] \/ <<w, r.ev>> \in late

\* Foreign rows the cursor or the batch has passed were handled or came late.
Passed(w) ==
    \A r \in rows :
        /\ r.by # w /\ poll[w].start < r.seq /\ r \notin poll[w].batch
        /\ r.seq <= poll[w].last \/ r.seq <= poll[w].top
        => Got(w, r)

\* What the subscribers of w have seen: newer than its boot and, up to a failed
\* tick, increasing and before what is left of the batch.
Order(w) ==
    /\ \A k \in DOMAIN fired[w] : fired[w][k] > poll[w].born
    /\ ~poll[w].failed =>
         /\ \A i, j \in DOMAIN fired[w] : i < j => fired[w][i] < fired[w][j]
         /\ poll[w].pc = "tick" => \A k \in DOMAIN fired[w] : fired[w][k] <= poll[w].last
         /\ poll[w].pc = "drain" => \A k \in DOMAIN fired[w] :
              /\ fired[w][k] <= poll[w].top
              /\ \A r \in poll[w].batch : fired[w][k] < r.ev

Pollers == \A w \in Workers : Cursor(w) /\ Passed(w) /\ Order(w)

IInv == Types /\ Numbered /\ Effects /\ Pollers

\* A worker whose poller, history and dispatches do not change keeps its part
\* of the invariant while rows vanish and late rows are recorded.
LEMMA Kept ==
    ASSUME NEW v \in Workers, Cursor(v), Passed(v), Order(v),
           poll'[v] = poll[v], fired'[v] = fired[v], warm'[v] = warm[v],
           rows' \subseteq rows, sent \subseteq sent', late \subseteq late'
    PROVE  Cursor(v)' /\ Passed(v)' /\ Order(v)'
<1>1. Cursor(v)'  BY DEF Cursor
<1>2. Passed(v)'  BY DEF Passed, Got, Saw
<1>3. Order(v)'  BY DEF Order
<1> QED  BY <1>1, <1>2, <1>3

LEMMA InitInv == Init => IInv
<1> SUFFICES ASSUME Init PROVE IInv  OBVIOUS
<1> USE OutboxAssumption DEF Init
<1>1. Types
  <2>1. poll \in [Workers -> Polls]  BY DEF NewPoll, Polls
  <2>2. fired \in [Workers -> Seq(Events)]  BY EmptySeq
  <2> QED  BY <2>1, <2>2, FS_EmptySet DEF Types, NoPub
<1>2. Numbered  BY DEF Numbered, NoPub
<1>3. Effects  BY DEF Effects, NoPub
<1>4. ASSUME NEW w \in Workers PROVE Cursor(w) /\ Passed(w) /\ Order(w)
  <2>0. poll[w] = NewPoll /\ fired[w] = <<>>  OBVIOUS
  <2>1. Cursor(w)
    <3>1. IsFiniteSet(poll[w].batch) /\ Cardinality(poll[w].batch) <= Batch
      <4>1. poll[w].batch = {}  BY <2>0 DEF NewPoll
      <4> QED  BY <4>1, EmptyBatch
    <3> QED  BY <2>0, <3>1 DEF Cursor, NewPoll
  <2>2. Passed(w)  BY DEF Passed
  <2>3. Order(w)  BY DEF Order, NewPoll
  <2> QED  BY <2>1, <2>2, <2>3
<1> QED  BY <1>1, <1>2, <1>3, <1>4 DEF IInv, Pollers

USE DEF bus

\* An insert takes an event and a seq that nobody has.
LEMMA InsertInv ==
    ASSUME IInv, NEW w \in Workers, Insert(w)
    PROVE  IInv'
<1> USE OutboxAssumption DEF IInv, Insert
<1>1. Types'  BY DEF Types
<1>2. Numbered'
  <2>1. clock \in Nat /\ clock' = clock + 1  BY DEF Types
  <2>2. \A r \in sent : r.ev \in Nat /\ r.ev <= clock  BY DEF Types, Numbered, Row, Events
  <2>3. \A v \in Workers : pub'[v] = IF v = w THEN [pc |-> "insert", ev |-> clock + 1, seq |-> clock + 1] ELSE pub[v]
    BY DEF Types
  <2>4. \A v \in Workers : pub[v].pc = "insert" => pub[v].ev \in 1..clock  BY DEF Numbered
  <2> QED  BY <2>1, <2>2, <2>3, <2>4 DEF Numbered
<1>3. Effects'
  <2>1. clock \in Nat /\ clock + 1 \in Events  BY DEF Types, Events
  <2>2. effects[clock + 1] = 0  BY <2>1 DEF Effects
  <2>3. \A v \in Workers : pub'[v] = IF v = w THEN [pc |-> "insert", ev |-> clock + 1, seq |-> clock + 1] ELSE pub[v]
    BY DEF Types
  <2> QED  BY <2>1, <2>2, <2>3 DEF Effects, Events
<1>4. Pollers'  BY Kept DEF Pollers
<1> QED  BY <1>1, <1>2, <1>3, <1>4

\* The side effects of an event whose insert ends had not run.
LEMMA EndsInsert ==
    ASSUME IInv, NEW w \in Workers, pub[w].pc = "insert",
           effects' = [effects EXCEPT ![pub[w].ev] = @ + 1],
           pub' = [pub EXCEPT ![w] = NoPub], clock' = clock
    PROVE  /\ Effects'
           /\ effects' \in [Events -> Nat]
           /\ pub' \in [Workers -> [pc: {"idle", "insert"}, ev: 0..MaxEvents, seq: 0..MaxEvents]]
<1> USE OutboxAssumption DEF IInv
<1>1. pub[w].ev \in 1..clock /\ pub[w].ev \in Events /\ clock \in Nat
  BY DEF Numbered, Types, Events
<1>2. \A v \in Workers : pub'[v] = IF v = w THEN NoPub ELSE pub[v]  BY DEF Types
<1>3. \A e \in Events : effects'[e] = IF e = pub[w].ev THEN effects[e] + 1 ELSE effects[e]
  BY DEF Types
<1>4. effects[pub[w].ev] = 0  BY DEF Effects
<1>5. \A e \in Events : effects'[e] <= 1 /\ (e > clock' => effects'[e] = 0)
  BY <1>1, <1>3, <1>4 DEF Effects, Events
<1>6. ASSUME NEW v \in Workers, pub'[v].pc = "insert" PROVE effects'[pub'[v].ev] = 0
  <2>1. v # w /\ pub'[v] = pub[v]  BY <1>2, <1>6 DEF NoPub
  <2>2. pub[v].ev # pub[w].ev /\ pub[v].ev \in 1..clock /\ pub[v].ev \in Events
    BY <2>1, <1>6 DEF Numbered, Types, Events
  <2> QED  BY <1>3, <1>6, <2>1, <2>2 DEF Effects
<1>7. effects' \in [Events -> Nat]  BY <1>1 DEF Types
<1> QED  BY <1>5, <1>6, <1>7 DEF Effects, Types, NoPub

LEMMA PersistFailsInv ==
    ASSUME IInv, NEW w \in Workers, PersistFails(w)
    PROVE  IInv'
<1> USE OutboxAssumption DEF IInv, PersistFails, Fault, Dispatch
<1>1. /\ Effects' /\ effects' \in [Events -> Nat]
      /\ pub' \in [Workers -> [pc: {"idle", "insert"}, ev: 0..MaxEvents, seq: 0..MaxEvents]]
  BY EndsInsert
<1>2. Types'  BY <1>1 DEF Types
<1>3. Numbered'
  <2>1. \A v \in Workers : pub'[v] = IF v = w THEN NoPub ELSE pub[v]  BY DEF Types
  <2> QED  BY <2>1 DEF Numbered, NoPub
<1>4. Pollers'  BY Kept DEF Pollers
<1> QED  BY <1>1, <1>2, <1>3, <1>4

\* A row that becomes visible is new, and late for the pollers past its seq.
LEMMA CommitInv ==
    ASSUME IInv, NEW w \in Workers, Commit(w)
    PROVE  IInv'
<1> USE OutboxAssumption DEF IInv
<1> DEFINE r == [seq |-> pub[w].seq, ev |-> pub[w].ev, by |-> w]
<1>0. /\ pub[w].pc = "insert" /\ rows' = rows \cup {r} /\ sent' = sent \cup {r}
      /\ late' = late \cup {<<v, r.ev>> : v \in {u \in Workers : ReadPast(u, r.seq)}}
      /\ effects' = [effects EXCEPT ![pub[w].ev] = @ + 1]
      /\ pub' = [pub EXCEPT ![w] = NoPub]
      /\ UNCHANGED <<seq, clock, poll, warm, fired, faults>>
  BY DEF Commit, Dispatch
<1>1. /\ Effects' /\ effects' \in [Events -> Nat]
      /\ pub' \in [Workers -> [pc: {"idle", "insert"}, ev: 0..MaxEvents, seq: 0..MaxEvents]]
  BY <1>0, EndsInsert
<1>2. /\ r \in Row /\ r.seq = pub[w].ev /\ r.ev = pub[w].ev /\ pub[w].ev \in 1..clock
      /\ clock \in Nat /\ \A s \in sent : s.ev # r.ev /\ s.seq # r.seq
  BY <1>0 DEF Numbered, Types, Row, Events
<1> HIDE DEF r
<1>3. Types'
  <2>1. IsFiniteSet(rows')  BY <1>0, FS_AddElement DEF Types
  <2>2. late' \subseteq Workers \X Events  BY <1>0, <1>2 DEF Types, Row
  <2> QED  BY <1>0, <1>1, <1>2, <2>1, <2>2 DEF Types
<1>4. Numbered'
  <2>1. \A v \in Workers : pub'[v] = IF v = w THEN NoPub ELSE pub[v]  BY <1>0 DEF Types
  <2>2. \A s \in sent' : s.seq = s.ev /\ s.ev <= clock'  BY <1>0, <1>2 DEF Numbered
  <2>3. \A s, t \in sent' : s.ev = t.ev => s = t  BY <1>0, <1>2 DEF Numbered
  <2>4. ASSUME NEW v \in Workers, pub'[v].pc = "insert"
        PROVE  \A s \in sent' : s.ev # pub'[v].ev
    <3>1. v # w /\ pub'[v] = pub[v]  BY <2>1, <2>4 DEF NoPub
    <3>2. pub[v].ev # pub[w].ev  BY <1>0, <2>4, <3>1 DEF Numbered
    <3> QED  BY <1>0, <1>2, <2>4, <3>1, <3>2 DEF Numbered
  <2> QED  BY <1>0, <2>1, <2>2, <2>3, <2>4 DEF Numbered, NoPub
<1>5. ASSUME NEW v \in Workers PROVE Cursor(v)' /\ Passed(v)' /\ Order(v)'
  <2>1. Cursor(v) /\ Passed(v) /\ Order(v)  BY DEF Pollers
  <2>2. Cursor(v)'  BY <1>0, <2>1 DEF Cursor
  <2>3. Order(v)'  BY <1>0, <2>1 DEF Order
  <2>4. ASSUME NEW s \in rows', s.by # v, poll[v].start < s.seq, s \notin poll[v].batch,
               s.seq <= poll[v].last \/ s.seq <= poll[v].top
        PROVE  Got(v, s)'
    <3>1. CASE s \in rows  BY <1>0, <2>1, <2>4, <3>1 DEF Passed, Got, Saw
    <3>2. CASE s = r
      <4>1. r.seq \in Nat /\ r.seq # 0  BY <1>2
      <4>2. poll[v].last \in Nat /\ poll[v].top \in Nat  BY DEF Types, Polls
      <4>3. poll[v].last # r.seq /\ poll[v].top # r.seq  BY <1>2, <2>1, <4>1 DEF Cursor
      <4>4. ReadPast(v, r.seq)  BY <2>4, <3>2, <4>1, <4>2, <4>3 DEF ReadPast
      <4> QED  BY <1>0, <3>2, <4>4 DEF Got
    <3> QED  BY <1>0, <3>1, <3>2
  <2>5. Passed(v)'  BY <1>0, <2>4 DEF Passed
  <2> QED  BY <2>2, <2>3, <2>5
<1> QED  BY <1>1, <1>3, <1>4, <1>5 DEF Pollers

LEMMA PruneInv ==
    ASSUME IInv, NEW w \in Workers, NEW cutoff \in Events, Prune(w, cutoff)
    PROVE  IInv'
<1> USE DEF IInv, Prune
<1>1. rows' \subseteq rows  OBVIOUS
<1>2. Types'
  <2>1. IsFiniteSet(rows')  BY <1>1, FS_Subset DEF Types
  <2> QED  BY <1>1, <2>1 DEF Types
<1>3. Numbered' /\ Effects'  BY DEF Numbered, Effects
<1>4. Pollers'  BY <1>1, Kept DEF Pollers
<1> QED  BY <1>2, <1>3, <1>4

\* A step of one poller changes nothing of the others, nor of the publications.
LEMMA OtherPollers ==
    ASSUME IInv, NEW w \in Workers, NEW p, poll' = [poll EXCEPT ![w] = p],
           \A v \in Workers : v # w => warm'[v] = warm[v] /\ fired'[v] = fired[v],
           UNCHANGED <<rows, bus, effects, sent, late>>,
           Cursor(w)', Passed(w)', Order(w)'
    PROVE  Numbered' /\ Effects' /\ Pollers'
<1>1. ASSUME NEW v \in Workers, v # w PROVE Cursor(v)' /\ Passed(v)' /\ Order(v)'
  BY <1>1, Kept DEF IInv, Pollers, Types
<1>2. Pollers'  BY <1>1 DEF Pollers
<1> QED  BY <1>2 DEF IInv, Numbered, Effects

\* Before the first tick: the boot, the starting cursor, the thread that gives up.
LEMMA BootInv ==
    ASSUME IInv, NEW w \in Workers, Start(w) \/ ReadStart(w) \/ Disable(w)
    PROVE  IInv'
<1> USE OutboxAssumption DEF IInv
<1>0. Cursor(w) /\ Passed(w) /\ Order(w) /\ poll[w] \in Polls  BY DEF Pollers, Types
<1>1. /\ poll[w].pc \in {"new", "boot"} /\ poll[w].last = 0 /\ poll[w].top = 0
      /\ poll[w].batch = {} /\ fired[w] = <<>>
  BY <1>0 DEF Cursor, Start, ReadStart, Disable
<1>m. MaxSeq \in Nat /\ (MaxSeq = 0 \/ \E r \in sent : r.seq = MaxSeq)
  BY MaxSeqIs DEF Types, Row, Events
<1>2. \E p \in Polls :
        /\ poll' = [poll EXCEPT ![w] = p] /\ p.top = 0 /\ p.batch = {}
        /\ \/ p.last = 0
           \/ p.pc = "tick" /\ p.last = MaxSeq /\ p.start = MaxSeq
  <2>1. CASE Start(w)
    <3>1. poll' = [poll EXCEPT ![w] = [poll[w] EXCEPT !.pc = "boot", !.born = clock]]
      BY <2>1 DEF Start, Types
    <3>2. [poll[w] EXCEPT !.pc = "boot", !.born = clock] \in Polls
      <4>1. clock \in Nat  BY DEF Types
      <4> QED  BY <1>0, <4>1 DEF Polls
    <3> QED  BY <1>1, <3>1, <3>2 DEF Polls
  <2>2. CASE ReadStart(w)
    <3>1. poll' = [poll EXCEPT ![w] = [poll[w] EXCEPT !.pc = "tick", !.last = MaxSeq, !.start = MaxSeq]]
      BY <2>2 DEF ReadStart, Types
    <3>2. [poll[w] EXCEPT !.pc = "tick", !.last = MaxSeq, !.start = MaxSeq] \in Polls
      BY <1>0, <1>m DEF Polls, Types
    <3> QED  BY <1>0, <1>1, <3>1, <3>2 DEF Polls
  <2>3. CASE Disable(w)
    <3>1. poll' = [poll EXCEPT ![w] = [poll[w] EXCEPT !.pc = "dead"]]
      BY <2>3 DEF Disable, Types
    <3>2. [poll[w] EXCEPT !.pc = "dead"] \in Polls  BY <1>0 DEF Polls, Types
    <3> QED  BY <1>1, <3>1, <3>2 DEF Polls
  <2> QED  BY <2>1, <2>2, <2>3
<1>3. /\ UNCHANGED <<rows, bus, warm, fired, effects, sent, late>> /\ faults' \in 0..MaxFaults
  BY DEF Start, ReadStart, Disable, Fault, Types
<1>4. PICK p \in Polls :
        /\ poll' = [poll EXCEPT ![w] = p] /\ p.top = 0 /\ p.batch = {}
        /\ \/ p.last = 0
           \/ p.pc = "tick" /\ p.last = MaxSeq /\ p.start = MaxSeq
  BY <1>2
<1>5. poll'[w] = p  BY <1>4 DEF Types
<1>6. Types'  BY <1>3, <1>4 DEF Types
<1>7. Cursor(w)'
  <2>1. IsFiniteSet(p.batch) /\ Cardinality(p.batch) <= Batch  BY <1>4, EmptyBatch
  <2> QED  BY <1>1, <1>3, <1>4, <1>5, <1>m, <2>1 DEF Cursor
<1>8. Passed(w)'
  <2>1. \A r \in rows : r.seq \in Nat /\ r.seq > 0  BY DEF Types, Row, Events
  <2>2. \A r \in rows : p.start < r.seq => ~(r.seq <= p.last) /\ ~(r.seq <= p.top)
    BY <1>4, <1>m, <2>1
  <2> QED  BY <1>3, <1>5, <2>2 DEF Passed
<1>9. Order(w)'  BY <1>1, <1>3, <1>5 DEF Order
<1> QED  BY <1>3, <1>4, <1>6, <1>7, <1>8, <1>9, OtherPollers

\* The batch holds every unread row up to its last one.
LEMMA FetchInv ==
    ASSUME IInv, NEW w \in Workers, Fetch(w)
    PROVE  IInv'
<1> USE OutboxAssumption DEF IInv
<1>0. Cursor(w) /\ Passed(w) /\ Order(w) /\ poll[w] \in Polls  BY DEF Pollers, Types
<1> DEFINE batch == Select(w, Batch)
<1>1. PICK top \in batch :
        /\ poll[w].pc = "tick" /\ \A r \in batch : r.seq <= top.seq
        /\ poll' = [poll EXCEPT ![w] = [poll[w] EXCEPT !.pc = "drain", !.batch = batch, !.top = top.seq]]
        /\ UNCHANGED <<rows, bus, warm, fired, effects, faults, sent, late>>
  BY DEF Fetch, Take, Types
<1> DEFINE p == [poll[w] EXCEPT !.pc = "drain", !.batch = batch, !.top = top.seq]
<1>2. /\ batch = {r \in Unread(w) : r.seq <= top.seq}
      /\ IsFiniteSet(batch) /\ Cardinality(batch) <= Batch
  <2>1. poll[w].last \in Nat /\ IsFiniteSet(rows) /\ rows \subseteq Row /\ Batch \in Nat
    BY <1>0 DEF Polls, Types
  <2> QED  BY <1>1, <2>1, SelectIs
<1> HIDE DEF batch
<1>3. /\ batch \subseteq rows /\ rows \subseteq sent /\ top \in rows
      /\ \A r \in rows : r \in batch <=> poll[w].last < r.seq /\ r.seq <= top.seq
      /\ \A r \in rows : r.seq \in Nat /\ r.seq = r.ev
      /\ poll[w].last \in Nat
  <2>1. poll[w].last \in Nat  BY <1>0 DEF Polls
  <2>2. rows \subseteq sent /\ \A r \in rows : r.seq \in Nat /\ r.seq = r.ev
    BY DEF Types, Row, Events, Numbered
  <2>3. \A r : r \in Unread(w) <=> r \in rows /\ poll[w].last < r.seq
    BY <2>1, <2>2 DEF Unread
  <2> QED  BY <1>1, <1>2, <2>1, <2>2, <2>3
<1>4. p \in Polls  BY <1>0, <1>3 DEF Polls, Types
<1>5. /\ poll' = [poll EXCEPT ![w] = p] /\ poll'[w] = p
      /\ p.pc = "drain" /\ p.batch = batch /\ p.top = top.seq /\ p.last = poll[w].last
      /\ p.start = poll[w].start /\ p.born = poll[w].born /\ p.failed = poll[w].failed
  BY <1>0, <1>1 DEF Types, Polls
<1> HIDE DEF p
<1>6. Types'  BY <1>1, <1>4, <1>5 DEF Types
<1>7. Cursor(w)'  BY <1>0, <1>1, <1>2, <1>3, <1>5 DEF Cursor
<1>8. Passed(w)'
  <2>1. ASSUME NEW r \in rows, r.by # w, p.start < r.seq, r \notin batch,
               r.seq <= p.last \/ r.seq <= p.top
        PROVE  Got(w, r)
    <3>1. r.seq <= poll[w].last /\ r \notin poll[w].batch
      BY <1>0, <1>1, <1>3, <1>5, <2>1 DEF Cursor
    <3> QED  BY <1>0, <1>5, <2>1, <3>1 DEF Passed
  <2> QED  BY <1>1, <1>5, <2>1 DEF Passed, Got, Saw
<1>9. Order(w)'
  <2>1. \A k \in DOMAIN fired[w] : fired[w][k] \in Nat
    BY LenProperties DEF Types, Events
  <2>2. ASSUME ~p.failed, NEW k \in DOMAIN fired[w]
        PROVE  fired[w][k] <= top.seq /\ \A r \in batch : fired[w][k] < r.ev
    <3>1. fired[w][k] <= poll[w].last  BY <1>0, <1>1, <1>5, <2>2 DEF Order
    <3>2. poll[w].last < top.seq  BY <1>1, <1>3
    <3> QED  BY <1>3, <2>1, <3>1, <3>2
  <2> QED  BY <1>0, <1>1, <1>5, <2>2 DEF Order
<1> QED  BY <1>1, <1>5, <1>6, <1>7, <1>8, <1>9, OtherPollers

\* The first row of the batch is handled, skipped by its publisher.
LEMMA DeliverInv ==
    ASSUME IInv, NEW w \in Workers, Deliver(w)
    PROVE  IInv'
<1> USE OutboxAssumption DEF IInv
<1>0. Cursor(w) /\ Passed(w) /\ Order(w) /\ poll[w] \in Polls  BY DEF Pollers, Types
<1>1. PICK r \in poll[w].batch :
        /\ poll[w].pc = "drain" /\ \A s \in poll[w].batch : r.seq <= s.seq
        /\ poll' = [poll EXCEPT ![w] = [poll[w] EXCEPT !.batch = poll[w].batch \ {r}]]
        /\ \/ r.by = w /\ UNCHANGED <<warm, fired>>
           \/ warm' = [warm EXCEPT ![w] = warm[w] \cup {r.ev}] /\ UNCHANGED fired
           \/ /\ r.ev > poll[w].born /\ UNCHANGED warm
              /\ fired' = [fired EXCEPT ![w] = Append(fired[w], r.ev)]
        /\ UNCHANGED <<rows, bus, effects, faults, sent, late>>
  BY DEF Deliver, Handle, Dispatch, Types
<1> DEFINE p == [poll[w] EXCEPT !.batch = poll[w].batch \ {r}]
<1>2. p \in Polls  BY <1>0 DEF Polls
<1>3. /\ poll' = [poll EXCEPT ![w] = p] /\ poll'[w] = p
      /\ p.pc = poll[w].pc /\ p.batch = poll[w].batch \ {r} /\ p.top = poll[w].top
      /\ p.last = poll[w].last /\ p.start = poll[w].start /\ p.born = poll[w].born
      /\ p.failed = poll[w].failed
  BY <1>0, <1>1 DEF Types, Polls
<1> HIDE DEF p
<1>4. /\ r \in sent /\ r.ev \in Events /\ r.seq = r.ev /\ r.seq <= poll[w].top
      /\ poll[w].top \in Nat /\ poll[w].last \in Nat /\ poll[w].born \in Nat
      /\ \A s \in poll[w].batch : s \in sent /\ s.ev \in Nat /\ s.seq = s.ev /\ (s # r => r.ev < s.ev)
  <2>1. poll[w].top \in Nat /\ poll[w].last \in Nat /\ poll[w].born \in Nat  BY <1>0 DEF Polls
  <2>2. \A s \in sent : s.ev \in Events /\ s.ev \in Nat /\ s.seq = s.ev
    BY DEF Types, Numbered, Row, Events
  <2>3. poll[w].batch \subseteq sent /\ r.seq <= poll[w].top  BY <1>0, <1>1 DEF Cursor
  <2>4. \A s \in sent : s.ev = r.ev => s = r  BY <1>1, <2>3 DEF Numbered
  <2> QED  BY <1>1, <2>1, <2>2, <2>3, <2>4
<1>5. /\ fired[w] \in Seq(Events) /\ Append(fired[w], r.ev) \in Seq(Events)
      /\ \A v \in Workers : v # w => warm'[v] = warm[v] /\ fired'[v] = fired[v]
  BY <1>1, <1>4, AppendIs DEF Types
<1>6. Types'
  <2>1. warm' \in [Workers -> SUBSET Events]
    <3>1. warm[w] \cup {r.ev} \in SUBSET Events  BY <1>4 DEF Types
    <3>2. warm' = warm \/ warm' = [warm EXCEPT ![w] = warm[w] \cup {r.ev}]  BY <1>1
    <3> QED  BY <3>1, <3>2 DEF Types
  <2>2. fired' \in [Workers -> Seq(Events)]  BY <1>1, <1>5 DEF Types
  <2> QED  BY <1>1, <1>2, <1>3, <2>1, <2>2 DEF Types
<1>7. Cursor(w)'
  <2>1. IsFiniteSet(p.batch) /\ Cardinality(p.batch) <= Cardinality(poll[w].batch)
    BY <1>0, <1>3, FS_Subset DEF Cursor
  <2>2. Cardinality(p.batch) \in Nat /\ Cardinality(poll[w].batch) \in Nat
    BY <1>0, <2>1, FS_CardinalityType DEF Cursor
  <2>3. Cardinality(p.batch) <= Batch  BY <1>0, <2>1, <2>2 DEF Cursor
  <2> QED  BY <1>0, <1>1, <1>3, <2>1, <2>3 DEF Cursor
<1>8. Passed(w)'
  <2>1. ASSUME NEW s \in rows, s.by # w, p.start < s.seq, s \notin p.batch,
               s.seq <= p.last \/ s.seq <= p.top
        PROVE  Got(w, s)'
    <3>1. ASSUME Saw(w, s.ev) PROVE Saw(w, s.ev)'
      <4>1. PICK k \in DOMAIN fired[w] : fired[w][k] = s.ev  BY <3>1 DEF Saw
      <4>2. k \in DOMAIN fired'[w] /\ fired'[w][k] = s.ev
        <5>1. CASE fired' = fired  BY <4>1, <5>1
        <5>2. CASE fired' = [fired EXCEPT ![w] = Append(fired[w], r.ev)]
          <6>1. /\ fired'[w] = Append(fired[w], r.ev) /\ Len(fired[w]) \in Nat
                /\ DOMAIN fired[w] = 1..Len(fired[w])
                /\ DOMAIN Append(fired[w], r.ev) = 1..(Len(fired[w]) + 1)
                /\ \A i \in 1..Len(fired[w]) : Append(fired[w], r.ev)[i] = fired[w][i]
            BY <1>4, <1>5, <5>2, AppendIs DEF Types
          <6> QED  BY <4>1, <6>1
        <5> QED  BY <1>1, <5>1, <5>2
      <4> QED  BY <4>2 DEF Saw
    <3>2. CASE s # r
      <4>1. Got(w, s)  BY <1>0, <1>3, <2>1, <3>2 DEF Passed
      <4>2. warm[w] \subseteq warm'[w]  BY <1>1 DEF Types
      <4> QED  BY <1>1, <3>1, <4>1, <4>2 DEF Got
    <3>3. CASE s = r
      <4>1. CASE warm' = [warm EXCEPT ![w] = warm[w] \cup {r.ev}]
        BY <3>3, <4>1 DEF Got, Types
      <4>2. CASE fired' = [fired EXCEPT ![w] = Append(fired[w], r.ev)]
        <5>1. /\ fired'[w] = Append(fired[w], r.ev)
              /\ Len(fired[w]) + 1 \in DOMAIN Append(fired[w], r.ev)
              /\ Append(fired[w], r.ev)[Len(fired[w]) + 1] = r.ev
          BY <1>4, <1>5, <4>2, AppendIs DEF Types
        <5>2. Saw(w, r.ev)'  BY <5>1 DEF Saw
        <5> QED  BY <3>3, <5>2 DEF Got
      <4> QED  BY <1>1, <2>1, <3>3, <4>1, <4>2
    <3> QED  BY <3>2, <3>3
  <2> QED  BY <1>1, <1>3, <2>1 DEF Passed
<1>9. Order(w)'
  <2>1. CASE UNCHANGED fired  BY <1>0, <1>1, <1>3, <2>1 DEF Order
  <2>2. CASE fired' = [fired EXCEPT ![w] = Append(fired[w], r.ev)] /\ r.ev > poll[w].born
    <3> DEFINE n == Len(fired[w])
    <3>1. /\ fired'[w] = Append(fired[w], r.ev) /\ n \in Nat
          /\ DOMAIN fired[w] = 1..n /\ DOMAIN fired'[w] = 1..(n + 1)
          /\ \A k \in 1..n : fired'[w][k] = fired[w][k] /\ fired[w][k] \in Nat
          /\ fired'[w][n + 1] = r.ev /\ r.ev \in Nat
      BY <1>4, <1>5, <2>2, AppendIs DEF Types, Events
    <3> HIDE DEF n
    <3>2. \A k \in 1..(n + 1) : k \in 1..n \/ k = n + 1  BY <3>1
    <3>3. \A k \in 1..(n + 1) : fired'[w][k] > p.born
      BY <1>0, <1>3, <2>2, <3>1, <3>2 DEF Order
    <3>4. ASSUME ~p.failed PROVE
          /\ \A i, j \in 1..(n + 1) : i < j => fired'[w][i] < fired'[w][j]
          /\ \A k \in 1..(n + 1) : fired'[w][k] <= p.top /\ \A s \in p.batch : fired'[w][k] < s.ev
      <4>1. \A k \in 1..n : /\ fired[w][k] <= poll[w].top
                            /\ \A s \in poll[w].batch : fired[w][k] < s.ev
        BY <1>0, <1>1, <1>3, <3>1, <3>4 DEF Order
      <4>2. \A i, j \in 1..n : i < j => fired[w][i] < fired[w][j]
        BY <1>0, <1>3, <3>1, <3>4 DEF Order
      <4>3. \A i, j \in 1..(n + 1) : i < j => fired'[w][i] < fired'[w][j]
        BY <3>1, <3>2, <4>1, <4>2
      <4> QED  BY <1>3, <1>4, <3>1, <3>2, <4>1, <4>3
    <3> QED  BY <1>1, <1>3, <3>1, <3>3, <3>4 DEF Order
  <2> QED  BY <1>1, <2>1, <2>2
<1> QED  BY <1>1, <1>3, <1>5, <1>6, <1>7, <1>8, <1>9, OtherPollers

\* The end of a batch, reached or not: only the end of a drain moves the cursor.
LEMMA EndBatchInv ==
    ASSUME IInv, NEW w \in Workers, Finish(w) \/ TickFails(w) \/ Die(w)
    PROVE  IInv'
<1> USE OutboxAssumption DEF IInv
<1>0. Cursor(w) /\ Passed(w) /\ Order(w) /\ poll[w] \in Polls  BY DEF Pollers, Types
<1>1. /\ UNCHANGED <<rows, bus, warm, fired, effects, sent, late>> /\ faults' \in 0..MaxFaults
      /\ poll[w].pc = "drain"
  BY DEF Finish, TickFails, Die, Fault, Types
<1>2. \E p \in Polls :
        /\ poll' = [poll EXCEPT ![w] = p] /\ p.batch = {} /\ p.top = 0
        /\ p.start = poll[w].start /\ p.born = poll[w].born
        /\ \/ p.last = poll[w].top /\ poll[w].batch = {} /\ p.pc = "tick" /\ p.failed = poll[w].failed
           \/ p.last = poll[w].last /\ p.pc = "tick" /\ p.failed
           \/ p.last = poll[w].last /\ p.pc = "dead" /\ p.failed = poll[w].failed
  <2>1. CASE Finish(w)
    <3>1. poll' = [poll EXCEPT ![w] = [poll[w] EXCEPT !.pc = "tick", !.last = poll[w].top, !.top = 0]]
      BY <2>1 DEF Finish, Types
    <3>2. [poll[w] EXCEPT !.pc = "tick", !.last = poll[w].top, !.top = 0] \in Polls
      BY <1>0 DEF Polls
    <3> QED  BY <1>0, <2>1, <3>1, <3>2 DEF Polls, Finish
  <2>2. CASE TickFails(w)
    <3>1. poll' = [poll EXCEPT ![w] = [poll[w] EXCEPT !.pc = "tick", !.batch = {}, !.failed = TRUE, !.top = 0]]
      BY <2>2 DEF TickFails, Types
    <3>2. [poll[w] EXCEPT !.pc = "tick", !.batch = {}, !.failed = TRUE, !.top = 0] \in Polls
      BY <1>0 DEF Polls
    <3> QED  BY <1>0, <3>1, <3>2 DEF Polls
  <2>3. CASE Die(w)
    <3>1. poll' = [poll EXCEPT ![w] = [poll[w] EXCEPT !.pc = "dead", !.batch = {}, !.top = 0]]
      BY <2>3 DEF Die, Types
    <3>2. [poll[w] EXCEPT !.pc = "dead", !.batch = {}, !.top = 0] \in Polls
      BY <1>0 DEF Polls
    <3> QED  BY <1>0, <3>1, <3>2 DEF Polls
  <2> QED  BY <2>1, <2>2, <2>3
<1>3. PICK p \in Polls :
        /\ poll' = [poll EXCEPT ![w] = p] /\ p.batch = {} /\ p.top = 0
        /\ p.start = poll[w].start /\ p.born = poll[w].born
        /\ \/ p.last = poll[w].top /\ poll[w].batch = {} /\ p.pc = "tick" /\ p.failed = poll[w].failed
           \/ p.last = poll[w].last /\ p.pc = "tick" /\ p.failed
           \/ p.last = poll[w].last /\ p.pc = "dead" /\ p.failed = poll[w].failed
  BY <1>2
<1>4. poll'[w] = p  BY <1>3 DEF Types
<1>5. Types'  BY <1>1, <1>3 DEF Types
<1>6. Cursor(w)'
  <2>1. IsFiniteSet(p.batch) /\ Cardinality(p.batch) <= Batch  BY <1>3, EmptyBatch
  <2> QED  BY <1>0, <1>1, <1>3, <1>4, <2>1 DEF Cursor
<1>7. Passed(w)'
  <2>1. ASSUME NEW r \in rows, r.by # w, p.start < r.seq, r.seq <= p.last \/ r.seq <= p.top
        PROVE  Got(w, r)
    <3>1. r.seq \in Nat /\ r.seq > 0 /\ r \in sent  BY DEF Types, Row, Events
    <3>2. r.seq <= p.last  BY <1>3, <2>1, <3>1
    <3>3. r \notin poll[w].batch \/ r.seq > poll[w].last  BY <1>0, <3>1 DEF Cursor
    <3> QED  BY <1>0, <1>3, <2>1, <3>1, <3>2, <3>3 DEF Passed, Polls
  <2> QED  BY <1>1, <1>4, <2>1 DEF Passed, Got, Saw
<1>8. Order(w)'  BY <1>0, <1>1, <1>3, <1>4 DEF Order
<1> QED  BY <1>1, <1>3, <1>5, <1>6, <1>7, <1>8, OtherPollers

\* A stopped process remembers nothing.
LEMMA StopInv ==
    ASSUME IInv, NEW w \in Workers, Stop(w)
    PROVE  IInv'
<1> USE OutboxAssumption DEF IInv
<1> DEFINE p == [NewPoll EXCEPT !.pc = "stopped"]
<1>1. /\ poll' = [poll EXCEPT ![w] = p] /\ warm' = [warm EXCEPT ![w] = {}]
      /\ fired' = [fired EXCEPT ![w] = <<>>]
      /\ UNCHANGED <<rows, bus, effects, faults, sent, late>>
  BY DEF Stop
<1>2. p \in Polls /\ p.last = 0 /\ p.top = 0 /\ p.batch = {} /\ p.pc = "stopped"
  BY DEF NewPoll, Polls
<1> HIDE DEF p
<1>3. poll'[w] = p /\ fired'[w] = <<>>  BY <1>1 DEF Types
<1>4. Types'
  <2>1. fired' \in [Workers -> Seq(Events)]  BY <1>1, EmptySeq DEF Types
  <2> QED  BY <1>1, <1>2, <2>1 DEF Types
<1>5. Cursor(w)'
  <2>1. IsFiniteSet(p.batch) /\ Cardinality(p.batch) <= Batch  BY <1>2, EmptyBatch
  <2> QED  BY <1>2, <1>3, <2>1 DEF Cursor
<1>6. Passed(w)'
  <2>1. \A r \in rows : r.seq \in Nat /\ r.seq > 0  BY DEF Types, Row, Events
  <2> QED  BY <1>1, <1>2, <1>3, <2>1 DEF Passed
<1>7. Order(w)'  BY <1>2, <1>3 DEF Order
<1>8. \A v \in Workers : v # w => warm'[v] = warm[v] /\ fired'[v] = fired[v]
  BY <1>1 DEF Types
<1> QED  BY <1>1, <1>4, <1>5, <1>6, <1>7, <1>8, OtherPollers

LEMMA StutterInv == IInv /\ UNCHANGED vars => IInv'
<1> SUFFICES ASSUME IInv, UNCHANGED vars PROVE IInv'  OBVIOUS
<1> USE DEF IInv, vars
<1>1. Types' /\ Numbered' /\ Effects'  BY DEF Types, Numbered, Effects
<1>2. Pollers'  BY Kept DEF Pollers
<1> QED  BY <1>1, <1>2

THEOREM Inductive == Spec => []IInv
<1>1. IInv /\ [Next]_vars => IInv'
  <2> SUFFICES ASSUME IInv, [Next]_vars PROVE IInv'  OBVIOUS
  <2>1. CASE UNCHANGED vars  BY <2>1, StutterInv
  <2>2. ASSUME NEW w \in Workers, Publishing(w) \/ Start(w) \/ Polling(w) \/ Disturbing(w)
        PROVE  IInv'
    <3>1. CASE Publishing(w)
      BY <3>1, InsertInv, CommitInv, PersistFailsInv DEF Publishing
    <3>2. CASE Start(w)  BY <3>2, BootInv
    <3>3. CASE Polling(w)
      BY <3>3, BootInv, FetchInv, DeliverInv, EndBatchInv DEF Polling
    <3>4. CASE Disturbing(w)
      BY <3>4, BootInv, EndBatchInv, StopInv, PruneInv DEF Disturbing
    <3> QED  BY <2>2, <3>1, <3>2, <3>3, <3>4
  <2> QED  BY <2>1, <2>2 DEF Next
<1> QED  BY <1>1, InitInv, PTL DEF Spec

-----------------------------------------------------------------------------
(* The theorems *)

\* The state stays well typed and a batch within its limit, whatever fails.
THEOREM TypeCorrect == Spec => []TypeOK
<1>1. IInv => TypeOK
  <2> SUFFICES ASSUME IInv PROVE TypeOK  OBVIOUS
  <2> USE OutboxAssumption DEF IInv
  <2>1. ASSUME NEW w \in Workers
        PROVE  /\ poll[w].pc \in {"new", "boot", "tick", "drain", "dead", "stopped"}
               /\ poll[w].last \in 0..seq /\ poll[w].top \in 0..seq
               /\ poll[w].batch \subseteq Row /\ Cardinality(poll[w].batch) <= Batch
               /\ warm[w] \subseteq Events /\ fired[w] \in Seq(Events)
    <3>1. poll[w] \in Polls /\ Cursor(w) /\ seq \in Nat  BY DEF Types, Pollers
    <3>2. \A r \in sent : r.seq \in 0..seq  BY DEF Types, Numbered, Row, Events
    <3>3. poll[w].last \in 0..seq /\ poll[w].top \in 0..seq  BY <3>1, <3>2 DEF Cursor
    <3> QED  BY <3>1, <3>3 DEF Types, Polls, Cursor
  <2> QED  BY <2>1 DEF TypeOK, Types
<1> QED  BY <1>1, Inductive, PTL

\* local_only subscribers run at most once for an event, on all workers together.
THEOREM EffectsOnce == Spec => []SideEffectsOnce
<1>1. IInv => SideEffectsOnce  BY DEF IInv, Effects, SideEffectsOnce
<1> QED  BY <1>1, Inductive, PTL

\* The cursor of a poller passes no row that was neither handled nor late nor
\* pruned, failed ticks included.
THEOREM CursorSkipsNothing == Spec => []NothingSkipped
<1>1. IInv => NothingSkipped
  <2> SUFFICES ASSUME IInv, NEW w \in Workers, NEW r \in sent,
                      r.by # w, poll[w].start < r.seq, r.seq <= poll[w].last,
                      ~Saw(w, r.ev), r.ev \notin warm[w], r \in rows
               PROVE  <<w, r.ev>> \in late
    BY DEF NothingSkipped
  <2>1. Cursor(w) /\ Passed(w)  BY DEF IInv, Pollers
  <2>2. r.seq \in Nat /\ poll[w].last \in Nat
    BY OutboxAssumption DEF IInv, Types, Row, Events, Polls
  <2>3. r \notin poll[w].batch  BY <2>1, <2>2 DEF Cursor
  <2> QED  BY <2>1, <2>3 DEF Passed, Got
<1> QED  BY <1>1, Inductive, PTL

\* Subscribers are called for no event from before the boot and, up to a failed
\* tick, for every event once and in the order of the rows.
THEOREM DeliveredInOrder == Spec => []InOrderOnce
<1>1. IInv => InOrderOnce
  <2> SUFFICES ASSUME IInv, NEW w \in Workers
               PROVE  /\ \A r \in sent : Saw(w, r.ev) => r.ev > poll[w].born
                      /\ ~poll[w].failed =>
                           \A r, s \in sent : \A i, j \in DOMAIN fired[w] :
                              i < j /\ fired[w][i] = r.ev /\ fired[w][j] = s.ev => r.seq < s.seq
    BY DEF InOrderOnce
  <2>1. Order(w)  BY DEF IInv, Pollers
  <2>2. \A r \in sent : r.seq = r.ev  BY DEF IInv, Numbered
  <2> QED  BY <2>1, <2>2 DEF Order, Saw
<1> QED  BY <1>1, Inductive, PTL
=============================================================================
