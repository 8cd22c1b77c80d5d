-------------------------- MODULE AuditTrailProofs --------------------------
(***************************************************************************)
(* Proofs about the audit chain and its writer, for any number of ids,     *)
(* organisations, concurrent purges, removed rows and requests, on either  *)
(* database: a gap that verification does not explain has something wrong  *)
(* in it, also when rows and markers are read at two moments, a removed    *)
(* row is not covered up, and every row submitted is accounted for.        *)
(***************************************************************************)
EXTENDS AuditWriter, FiniteSetTheorems, TLAPS

-----------------------------------------------------------------------------
(* The inductive invariant *)

\* A row's hash is its id, or empty for the rows from before the chain.
HashInv ==
    \A i \in live : /\ row[i].hash = IF i <= Legacy THEN 0 ELSE i
                    /\ i <= Legacy => row[i].prev = 0

\* A chained row names the row that was last when it came: whatever lies
\* between the two was gone by then, and an empty link means that no chained
\* row was left.
LinkInv ==
    \A i \in live : i > Legacy =>
        /\ row[i].prev < i
        /\ row[i].prev = 0 \/ row[i].prev > Legacy
        /\ \A x \in live : x < i => x <= Legacy \/ x <= row[i].prev

\* Every id handed out is a row, or is known to have gone one way.
Gone == purged \cup stolen \cup burned
FateInv ==
    /\ 1..seq \subseteq live \cup Gone
    /\ live \cap Gone = {}
    /\ purged \cap stolen = {}

\* Markers name only ids a purge deleted or was about to, and all of the deleted
\* ones but the unmarked.
MarkInv ==
    /\ \A i \in live : row[i].gaps \subseteq purged \cup raced
    /\ purged \ unmarked \subseteq Recorded

\* The gaps a verification has read are real and stay.
BreakInv == \A g \in check.breaks : g # {} /\ g \subseteq Gone

TableTypeOK ==
    /\ seq \in Legacy..MaxId
    /\ live \subseteq 1..seq
    /\ row \in [Ids -> Row]
    /\ \A i \in Ids \ live : row[i] = Blank
    /\ purged \subseteq 1..seq /\ stolen \subseteq 1..seq /\ burned \subseteq 1..seq
    /\ raced \subseteq stolen /\ unmarked \subseteq 1..seq

TableInv == TableTypeOK /\ HashInv /\ LinkInv /\ FateInv /\ MarkInv

Purges == [pc: {"idle", "selected", "reread", "deleted"}, ids: SUBSET Ids, org: Owners]

\* What a purge has read again is still there or has gone since; what it lists as
\* deleted was deleted by a purge or removed while this one was about to.
PurgeInv ==
    /\ purge \in [Purgers -> Purges]
    /\ \A p \in Purgers : purge[p].pc = "reread" => purge[p].ids \subseteq live \cup purged \cup raced
    /\ \A p \in Purgers : purge[p].pc = "deleted" => purge[p].ids \subseteq purged \cup raced

CheckInv ==
    /\ check.pc \in {"rows", "valid", "violation", "unread"}
    /\ check.breaks \subseteq SUBSET Ids
    /\ BreakInv

ChainInv == TableInv /\ PurgeInv /\ CheckInv

-----------------------------------------------------------------------------
(* The table *)

\* Ids handed out are ids.
LEMMA LiveIds == TableTypeOK => 1..seq \subseteq Ids /\ live \subseteq Ids
<1> SUFFICES ASSUME TableTypeOK PROVE 1..seq \subseteq Ids /\ live \subseteq Ids  OBVIOUS
<1>1. seq \in Nat /\ MaxId \in Nat /\ seq <= MaxId  BY ChainAssumption DEF TableTypeOK
<1>2. 1..seq \subseteq Ids  BY <1>1 DEF Ids
<1> QED  BY <1>2 DEF TableTypeOK

\* An insert links its row to the last one and keeps everything else.
LEMMA InsertTable ==
    ASSUME TableInv, NEW f \in [org: Owners, marker: BOOLEAN, gaps: SUBSET Ids],
           f.gaps \subseteq purged \cup raced, Insert(f), UNCHANGED <<purged, stolen, raced, burned>>,
           unmarked' = unmarked \/ (f.marker /\ unmarked' = unmarked \ f.gaps)
    PROVE  TableInv'
<1> DEFINE n == seq + 1
<1>1. PICK h \in 0..MaxId :
        /\ IsLastHash(h)
        /\ row' = [row EXCEPT ![n] = [prev |-> h, hash |-> n, org |-> f.org,
                                      marker |-> f.marker, gaps |-> f.gaps]]
  BY DEF Insert
<1>2. /\ seq < MaxId /\ seq' = n /\ live' = live \cup {n}
      /\ seq \in Nat /\ MaxId \in Nat /\ Legacy \in Nat
      /\ n \in Ids /\ n \notin live /\ n > Legacy
  BY ChainAssumption DEF Insert, TableInv, TableTypeOK, Ids
<1>3. /\ row'[n] = [prev |-> h, hash |-> n, org |-> f.org, marker |-> f.marker, gaps |-> f.gaps]
      /\ \A i \in Ids \ {n} : row'[i] = row[i]
  BY <1>1, <1>2 DEF TableInv, TableTypeOK
<1>4. \A i \in live : i \in Ids /\ i \in Nat /\ i # n /\ i < n
  BY <1>2 DEF TableInv, TableTypeOK, Ids
<1>5. TableTypeOK'
  <2>1. row'[n] \in Row  BY <1>2, <1>3 DEF Row, Ids
  <2>2. row' \in [Ids -> Row]  BY <1>1, <2>1 DEF TableInv, TableTypeOK
  <2>3. \A i \in Ids \ live' : row'[i] = Blank  BY <1>2, <1>3 DEF TableInv, TableTypeOK
  <2>4. seq' \in Legacy..MaxId  BY <1>2
  <2>6. live' \subseteq 1..seq'
    <3>1. \A i \in live : i \in 1..n  BY <1>2 DEF TableInv, TableTypeOK
    <3>2. n \in 1..n  BY <1>2
    <3> QED  BY <1>2, <3>1, <3>2
  <2>5. /\ purged' \subseteq 1..seq' /\ stolen' \subseteq 1..seq' /\ burned' \subseteq 1..seq'
        /\ unmarked' \subseteq 1..seq' /\ raced' \subseteq stolen'
    <3>1. 1..seq \subseteq 1..seq'  BY <1>2
    <3> QED  BY <3>1 DEF TableInv, TableTypeOK
  <2> QED  BY <2>2, <2>3, <2>4, <2>5, <2>6 DEF TableTypeOK
<1>6. HashInv'
  BY <1>2, <1>3, <1>4 DEF TableInv, HashInv
<1>7. LinkInv'
  <2>1. /\ h < n /\ (h = 0 \/ h > Legacy)
        /\ \A x \in live : x <= Legacy \/ x <= h
    <3>1. CASE live = {} /\ h = 0  BY <3>1, <1>2
    <3>2. ASSUME NEW q \in live, h = row[q].hash, \A x \in live : x <= q
          PROVE  <2>1!1 /\ <2>1!2
      <4>1. q \in Nat /\ q < n /\ h = IF q <= Legacy THEN 0 ELSE q
        BY <3>2, <1>4 DEF TableInv, HashInv
      <4> QED  BY <4>1, <3>2, <1>2, <1>4
    <3> QED  BY <1>1, <3>1, <3>2 DEF IsLastHash
  <2>2. ASSUME NEW i \in live, i > Legacy
        PROVE  /\ row'[i].prev < i /\ (row'[i].prev = 0 \/ row'[i].prev > Legacy)
               /\ \A x \in live' : x < i => x <= Legacy \/ x <= row'[i].prev
    <3>1. row'[i] = row[i] /\ i < n /\ i \in Nat  BY <1>3, <1>4
    <3> QED  BY <2>2, <3>1, <1>2 DEF TableInv, LinkInv
  <2>3. /\ row'[n].prev = h
        /\ \A x \in live' : x < n => x <= Legacy \/ x <= h
    BY <1>2, <1>3, <2>1
  <2> QED  BY <1>2, <2>1, <2>2, <2>3 DEF LinkInv
<1>8. FateInv'
  BY <1>2 DEF TableInv, TableTypeOK, FateInv, Gone
<1>9. MarkInv'
  <2>1. \A i \in live' : row'[i].gaps \subseteq purged' \cup raced'
    BY <1>2, <1>3, <1>4 DEF TableInv, MarkInv
  <2>2. ASSUME NEW d \in purged' \ unmarked'  PROVE d \in Recorded'
    <3>1. CASE d \in purged \ unmarked
      <4>1. PICK j \in live : row[j].marker /\ d \in row[j].gaps
        BY <3>1 DEF TableInv, MarkInv, Recorded, Listed
      <4>2. j \in live' /\ row'[j] = row[j]  BY <1>2, <1>3, <1>4
      <4> QED  BY <4>1, <4>2 DEF Recorded, Listed
    <3>2. CASE f.marker /\ d \in f.gaps
      <4>1. n \in live' /\ row'[n].marker /\ d \in row'[n].gaps  BY <3>2, <1>2, <1>3
      <4> QED  BY <4>1 DEF Recorded, Listed
    <3> QED  BY <2>2, <3>1, <3>2
  <2> QED  BY <2>1, <2>2 DEF MarkInv
<1> QED  BY <1>5, <1>6, <1>7, <1>8, <1>9 DEF TableInv

\* A deletion takes links away and breaks none of what the others say.
LEMMA EraseTable ==
    ASSUME TableInv, NEW ids, ids \subseteq live, Erase(ids), UNCHANGED <<seq, burned>>,
           \/ /\ purged' = purged \cup ids /\ stolen' = stolen /\ raced' = raced
              /\ unmarked' = unmarked \cup ids \cup Listed(ids)
           \/ /\ stolen' = stolen \cup ids /\ purged' = purged
              /\ raced \subseteq raced' /\ raced' \subseteq raced \cup ids
              /\ unmarked' = unmarked \cup Listed(ids)
    PROVE  TableInv'
<1>1. /\ live' = live \ ids /\ live \subseteq Ids
      /\ row' = [i \in Ids |-> IF i \in ids THEN Blank ELSE row[i]]
  BY ChainAssumption DEF Erase, TableInv, TableTypeOK, Ids
<1>2. \A i \in live' : row'[i] = row[i]  BY <1>1
<1>3. TableTypeOK'
  <2>1. Blank \in Row  BY ChainAssumption DEF Blank, Row, Owners
  <2>2. row' \in [Ids -> Row]  BY <1>1, <2>1 DEF TableInv, TableTypeOK
  <2>3. \A i \in Ids \ live' : row'[i] = Blank  BY <1>1 DEF TableInv, TableTypeOK
  <2>4. Listed(ids) \subseteq 1..seq  BY DEF Listed, TableInv, TableTypeOK, MarkInv
  <2> QED  BY <1>1, <2>2, <2>3, <2>4 DEF TableInv, TableTypeOK
<1>4. HashInv'  BY <1>1, <1>2 DEF TableInv, HashInv
<1>5. LinkInv'  BY <1>1, <1>2 DEF TableInv, LinkInv
<1>6. FateInv'  BY <1>1 DEF TableInv, FateInv, Gone
<1>7. MarkInv'
  <2>1. \A i \in live' : row'[i].gaps \subseteq purged' \cup raced'  BY <1>1, <1>2 DEF TableInv, MarkInv
  <2>2. ASSUME NEW d \in purged' \ unmarked'  PROVE d \in Recorded'
    <3>1. d \in purged \ unmarked /\ d \notin Listed(ids)  BY <2>2
    <3>2. PICK j \in live : row[j].marker /\ d \in row[j].gaps
      BY <3>1 DEF TableInv, MarkInv, Recorded, Listed
    <3>3. j \notin ids  BY <3>1, <3>2 DEF Listed
    <3>4. j \in live' /\ row'[j] = row[j]  BY <1>1, <1>2, <3>3
    <3> QED  BY <3>2, <3>4 DEF Recorded, Listed
  <2> QED  BY <2>1, <2>2 DEF MarkInv
<1> QED  BY <1>3, <1>4, <1>5, <1>6, <1>7 DEF TableInv

\* A burned id is no row.
LEMMA BurnTable ==
    ASSUME TableInv, RollBack  PROVE  TableInv'
<1>1. /\ seq < MaxId /\ seq' = seq + 1 /\ burned' = burned \cup {seq + 1}
      /\ UNCHANGED <<live, row, purged, stolen, raced, unmarked>>
      /\ seq \in Nat /\ MaxId \in Nat /\ Legacy \in Nat
  BY ChainAssumption DEF RollBack, TableInv, TableTypeOK
<1>2. TableTypeOK'  BY <1>1 DEF TableInv, TableTypeOK
<1>3. FateInv'  BY <1>1 DEF TableInv, TableTypeOK, FateInv, Gone
<1> QED  BY <1>1, <1>2, <1>3 DEF TableInv, HashInv, LinkInv, MarkInv, Recorded, Listed

\* No verification meets a broken link without a row missing below it: a row
\* next to its predecessor is linked to it.
LEMMA BrokenLinkHasGap ==
    ASSUME TableInv, NEW i \in live, Chained(i), ~Linked(i)
    PROVE  Gap(i) # {} /\ Gap(i) \subseteq Gone /\ Gap(i) \subseteq Ids
<1>1. i \in Nat /\ i >= 1 /\ i <= seq /\ seq \in Nat /\ MaxId \in Nat /\ seq <= MaxId /\ Legacy \in Nat
  BY ChainAssumption DEF TableInv, TableTypeOK
<1>2. i > Legacy
  BY <1>1 DEF Chained, TableInv, HashInv
<1>3. row[i].prev \in Nat /\ row[i].prev < i
  <2>1. row[i] \in Row  BY <1>1 DEF TableInv, TableTypeOK, Ids
  <2>2. row[i].prev \in 0..MaxId  BY <2>1 DEF Row
  <2> QED  BY <2>2, <1>1, <1>2 DEF TableInv, LinkInv
<1>4. ASSUME Gap(i) = {}  PROVE FALSE
  <2>1. i # 1
    <3>1. ASSUME i = 1 PROVE IsFirst(i) /\ row[i].prev = 0
      BY <3>1, <1>3, <1>1 DEF IsFirst, TableInv, TableTypeOK
    <3> QED  BY <3>1 DEF Linked
  <2>2. i - 1 \in 1..(i - 1)  BY <1>1, <2>1
  <2>3. PICK y \in live : i - 1 <= y /\ y < i  BY <1>4, <2>2 DEF Gap
  <2>4. y \in Nat /\ y = i - 1  BY <1>1, <2>3 DEF TableInv, TableTypeOK
  <2>5. IsPred(y, i)
    BY <1>1, <2>3, <2>4 DEF IsPred, TableInv, TableTypeOK
  <2>6. row[i].prev = row[y].hash
    <3>1. row[y].hash = IF y <= Legacy THEN 0 ELSE y  BY DEF TableInv, HashInv
    <3>2. /\ row[i].prev = 0 \/ row[i].prev > Legacy
          /\ y <= Legacy \/ y <= row[i].prev
      BY <1>2, <2>3 DEF TableInv, LinkInv
    <3> QED  BY <3>1, <3>2, <1>1, <1>3, <2>4
  <2> QED  BY <2>5, <2>6 DEF Linked
<1>5. \A x \in Gap(i) : x \in 1..seq /\ x \notin live
  BY <1>1 DEF Gap
<1> QED  BY <1>1, <1>4, <1>5 DEF TableInv, FateInv, Ids

-----------------------------------------------------------------------------
(* The invariant is inductive *)

LEMMA ChainInitInv == ChainInit => ChainInv
<1> SUFFICES ASSUME ChainInit PROVE ChainInv  OBVIOUS
<1>1. /\ MaxId \in Nat /\ Legacy \in Nat /\ Legacy <= MaxId
      /\ live = 1..Legacy /\ seq = Legacy /\ row = [i \in Ids |-> Blank]
      /\ purged = {} /\ stolen = {} /\ raced = {} /\ burned = {} /\ unmarked = {}
  BY ChainAssumption DEF ChainInit
<1>2. Blank \in Row /\ Blank.prev = 0 /\ Blank.hash = 0 /\ Blank.gaps = {}
  BY <1>1 DEF Blank, Row, Owners
<1>3. \A i \in live : i \in Ids /\ row[i] = Blank /\ i <= Legacy
  BY <1>1 DEF Ids
<1>4. TableTypeOK  BY <1>1, <1>2, <1>3 DEF TableTypeOK
<1>5. HashInv /\ LinkInv  BY <1>1, <1>2, <1>3 DEF HashInv, LinkInv
<1>6. FateInv /\ MarkInv  BY <1>1, <1>2, <1>3 DEF FateInv, Gone, MarkInv
<1>7. TableInv  BY <1>2, <1>3, <1>4, <1>5, <1>6 DEF TableInv
<1>8. PurgeInv  BY DEF ChainInit, PurgeInv, Purges, Idle, Owners
<1>9. CheckInv  BY DEF ChainInit, CheckInv, NoCheck, BreakInv
<1> QED  BY <1>7, <1>8, <1>9 DEF ChainInv

LEMMA ChainTypes == ChainInv => ChainTypeOK
BY ChainAssumption DEF ChainInv, TableInv, TableTypeOK, PurgeInv, Purges, CheckInv, ChainTypeOK

\* What is gone stays gone, so the gaps read by a verification do.
LEMMA GoneStays ==
    ASSUME CheckInv, UNCHANGED check, Gone \subseteq Gone'
    PROVE  CheckInv'
BY DEF CheckInv, BreakInv

\* What purges have read stays known while ids only move on.
LEMMA PurgeKept ==
    ASSUME PurgeInv, UNCHANGED purge, purged \cup raced \subseteq purged' \cup raced',
           live \cup purged \cup raced \subseteq live' \cup purged' \cup raced'
    PROVE  PurgeInv'
BY DEF PurgeInv

\* One purge moves on.
LEMMA PurgeMoves ==
    ASSUME PurgeInv, NEW p \in Purgers, NEW s \in Purges, purge' = [purge EXCEPT ![p] = s],
           purged \cup raced \subseteq purged' \cup raced',
           live \cup purged \cup raced \subseteq live' \cup purged' \cup raced',
           s.pc = "reread" => s.ids \subseteq live' \cup purged' \cup raced',
           s.pc = "deleted" => s.ids \subseteq purged' \cup raced'
    PROVE  PurgeInv'
<1>1. purge'[p] = s /\ \A q \in Purgers : q # p => purge'[q] = purge[q]  BY DEF PurgeInv
<1>2. purge' \in [Purgers -> Purges]  BY DEF PurgeInv
<1>3. ASSUME NEW q \in Purgers
      PROVE  /\ purge'[q].pc = "reread" => purge'[q].ids \subseteq live' \cup purged' \cup raced'
             /\ purge'[q].pc = "deleted" => purge'[q].ids \subseteq purged' \cup raced'
  <2>1. CASE q = p  BY <1>1, <2>1
  <2>2. CASE q # p
    <3>1. purge'[q] = purge[q]  BY <1>1, <2>2
    <3>2. /\ purge[q].pc = "reread" => purge[q].ids \subseteq live \cup purged \cup raced
          /\ purge[q].pc = "deleted" => purge[q].ids \subseteq purged \cup raced
      BY DEF PurgeInv
    <3> QED  BY <3>1, <3>2
  <2> QED  BY <2>1, <2>2
<1> QED  BY <1>2, <1>3 DEF PurgeInv

LEMMA PurgeReset ==
    ASSUME PurgeInv, NEW p \in Purgers, purge' = [purge EXCEPT ![p] = Idle],
           UNCHANGED <<purged, raced>>, live \subseteq live'
    PROVE  PurgeInv'
<1>1. Idle \in Purges /\ Idle.pc = "idle"  BY DEF Idle, Owners, Purges
<1> QED  BY <1>1, PurgeMoves

LEMMA AppendKeeps ==
    ASSUME ChainInv, NEW o \in Owners, AppendRow(o)  PROVE  ChainInv'
<1>1. TableInv'
  <2> DEFINE f == [org |-> o, marker |-> FALSE, gaps |-> {}]
  <2>1. f \in [org: Owners, marker: BOOLEAN, gaps: SUBSET Ids] /\ f.gaps \subseteq purged \cup raced
    OBVIOUS
  <2>2. Insert(f) /\ UNCHANGED <<purged, stolen, raced, burned, unmarked>>  BY DEF AppendRow
  <2> QED  BY <2>1, <2>2, InsertTable DEF ChainInv
<1>2. PurgeInv'  BY PurgeKept DEF AppendRow, Insert, ChainInv
<1>3. CheckInv'  BY GoneStays DEF AppendRow, ChainInv, Gone
<1> QED  BY <1>1, <1>2, <1>3 DEF ChainInv

LEMMA SelectKeeps ==
    ASSUME ChainInv, NEW p \in Purgers, NEW o \in Owners, NEW cut, NEW critical,
           Select(p, o, cut, critical)
    PROVE  ChainInv'
<1>1. TableInv'
  BY DEF Select, ChainInv, TableInv, TableTypeOK, HashInv, LinkInv, FateInv, Gone, MarkInv, Recorded, Listed
<1>2. Expired(o, cut, critical) \in SUBSET Ids
  BY LiveIds DEF Expired, ChainInv, TableInv
<1>3. PurgeInv'
  <2> DEFINE s == [pc |-> "selected", ids |-> Expired(o, cut, critical), org |-> o]
  <2>1. s \in Purges /\ s.pc = "selected"  BY <1>2 DEF Purges
  <2>2. purge' = [purge EXCEPT ![p] = s] /\ UNCHANGED <<live, purged, raced>>  BY DEF Select
  <2> HIDE DEF s
  <2> QED  BY <2>1, <2>2, PurgeMoves DEF ChainInv
<1>4. CheckInv'  BY GoneStays DEF Select, ChainInv, Gone
<1> QED  BY <1>1, <1>3, <1>4 DEF ChainInv

LEMMA RereadKeeps ==
    ASSUME ChainInv, NEW p \in Purgers, Reread(p)  PROVE  ChainInv'
<1>1. Found(p) \subseteq live /\ Found(p) \in SUBSET Ids
  BY LiveIds DEF Found, ChainInv, TableInv
<1>2. /\ purge' = [purge EXCEPT ![p].pc = "reread", ![p].ids = Found(p)]
      /\ UNCHANGED <<live, row, seq, check, purged, stolen, raced, burned, unmarked>>
  BY DEF Reread
<1>3. TableInv'
  BY <1>2 DEF ChainInv, TableInv, TableTypeOK, HashInv, LinkInv, FateInv, Gone, MarkInv, Recorded, Listed
<1>4. PurgeInv'
  <2> DEFINE s == [purge[p] EXCEPT !.pc = "reread", !.ids = Found(p)]
  <2>1. purge[p] \in Purges /\ purge \in [Purgers -> Purges]  BY DEF ChainInv, PurgeInv
  <2>2. s \in Purges /\ s.pc = "reread" /\ s.ids = Found(p)  BY <1>1, <2>1 DEF Purges
  <2>3. purge' = [purge EXCEPT ![p] = s]  BY <1>2, <2>1
  <2> HIDE DEF s
  <2> QED  BY <1>1, <1>2, <2>2, <2>3, PurgeMoves DEF ChainInv
<1>5. CheckInv'  BY <1>2, GoneStays DEF ChainInv, Gone
<1> QED  BY <1>3, <1>4, <1>5 DEF ChainInv

LEMMA DeleteKeeps ==
    ASSUME ChainInv, NEW p \in Purgers, Delete(p)  PROVE  ChainInv'
<1> DEFINE listed == IF Postgres THEN purge[p].ids ELSE Found(p)
<1>1. Found(p) \subseteq live /\ Found(p) \in SUBSET Ids
  BY LiveIds DEF Found, ChainInv, TableInv
<1>2. /\ Erase(Found(p)) /\ purged' = purged \cup Found(p)
      /\ unmarked' = unmarked \cup Found(p) \cup Listed(Found(p))
      /\ purge' = [purge EXCEPT ![p].pc = "deleted", ![p].ids = listed]
      /\ UNCHANGED <<seq, check, stolen, raced, burned>>
      /\ live' = live \ Found(p)
  BY DEF Delete, Erase
<1>3. TableInv'  BY <1>1, <1>2, EraseTable DEF ChainInv
<1>4. PurgeInv'
  <2> DEFINE s == [purge[p] EXCEPT !.pc = "deleted", !.ids = listed]
  <2>1. purge[p] \in Purges /\ purge \in [Purgers -> Purges]  BY DEF ChainInv, PurgeInv
  <2>2. listed \in SUBSET Ids  BY <1>1, <2>1 DEF Purges
  <2>3. listed \subseteq purged' \cup raced'
    <3>1. CASE Postgres
      <4>1. purge[p].ids \subseteq live \cup purged \cup raced
        BY <3>1 DEF Delete, ChainInv, PurgeInv
      <4> QED  BY <1>2, <3>1, <4>1 DEF Found
    <3>2. CASE ~Postgres  BY <1>2, <3>2
    <3> QED  BY <3>1, <3>2
  <2> HIDE DEF listed
  <2>4. s \in Purges /\ s.pc = "deleted" /\ s.ids = listed  BY <2>1, <2>2 DEF Purges
  <2>5. purge' = [purge EXCEPT ![p] = s]  BY <1>2, <2>1
  <2> HIDE DEF s
  <2> QED  BY <1>1, <1>2, <2>3, <2>4, <2>5, PurgeMoves DEF ChainInv
<1>5. CheckInv'  BY <1>2, GoneStays DEF ChainInv, Gone
<1> QED  BY <1>3, <1>4, <1>5 DEF ChainInv

LEMMA MarkKeeps ==
    ASSUME ChainInv, NEW p \in Purgers, Mark(p)  PROVE  ChainInv'
<1>1. TableInv'
  <2> DEFINE f == [org |-> purge[p].org, marker |-> TRUE, gaps |-> purge[p].ids]
  <2>1. f \in [org: Owners, marker: BOOLEAN, gaps: SUBSET Ids] /\ f.gaps \subseteq purged \cup raced
    BY DEF ChainInv, PurgeInv, Purges, Mark
  <2>2. /\ Insert(f) /\ UNCHANGED <<purged, stolen, raced, burned>>
        /\ f.marker /\ unmarked' = unmarked \ f.gaps
    BY DEF Mark
  <2> HIDE DEF f
  <2> QED  BY <2>1, <2>2, InsertTable DEF ChainInv
<1>2. PurgeInv'  BY PurgeReset DEF Mark, Insert, ChainInv
<1>3. CheckInv'  BY GoneStays DEF Mark, ChainInv, Gone
<1> QED  BY <1>1, <1>2, <1>3 DEF ChainInv

LEMMA VerifyKeeps ==
    ASSUME ChainInv,
           \/ \E o \in Owners, lo \in live : VerifyRead(o, lo)
           \/ VerifyMarkers \/ VerifyUnread
    PROVE  ChainInv'
<1>1. UNCHANGED <<live, row, seq, purge, purged, stolen, raced, burned, unmarked>>
  BY DEF VerifyRead, VerifyMarkers, VerifyUnread
<1>2. TableInv' /\ PurgeInv'
  BY <1>1 DEF ChainInv, TableInv, TableTypeOK, HashInv, LinkInv, FateInv, Gone, MarkInv, Recorded, Listed, PurgeInv
<1>3. NoCheck.breaks = {} /\ NoCheck.pc = "valid"  BY DEF NoCheck
<1>4. CASE VerifyMarkers \/ VerifyUnread
  <2>1. check'.breaks = {} /\ check'.pc \in {"valid", "violation", "unread"}
    BY <1>4 DEF VerifyMarkers, VerifyUnread, NoCheck
  <2> QED  BY <2>1, <1>2 DEF CheckInv, BreakInv, ChainInv
<1>5. ASSUME NEW o \in Owners, NEW lo \in live, VerifyRead(o, lo)  PROVE CheckInv'
  <2>1. \A g \in Breaks(Slice(o, lo)) : g # {} /\ g \subseteq Gone /\ g \subseteq Ids
    <3> SUFFICES ASSUME NEW i \in live, Chained(i), ~Linked(i)
                 PROVE  Gap(i) # {} /\ Gap(i) \subseteq Gone /\ Gap(i) \subseteq Ids
      BY DEF Breaks, Slice
    <3> QED  BY BrokenLinkHasGap DEF ChainInv
  <2>2. Gone' = Gone  BY <1>1 DEF Gone
  <2>3. CASE check' = NoCheck  BY <2>3, <1>3 DEF CheckInv, BreakInv
  <2>4. CASE check' = [pc |-> "rows", breaks |-> Breaks(Slice(o, lo))]
    <3>1. check'.pc = "rows" /\ check'.breaks = Breaks(Slice(o, lo))  BY <2>4
    <3> QED  BY <3>1, <2>1, <2>2 DEF CheckInv, BreakInv
  <2> QED  BY <1>5, <2>3, <2>4 DEF VerifyRead
<1> QED  BY <1>2, <1>4, <1>5 DEF ChainInv

LEMMA StealKeeps ==
    ASSUME ChainInv, NEW i \in Ids, Steal(i)  PROVE  ChainInv'
<1>1. /\ {i} \subseteq live /\ Erase({i}) /\ stolen' = stolen \cup {i}
      /\ unmarked' = unmarked \cup Listed({i})
      /\ UNCHANGED <<seq, purge, check, purged, burned>>
      /\ raced \subseteq raced' /\ raced' \subseteq raced \cup {i} /\ live' = live \ {i}
      /\ \A p \in Purgers : purge[p].pc = "reread" /\ i \in purge[p].ids => i \in raced'
  BY DEF Steal, Erase
<1>2. TableInv'  BY <1>1, EraseTable DEF ChainInv
<1>3. PurgeInv'
  <2>1. \A p \in Purgers : purge[p].pc = "reread" => purge[p].ids \subseteq live' \cup purged' \cup raced'
    <3> SUFFICES ASSUME NEW p \in Purgers, purge[p].pc = "reread", NEW x \in purge[p].ids
                 PROVE  x \in live' \cup purged' \cup raced'
      OBVIOUS
    <3>1. x \in live \cup purged \cup raced  BY DEF ChainInv, PurgeInv
    <3>2. x = i => x \in raced'  BY <1>1
    <3> QED  BY <1>1, <3>1, <3>2
  <2> QED  BY <1>1, <2>1 DEF ChainInv, PurgeInv
<1>4. CheckInv'  BY <1>1, GoneStays DEF ChainInv, Gone
<1> QED  BY <1>2, <1>3, <1>4 DEF ChainInv

LEMMA ChainStep == ChainInv /\ [ChainNext]_chain => ChainInv'
<1> SUFFICES ASSUME ChainInv, [ChainNext]_chain PROVE ChainInv'  OBVIOUS
<1>1. ASSUME NEW o \in Owners, AppendRow(o) PROVE ChainInv'  BY <1>1, AppendKeeps
<1>2. CASE RollBack
  <2>1. TableInv'  BY <1>2, BurnTable DEF ChainInv
  <2>2. PurgeInv'  BY <1>2, PurgeKept DEF RollBack, ChainInv
  <2>3. CheckInv'  BY <1>2, GoneStays DEF RollBack, ChainInv, Gone
  <2> QED  BY <2>1, <2>2, <2>3 DEF ChainInv
<1>3. ASSUME NEW p \in Purgers, Purging(p) PROVE ChainInv'
  <2>1. CASE Delete(p)  BY <2>1, DeleteKeeps
  <2>4. CASE Reread(p)  BY <2>4, RereadKeeps
  <2>2. CASE Mark(p)  BY <2>2, MarkKeeps
  <2>3. CASE Abandon(p)
    <3>1. PurgeInv'  BY <2>3, PurgeReset DEF Abandon, ChainInv
    <3>2. TableInv'
      BY <2>3 DEF Abandon, ChainInv, TableInv, TableTypeOK, HashInv, LinkInv, FateInv, Gone, MarkInv, Recorded, Listed
    <3>3. CheckInv'  BY <2>3, GoneStays DEF Abandon, ChainInv, Gone
    <3> QED  BY <3>1, <3>2, <3>3 DEF ChainInv
  <2> QED  BY <1>3, <2>1, <2>2, <2>3, <2>4, SelectKeeps DEF Purging
<1>4. CASE Verifying  BY <1>4, VerifyKeeps DEF Verifying
<1>5. CASE Interference  BY <1>5, StealKeeps DEF Interference
<1>6. CASE UNCHANGED chain
  BY <1>6 DEF chain, ChainInv, TableInv, TableTypeOK, HashInv, LinkInv, FateInv, Gone, MarkInv, Recorded, Listed,
              PurgeInv, CheckInv, BreakInv
<1> QED  BY <1>1, <1>2, <1>3, <1>4, <1>5, <1>6 DEF ChainNext, Maintenance

-----------------------------------------------------------------------------
(* What the invariant says of verification *)

LEMMA VerifyHonest ==
    ASSUME TableInv, NEW g, g # {}, g \subseteq Gone
    PROVE  Explained(g, Recorded) \/ g \cap Suspect # {}
<1> SUFFICES ASSUME g \cap Suspect = {} PROVE g \subseteq Recorded  BY DEF Explained
<1>1. g \subseteq purged \ unmarked  BY DEF Gone, Suspect
<1> QED  BY <1>1 DEF TableInv, MarkInv

LEMMA InvHonestLog == ChainInv => HonestLogVerifies
<1> SUFFICES ASSUME ChainInv, NEW g \in Breaks(live)
             PROVE  Explained(g, Recorded) \/ g \cap Suspect # {}
  BY DEF HonestLogVerifies
<1>1. PICK i \in live : Chained(i) /\ ~Linked(i) /\ g = Gap(i)  BY DEF Breaks
<1>2. g # {} /\ g \subseteq Gone  BY <1>1, BrokenLinkHasGap DEF ChainInv
<1> QED  BY <1>2, VerifyHonest DEF ChainInv

LEMMA InvRemoval == ChainInv => RemovalDetected
<1> SUFFICES ASSUME ChainInv, NEW d \in stolen \ raced, NEW r \in live, r > d, row[r].prev >= d,
                    \A x \in live : ~(d < x /\ x < r)
             PROVE  ~Valid(Breaks({r}))
  BY DEF RemovalDetected
<1>1. /\ d \in Nat /\ d >= 1 /\ r \in Nat /\ r \in Ids /\ row[r].prev \in Nat
      /\ \A x \in live : x \in Nat
  <2>1. seq \in Nat  BY ChainAssumption DEF ChainInv, TableInv, TableTypeOK
  <2>2. row[r] \in Row  BY LiveIds DEF ChainInv, TableInv, TableTypeOK
  <2> QED  BY <2>1, <2>2, LiveIds, ChainAssumption DEF ChainInv, TableInv, TableTypeOK, Row
<1>2. d \notin live  BY DEF ChainInv, TableInv, FateInv, Gone
<1>3. d \notin Recorded
  BY DEF ChainInv, TableInv, FateInv, MarkInv, Recorded, Listed
<1>4. Chained(r)  BY <1>1 DEF Chained
<1>5. ~Linked(r)
  <2>1. row[r].prev # 0  BY <1>1
  <2>2. ASSUME NEW q \in live, IsPred(q, r), row[r].prev = row[q].hash  PROVE FALSE
    <3>1. row[q].hash = IF q <= Legacy THEN 0 ELSE q  BY DEF ChainInv, TableInv, HashInv
    <3>2. q >= d  BY <2>1, <2>2, <3>1
    <3>3. q # d /\ q < r  BY <1>2, <2>2 DEF IsPred
    <3>4. q \in Nat /\ d \in Nat  BY <1>1
    <3>5. d < q  BY <3>2, <3>3, <3>4
    <3> QED  BY <3>3, <3>5
  <2> QED  BY <2>1, <2>2 DEF Linked
<1>6. d \in Gap(r)
  <2>1. d \in 1..(r - 1)  BY <1>1
  <2>2. ASSUME NEW y \in live, d <= y, y < r  PROVE FALSE
    <3>1. y # d  BY <1>2
    <3> QED  BY <1>1, <2>2, <3>1
  <2> QED  BY <2>1, <2>2 DEF Gap
<1>7. Gap(r) \in Breaks({r})  BY <1>4, <1>5 DEF Breaks
<1> QED  BY <1>3, <1>6, <1>7 DEF Valid, Explained

LEMMA StepHonestVerdict ==
    ASSUME ChainInv, [ChainNext]_chain, check.pc = "rows", check'.pc = "violation"
    PROVE  \E g \in check.breaks : g \cap Suspect # {}
<1>1. check' # check  OBVIOUS
<1>2. VerifyMarkers
  BY <1>1 DEF chain, ChainNext, Maintenance, AppendRow, RollBack, Purging, Select, Reread,
              Delete, Mark, Abandon, Verifying, VerifyRead, VerifyUnread, NoCheck, Interference, Steal
<1>3. ~Valid(check.breaks)  BY <1>2 DEF VerifyMarkers, NoCheck
<1>4. PICK g \in check.breaks : ~Explained(g, Recorded)  BY <1>3 DEF Valid
<1>5. g # {} /\ g \subseteq Gone  BY DEF ChainInv, CheckInv, BreakInv
<1> QED  BY <1>4, <1>5, VerifyHonest DEF ChainInv

-----------------------------------------------------------------------------
(* The writer uses the chain as the chain allows *)

LEMMA WriterInit == Init => ChainInit
BY DEF Init

LEMMA WriterStep == [Next]_vars => [ChainNext]_chain
BY DEF Next, vars, Submit, Take, Write, Exit, Drained, Killed, End, ChainNext

-----------------------------------------------------------------------------
(* The writer's own state *)

Fates == (Lost..Pending) \cup Ids

\* Rows in the table or known to have left it.
Kept == live \cup purged \cup stolen

WriterTypeOK ==
    /\ fate \in Seq(Fates) /\ Len(fate) <= Requests
    /\ queue \in Seq(DOMAIN fate) /\ Len(queue) <= QueueSize
    /\ hand \in {0} \cup DOMAIN fate
    /\ dropped \in 0..Len(fate)
    /\ process \in {"up", "flushing", "drained", "killed"}

\* A row that has an id was inserted under it; nothing is lost while the
\* process runs.
DurableInv ==
    /\ \A r \in DOMAIN fate : fate[r] > 0 => fate[r] \in Kept
    /\ Running => \A r \in DOMAIN fate : fate[r] # Lost

WriterInv == WriterTypeOK /\ DurableInv

LEMMA FateFacts ==
    /\ Pending \in Fates /\ Dropped \in Fates /\ Failed \in Fates /\ Lost \in Fates
    /\ \A f \in Fates : f \in Int /\ (f \in {Pending, Dropped, Failed, Lost} \/ f > 0)
    /\ Ids \subseteq Fates
    /\ Pending < 0 /\ Dropped < 0 /\ Failed < 0 /\ Lost < 0
    /\ Lost # Pending /\ Lost # Dropped /\ Lost # Failed
<1>1. MaxId \in Nat  BY ChainAssumption
<1> QED  BY <1>1 DEF Fates, Ids, Pending, Dropped, Failed, Lost

\* A row's id never leaves what is kept.
LEMMA KeptStays == [ChainNext]_chain => Kept \subseteq Kept'
BY DEF Kept, chain, ChainNext, Maintenance, AppendRow, Insert, RollBack, Purging, Select, Reread,
       Delete, Erase, Mark, Abandon, Verifying, VerifyRead, VerifyMarkers, VerifyUnread, Interference, Steal

\* Submitting adds a request and leaves the others alone.
LEMMA FateGrows ==
    ASSUME WriterTypeOK, NEW v \in Fates, fate' = Append(fate, v)
    PROVE  /\ fate' \in Seq(Fates) /\ Len(fate') = Len(fate) + 1
           /\ DOMAIN fate' = DOMAIN fate \cup {Len(fate) + 1}
           /\ \A r \in DOMAIN fate : fate'[r] = fate[r]
           /\ fate'[Len(fate) + 1] = v
           /\ Len(fate) \in Nat /\ DOMAIN fate = 1..Len(fate)
BY DEF WriterTypeOK

\* A sequence over a set is one over a larger set.
LEMMA SeqWidens ==
    ASSUME NEW S, NEW T, S \subseteq T, NEW q \in Seq(S)  PROVE q \in Seq(T)
OBVIOUS

LEMMA SubmitKeeps ==
    ASSUME WriterInv, Submit  PROVE  WriterInv'
<1> USE FateFacts
<1>1. PICK v \in {Pending, Dropped} :
        /\ fate' = Append(fate, v)
        /\ \/ v = Pending /\ Len(queue) < QueueSize
              /\ queue' = Append(queue, Len(fate) + 1) /\ dropped' = dropped
           \/ v = Dropped /\ queue' = queue /\ dropped' = dropped + 1
  BY DEF Submit
<1>2. /\ UNCHANGED <<chain, hand, process>> /\ Len(fate) < Requests
  BY DEF Submit
<1>3. /\ fate' \in Seq(Fates) /\ Len(fate') = Len(fate) + 1
      /\ DOMAIN fate' = DOMAIN fate \cup {Len(fate) + 1}
      /\ \A r \in DOMAIN fate : fate'[r] = fate[r]
      /\ fate'[Len(fate) + 1] = v
      /\ Len(fate) \in Nat
  BY <1>1, FateGrows DEF WriterInv
<1>4. queue' \in Seq(DOMAIN fate') /\ Len(queue') <= QueueSize
  <2>1. queue \in Seq(DOMAIN fate')  BY <1>3, SeqWidens DEF WriterInv, WriterTypeOK
  <2>2. Len(fate) + 1 \in DOMAIN fate'  BY <1>3
  <2>3. Len(queue) \in Nat /\ QueueSize \in Nat  BY WriterAssumption DEF WriterInv, WriterTypeOK
  <2>4. CASE queue' = queue  BY <2>1, <2>4 DEF WriterInv, WriterTypeOK
  <2>5. CASE Len(queue) < QueueSize /\ queue' = Append(queue, Len(fate) + 1)
    <3> DEFINE T == DOMAIN fate'
    <3>1. queue \in Seq(T) /\ Len(fate) + 1 \in T  BY <2>1, <2>2
    <3> HIDE DEF T
    <3>2. /\ Append(queue, Len(fate) + 1) \in Seq(T)
          /\ Len(Append(queue, Len(fate) + 1)) = Len(queue) + 1
      BY <3>1
    <3>3. queue' \in Seq(T) /\ Len(queue') <= QueueSize  BY <2>3, <2>5, <3>2
    <3> QED  BY <3>3 DEF T
  <2> QED  BY <1>1, <2>4, <2>5
<1>5. dropped' \in 0..Len(fate')  BY <1>1, <1>3 DEF WriterInv, WriterTypeOK
<1>6. WriterTypeOK'
  BY <1>2, <1>3, <1>4, <1>5, WriterAssumption DEF WriterInv, WriterTypeOK
<1>7. Kept' = Kept  BY <1>2 DEF chain, Kept
<1>8. DurableInv'
  <2>1. \A r \in DOMAIN fate' : fate'[r] > 0 => fate'[r] \in Kept'
    BY <1>1, <1>3, <1>7 DEF WriterInv, DurableInv
  <2>2. Running' => \A r \in DOMAIN fate' : fate'[r] # Lost
    BY <1>1, <1>2, <1>3 DEF WriterInv, DurableInv, Running
  <2> QED  BY <2>1, <2>2 DEF DurableInv
<1> QED  BY <1>6, <1>8 DEF WriterInv

LEMMA TakeKeeps ==
    ASSUME WriterInv, Take  PROVE  WriterInv'
<1>1. /\ queue # <<>> /\ hand' = Head(queue) /\ queue' = Tail(queue)
      /\ UNCHANGED <<chain, fate, dropped, process>>
  BY DEF Take
<1>2. /\ Head(queue) \in DOMAIN fate /\ Tail(queue) \in Seq(DOMAIN fate)
      /\ Len(Tail(queue)) <= QueueSize
  BY <1>1, WriterAssumption DEF WriterInv, WriterTypeOK
<1>3. WriterTypeOK'  BY <1>1, <1>2 DEF WriterInv, WriterTypeOK
<1>4. DurableInv'
  BY <1>1 DEF WriterInv, DurableInv, Running, Kept, chain
<1> QED  BY <1>3, <1>4 DEF WriterInv

LEMMA WriteKeeps ==
    ASSUME WriterInv, TableTypeOK, TableTypeOK', Write  PROVE  WriterInv'
<1> USE FateFacts
<1>1. hand # 0 /\ hand' = 0 /\ Running /\ UNCHANGED <<queue, dropped, process>>
  BY DEF Write
<1>2. hand \in DOMAIN fate  BY <1>1 DEF WriterInv, WriterTypeOK
<1>3. PICK v : /\ fate' = [fate EXCEPT ![hand] = v]
               /\ v = Failed \/ (v > 0 /\ v \in Ids /\ v \in live')
               /\ [ChainNext]_chain
  <2>1. CASE fate' = [fate EXCEPT ![hand] = Failed] /\ UNCHANGED chain  BY <2>1
  <2>2. CASE (\E o \in Owners : AppendRow(o)) /\ fate' = [fate EXCEPT ![hand] = seq']
    <3>1. seq' = seq + 1 /\ seq' \in live' /\ [ChainNext]_chain
      BY <2>2 DEF AppendRow, Insert, ChainNext
    <3>2. seq' \in Ids /\ seq' > 0
      BY <3>1, ChainAssumption DEF TableTypeOK, Ids
    <3> QED  BY <2>2, <3>1, <3>2
  <2> QED  BY <2>1, <2>2 DEF Write
<1>4. v \in Fates /\ v # Lost  BY <1>3
<1>5. /\ fate' \in Seq(Fates) /\ DOMAIN fate' = DOMAIN fate /\ Len(fate') = Len(fate)
      /\ \A r \in DOMAIN fate : fate'[r] = IF r = hand THEN v ELSE fate[r]
  BY <1>2, <1>3, <1>4 DEF WriterInv, WriterTypeOK
<1>6. WriterTypeOK'  BY <1>1, <1>5 DEF WriterInv, WriterTypeOK
<1>7. Kept \subseteq Kept' /\ live' \subseteq Kept'  BY <1>3, KeptStays DEF Kept
<1>8. DurableInv'
  <2>1. \A r \in DOMAIN fate' : fate'[r] > 0 => fate'[r] \in Kept'
    BY <1>3, <1>5, <1>7 DEF WriterInv, DurableInv
  <2>2. Running' => \A r \in DOMAIN fate' : fate'[r] # Lost
    BY <1>1, <1>4, <1>5 DEF WriterInv, DurableInv, Running
  <2> QED  BY <2>1, <2>2 DEF DurableInv
<1> QED  BY <1>6, <1>8 DEF WriterInv

LEMMA EndKeeps ==
    ASSUME WriterInv, TableTypeOK, NEW how \in {"drained", "killed"}, End(how)  PROVE  WriterInv'
<1> USE FateFacts
<1>1. /\ process' = how /\ queue' = <<>> /\ hand' = 0 /\ UNCHANGED <<chain, dropped>>
      /\ fate' = [r \in DOMAIN fate |-> IF fate[r] = Pending THEN Lost ELSE fate[r]]
  BY DEF End
<1>2. fate \in Seq(Fates) /\ Len(fate) \in Nat /\ DOMAIN fate = 1..Len(fate)
  BY DEF WriterInv, WriterTypeOK
<1>3. \A r \in DOMAIN fate : fate'[r] \in Fates  BY <1>1, <1>2
<1>4. fate' \in Seq(Fates) /\ DOMAIN fate' = DOMAIN fate /\ Len(fate') = Len(fate)
  BY <1>1, <1>2, <1>3
<1>5. WriterTypeOK'
  <2>1. queue' \in Seq(DOMAIN fate') /\ Len(queue') <= QueueSize
    BY <1>1, WriterAssumption
  <2> QED  BY <1>1, <1>4, <2>1 DEF WriterInv, WriterTypeOK
<1>6. Kept' = Kept  BY <1>1 DEF chain, Kept
<1>7. DurableInv'
  <2>1. \A r \in DOMAIN fate' : fate'[r] > 0 => fate'[r] \in Kept'
    BY <1>1, <1>4, <1>6 DEF WriterInv, DurableInv
  <2>2. ~Running'  BY <1>1 DEF Running
  <2> QED  BY <2>1, <2>2 DEF DurableInv
<1> QED  BY <1>5, <1>7 DEF WriterInv

\* A step of the chain alone leaves the writer's state and what it refers to.
LEMMA MaintenanceKeeps ==
    ASSUME WriterInv, [ChainNext]_chain, UNCHANGED writer  PROVE  WriterInv'
<1>1. Kept \subseteq Kept'  BY KeptStays
<1>2. WriterTypeOK'  BY DEF writer, WriterInv, WriterTypeOK
<1>3. DurableInv'
  BY <1>1 DEF writer, WriterInv, DurableInv, Running, Kept
<1> QED  BY <1>2, <1>3 DEF WriterInv

LEMMA WriterInitInv == Init => WriterInv
<1> SUFFICES ASSUME Init PROVE WriterInv  OBVIOUS
<1>1. /\ queue = <<>> /\ hand = 0 /\ fate = <<>> /\ dropped = 0 /\ process = "up"
      /\ Requests \in Nat /\ QueueSize \in Nat
  BY WriterAssumption DEF Init
<1>2. WriterTypeOK  BY <1>1 DEF WriterTypeOK
<1>3. DurableInv  BY <1>1 DEF DurableInv
<1> QED  BY <1>2, <1>3 DEF WriterInv

LEMMA WriterStepInv == WriterInv /\ ChainInv /\ ChainInv' /\ [Next]_vars => WriterInv'
<1> SUFFICES ASSUME WriterInv, ChainInv, ChainInv', [Next]_vars PROVE WriterInv'  OBVIOUS
<1>1. CASE Submit  BY <1>1, SubmitKeeps
<1>2. CASE Take  BY <1>2, TakeKeeps
<1>3. CASE Write  BY <1>3, WriteKeeps DEF ChainInv, TableInv
<1>4. CASE Exit
  <2>1. process' = "flushing" /\ process = "up"
        /\ UNCHANGED <<chain, queue, hand, fate, dropped>>
    BY <1>4 DEF Exit
  <2>2. WriterTypeOK'  BY <2>1 DEF WriterInv, WriterTypeOK
  <2>3. DurableInv'
    BY <2>1 DEF WriterInv, DurableInv, Running, Kept, chain
  <2> QED  BY <2>2, <2>3 DEF WriterInv
<1>5. CASE Drained  BY <1>5, EndKeeps DEF Drained, ChainInv, TableInv
<1>6. CASE Killed  BY <1>6, EndKeeps DEF Killed, ChainInv, TableInv
<1>8. CASE Maintenance /\ UNCHANGED writer  BY <1>8, MaintenanceKeeps DEF ChainNext
<1>9. CASE UNCHANGED vars  BY <1>9, MaintenanceKeeps DEF vars
<1> QED  BY <1>1, <1>2, <1>3, <1>4, <1>5, <1>6, <1>8, <1>9 DEF Next

LEMMA TrailInv == Spec => [](ChainInv /\ WriterInv)
BY ChainInitInv, ChainStep, WriterInit, WriterStep, WriterInitInv, WriterStepInv, PTL DEF Spec

LEMMA TrailTypes == ChainInv /\ WriterInv => TypeOK
<1> SUFFICES ASSUME ChainInv, WriterInv PROVE TypeOK  OBVIOUS
<1>1. dropped \in 0..Requests
  <2>1. Len(fate) \in Nat /\ Len(fate) <= Requests /\ dropped \in 0..Len(fate)
    BY DEF WriterInv, WriterTypeOK
  <2> QED  BY <2>1, WriterAssumption
<1> QED  BY <1>1, ChainTypes DEF WriterInv, WriterTypeOK, TypeOK, Fates

-----------------------------------------------------------------------------
(* Every row accounted for *)

Settled(r) == fate[r] > 0 \/ fate[r] = Failed

\* The gauge.
DropInv == dropped = Cardinality({r \in DOMAIN fate : fate[r] = Dropped})

\* What waits is what the queue and the writer hold, in the order of submission.
WaitInv ==
    /\ \A r \in DOMAIN fate : fate[r] = Pending => r = hand \/ \E k \in DOMAIN queue : r = queue[k]
    /\ \A k \in DOMAIN queue : fate[queue[k]] = Pending
    /\ hand # 0 => fate[hand] = Pending
    /\ \A k, l \in DOMAIN queue : k < l => queue[k] < queue[l]
    /\ hand # 0 => \A k \in DOMAIN queue : hand < queue[k]

\* The writer settles rows in that order, so that ids grow with it.
OrderInv ==
    /\ \A r \in DOMAIN fate : fate[r] > 0 => fate[r] <= seq
    /\ \A r, s \in DOMAIN fate : Settled(r) /\ fate[s] = Pending => r < s
    /\ \A r, s \in DOMAIN fate : r < s /\ fate[r] > 0 /\ fate[s] > 0 => fate[r] < fate[s]

\* What a flush may miss.
ExitInv == process = "drained" =>
             \A r, s \in DOMAIN fate : r < s /\ fate[r] = Lost => fate[s] = Dropped

AccountInv == DropInv /\ WaitInv /\ OrderInv /\ ExitInv

\* Ids are never taken back.
LEMMA SeqGrows == TableTypeOK /\ [ChainNext]_chain => seq \in Nat /\ seq' \in Nat /\ seq <= seq'
<1> SUFFICES ASSUME TableTypeOK, [ChainNext]_chain PROVE seq \in Nat /\ seq' \in Nat /\ seq <= seq'  OBVIOUS
<1>1. seq \in Nat  BY ChainAssumption DEF TableTypeOK
<1>2. seq' = seq \/ seq' = seq + 1
  BY DEF chain, ChainNext, Maintenance, AppendRow, Insert, RollBack, Purging, Select, Reread,
         Delete, Erase, Mark, Abandon, Verifying, VerifyRead, VerifyMarkers, VerifyUnread, Interference, Steal
<1> QED  BY <1>1, <1>2

\* The gauge counts a set that stays the same, or that gains one request.
LEMMA CountGrows ==
    ASSUME WriterTypeOK, NEW v \in Fates, fate' = Append(fate, v), DropInv,
           dropped' = IF v = Dropped THEN dropped + 1 ELSE dropped
    PROVE  DropInv'
<1> DEFINE S == {r \in DOMAIN fate : fate[r] = Dropped}
           n == Len(fate) + 1
<1>1. /\ DOMAIN fate' = DOMAIN fate \cup {n} /\ (\A r \in DOMAIN fate : fate'[r] = fate[r])
      /\ fate'[n] = v /\ Len(fate) \in Nat /\ DOMAIN fate = 1..Len(fate)
  BY FateGrows
<1>2. n \notin DOMAIN fate  BY <1>1
<1>3. {r \in DOMAIN fate' : fate'[r] = Dropped} = IF v = Dropped THEN S \cup {n} ELSE S
  BY <1>1, <1>2
<1>4. IsFiniteSet(S)
  <2>1. IsFiniteSet(1..Len(fate))  BY <1>1, FS_Interval
  <2> QED  BY <1>1, <2>1, FS_Subset
<1>5. n \notin S /\ dropped = Cardinality(S)  BY <1>2 DEF DropInv
<1>6. Cardinality(S \cup {n}) = Cardinality(S) + 1  BY <1>4, <1>5, FS_AddElement
<1> QED  BY <1>3, <1>5, <1>6 DEF DropInv

LEMMA CountStays ==
    ASSUME DropInv, dropped' = dropped, DOMAIN fate' = DOMAIN fate,
           \A r \in DOMAIN fate : fate'[r] = Dropped => fate[r] = Dropped,
           \A r \in DOMAIN fate : fate[r] = Dropped => fate'[r] = Dropped
    PROVE  DropInv'
<1>1. {r \in DOMAIN fate' : fate'[r] = Dropped} = {r \in DOMAIN fate : fate[r] = Dropped}  OBVIOUS
<1> QED  BY <1>1 DEF DropInv

\* A fate is one of the reasons or an id.
LEMMA FatesApart ==
    /\ Pending \in Int /\ Dropped \in Int /\ Failed \in Int /\ Lost \in Int
    /\ Pending # Dropped /\ Pending # Failed /\ Dropped # Failed
    /\ ~(Pending > 0) /\ ~(Dropped > 0) /\ ~(Failed > 0) /\ ~(Lost > 0)
BY DEF Pending, Dropped, Failed, Lost

LEMMA SubmitAccounts ==
    ASSUME WriterInv, AccountInv, Submit  PROVE  AccountInv'
<1> USE FateFacts, FatesApart
<1> DEFINE n == Len(fate) + 1
<1>1. PICK v \in {Pending, Dropped} :
        /\ fate' = Append(fate, v)
        /\ \/ v = Pending /\ queue' = Append(queue, n) /\ dropped' = dropped
           \/ v = Dropped /\ queue' = queue /\ dropped' = dropped + 1
  BY DEF Submit
<1>2. UNCHANGED <<seq, hand>> /\ process' = "up"  BY DEF Submit, chain
<1>3. /\ DOMAIN fate' = DOMAIN fate \cup {n} /\ (\A r \in DOMAIN fate : fate'[r] = fate[r])
      /\ fate'[n] = v /\ Len(fate) \in Nat /\ DOMAIN fate = 1..Len(fate)
  BY <1>1, FateGrows DEF WriterInv
<1>4. \A r \in DOMAIN fate : r \in Nat /\ r < n  BY <1>3
<1>5. /\ queue \in Seq(DOMAIN fate) /\ Len(queue) \in Nat /\ DOMAIN queue = 1..Len(queue)
      /\ \A k \in DOMAIN queue : queue[k] \in DOMAIN fate /\ k \in Nat
      /\ hand \in {0} \cup DOMAIN fate /\ n \in Nat /\ n # 0 /\ 0 \notin DOMAIN fate
  BY <1>3 DEF WriterInv, WriterTypeOK
<1> HIDE DEF n
<1>6. DropInv'
  <2>1. dropped' = IF v = Dropped THEN dropped + 1 ELSE dropped  BY <1>1
  <2>2. v \in Fates  OBVIOUS
  <2> QED  BY <1>1, <2>1, <2>2, CountGrows DEF AccountInv, WriterInv
<1>7. WaitInv'
  <2>1. CASE v = Dropped
    <3>1. queue' = queue /\ fate'[n] # Pending  BY <1>1, <1>3, <2>1
    <3>2. \A r \in DOMAIN fate' : fate'[r] = Pending => r \in DOMAIN fate /\ fate[r] = Pending
      BY <1>3, <3>1
    <3>3. \A k \in DOMAIN queue : fate'[queue[k]] = fate[queue[k]]  BY <1>3, <1>5
    <3>4. hand # 0 => fate'[hand] = fate[hand]  BY <1>3, <1>5
    <3> QED  BY <1>2, <3>1, <3>2, <3>3, <3>4 DEF AccountInv, WaitInv
  <2>2. CASE v = Pending
    <3>1. queue' = Append(queue, n)  BY <1>1, <2>2
    <3> DEFINE m == Len(queue) + 1
    <3>2. /\ DOMAIN queue' = DOMAIN queue \cup {m} /\ queue'[m] = n
          /\ \A k \in DOMAIN queue : queue'[k] = queue[k] /\ k < m
      BY <3>1, <1>5
    <3>3. m \in Nat  BY <1>5
    <3> HIDE DEF m
    <3>4. hand' # 0 => fate'[hand'] = Pending /\ \A k \in DOMAIN queue' : hand' < queue'[k]
      <4> SUFFICES ASSUME hand' # 0 PROVE fate'[hand'] = Pending /\ \A k \in DOMAIN queue' : hand' < queue'[k]
        OBVIOUS
      <4>1. hand \in DOMAIN fate /\ hand' = hand /\ hand < n  BY <1>2, <1>4, <1>5
      <4>2. fate[hand] = Pending /\ \A k \in DOMAIN queue : hand < queue[k]
        BY <1>2, <4>1 DEF AccountInv, WaitInv
      <4> QED  BY <1>3, <3>2, <4>1, <4>2
    <3>5. \A k \in DOMAIN queue' : fate'[queue'[k]] = Pending
      BY <1>3, <1>5, <2>2, <3>2 DEF AccountInv, WaitInv
    <3>6. \A k, l \in DOMAIN queue' : k < l => queue'[k] < queue'[l]
      <4> SUFFICES ASSUME NEW k \in DOMAIN queue', NEW l \in DOMAIN queue', k < l
                   PROVE  queue'[k] < queue'[l]
        OBVIOUS
      <4>1. CASE k = m  BY <1>5, <3>2, <3>3, <4>1
      <4>2. CASE k \in DOMAIN queue /\ l = m  BY <1>4, <1>5, <3>2, <4>2
      <4>3. CASE k \in DOMAIN queue /\ l \in DOMAIN queue  BY <3>2, <4>3 DEF AccountInv, WaitInv
      <4> QED  BY <3>2, <4>1, <4>2, <4>3
    <3>7. \A r \in DOMAIN fate' :
            fate'[r] = Pending => r = hand' \/ \E k \in DOMAIN queue' : r = queue'[k]
      <4> SUFFICES ASSUME NEW r \in DOMAIN fate', fate'[r] = Pending
                   PROVE  r = hand' \/ \E k \in DOMAIN queue' : r = queue'[k]
        OBVIOUS
      <4>1. CASE r = n  BY <3>2, <4>1
      <4>2. CASE r \in DOMAIN fate
        <5>1. r = hand \/ \E k \in DOMAIN queue : r = queue[k]
          BY <1>3, <4>2 DEF AccountInv, WaitInv
        <5> QED  BY <1>2, <3>2, <5>1
      <4> QED  BY <1>3, <4>1, <4>2
    <3> QED  BY <3>4, <3>5, <3>6, <3>7 DEF WaitInv
  <2> QED  BY <2>1, <2>2
<1>8. OrderInv'
  <2>1. ~(fate'[n] > 0) /\ fate'[n] # Failed  BY <1>3
  <2>2. \A r \in DOMAIN fate' : fate'[r] > 0 => r \in DOMAIN fate /\ fate'[r] = fate[r]
    BY <1>3, <2>1
  <2>3. \A r \in DOMAIN fate' : Settled(r)' => r \in DOMAIN fate /\ Settled(r)
    BY <1>3, <2>1 DEF Settled
  <2>4. \A r \in DOMAIN fate' : fate'[r] > 0 => fate'[r] <= seq'
    BY <1>2, <2>2 DEF AccountInv, OrderInv
  <2>5. \A r, s \in DOMAIN fate' : Settled(r)' /\ fate'[s] = Pending => r < s
    BY <1>3, <1>4, <2>3 DEF AccountInv, OrderInv
  <2>6. \A r, s \in DOMAIN fate' : r < s /\ fate'[r] > 0 /\ fate'[s] > 0 => fate'[r] < fate'[s]
    BY <2>2 DEF AccountInv, OrderInv
  <2> QED  BY <2>4, <2>5, <2>6 DEF OrderInv
<1>9. ExitInv'  BY <1>2 DEF ExitInv
<1> QED  BY <1>6, <1>7, <1>8, <1>9 DEF AccountInv

LEMMA TakeAccounts ==
    ASSUME WriterInv, AccountInv, Take  PROVE  AccountInv'
<1>1. /\ queue # <<>> /\ hand = 0 /\ hand' = Head(queue) /\ queue' = Tail(queue)
      /\ UNCHANGED <<chain, fate, dropped, process>>
  BY DEF Take
<1>2. queue \in Seq(DOMAIN fate) /\ Len(queue) \in Nat /\ Len(queue) > 0 /\ DOMAIN queue = 1..Len(queue)
  BY <1>1 DEF WriterInv, WriterTypeOK
<1>3. /\ hand' = queue[1] /\ DOMAIN queue' = 1..(Len(queue) - 1)
      /\ \A k \in DOMAIN queue' : queue'[k] = queue[k + 1]
  BY <1>1, <1>2
<1>4. 1 \in DOMAIN queue /\ \A k \in DOMAIN queue' : k + 1 \in DOMAIN queue /\ 1 < k + 1 /\ k \in Nat
  BY <1>2, <1>3
<1>5. \A k \in DOMAIN queue : k = 1 \/ \E l \in DOMAIN queue' : k = l + 1
  <2> SUFFICES ASSUME NEW k \in DOMAIN queue, k # 1 PROVE \E l \in DOMAIN queue' : k = l + 1  OBVIOUS
  <2>1. k - 1 \in DOMAIN queue' /\ k = (k - 1) + 1  BY <1>2, <1>3
  <2> QED  BY <2>1
<1>6. \A r \in DOMAIN fate : r # 0  BY DEF WriterInv, WriterTypeOK
<1>7. WaitInv'
  <2>1. \A r \in DOMAIN fate' :
          fate'[r] = Pending => r = hand' \/ \E k \in DOMAIN queue' : r = queue'[k]
    <3> SUFFICES ASSUME NEW r \in DOMAIN fate, fate[r] = Pending
                 PROVE  r = hand' \/ \E k \in DOMAIN queue' : r = queue'[k]
      BY <1>1
    <3>1. PICK k \in DOMAIN queue : r = queue[k]  BY <1>1, <1>6 DEF AccountInv, WaitInv
    <3> QED  BY <1>3, <1>5, <3>1
  <2>2. \A k \in DOMAIN queue' : fate'[queue'[k]] = Pending
    BY <1>1, <1>3, <1>4 DEF AccountInv, WaitInv
  <2>3. fate'[hand'] = Pending  BY <1>1, <1>3, <1>4 DEF AccountInv, WaitInv
  <2>4. \A k, l \in DOMAIN queue' : k < l => queue'[k] < queue'[l]
    <3> SUFFICES ASSUME NEW k \in DOMAIN queue', NEW l \in DOMAIN queue', k < l
                 PROVE  queue'[k] < queue'[l]
      OBVIOUS
    <3>1. k + 1 < l + 1  BY <1>4
    <3> QED  BY <1>3, <1>4, <3>1 DEF AccountInv, WaitInv
  <2>5. \A k \in DOMAIN queue' : hand' < queue'[k]
    BY <1>3, <1>4 DEF AccountInv, WaitInv
  <2> QED  BY <2>1, <2>2, <2>3, <2>4, <2>5 DEF WaitInv
<1>8. DropInv' /\ OrderInv' /\ ExitInv'
  BY <1>1 DEF AccountInv, DropInv, OrderInv, ExitInv, Settled, chain
<1> QED  BY <1>7, <1>8 DEF AccountInv

LEMMA WriteAccounts ==
    ASSUME WriterInv, AccountInv, TableTypeOK, Write  PROVE  AccountInv'
<1> USE FateFacts, FatesApart
<1>1. hand # 0 /\ hand' = 0 /\ Running /\ UNCHANGED <<queue, dropped, process>>
  BY DEF Write
<1>2. hand \in DOMAIN fate /\ hand \in Nat  BY <1>1 DEF WriterInv, WriterTypeOK
<1>3. PICK v : /\ fate' = [fate EXCEPT ![hand] = v]
               /\ \/ v = Failed /\ seq' = seq
                  \/ v = seq' /\ seq' = seq + 1
  <2>1. CASE fate' = [fate EXCEPT ![hand] = Failed] /\ UNCHANGED chain  BY <2>1 DEF chain
  <2>2. CASE (\E o \in Owners : AppendRow(o)) /\ fate' = [fate EXCEPT ![hand] = seq']
    <3>1. seq' = seq + 1  BY <2>2 DEF AppendRow, Insert
    <3> QED  BY <2>2, <3>1
  <2> QED  BY <2>1, <2>2 DEF Write
<1>4. seq \in Nat  BY ChainAssumption DEF TableTypeOK
<1>5. seq' \in Nat /\ seq <= seq' /\ v # Pending /\ v # Dropped  BY <1>3, <1>4
<1>6. /\ DOMAIN fate' = DOMAIN fate /\ fate'[hand] = v
      /\ \A r \in DOMAIN fate : r # hand => fate'[r] = fate[r]
      /\ \A r \in DOMAIN fate : fate[r] \in Int /\ r \in Nat
  BY <1>2, <1>3 DEF WriterInv, WriterTypeOK
<1>7. fate[hand] = Pending  BY <1>1 DEF AccountInv, WaitInv
<1>8. \A r \in DOMAIN fate : Settled(r) => r < hand  BY <1>2, <1>7 DEF AccountInv, OrderInv
<1>9. \A k \in DOMAIN queue : queue[k] \in DOMAIN fate /\ hand < queue[k] /\ queue[k] # hand
  <2>1. \A k \in DOMAIN queue : queue[k] \in DOMAIN fate  BY DEF WriterInv, WriterTypeOK
  <2>2. \A k \in DOMAIN queue : hand < queue[k]  BY <1>1 DEF AccountInv, WaitInv
  <2> QED  BY <1>2, <1>6, <2>1, <2>2
<1>10. DropInv'
  <2>1. \A r \in DOMAIN fate : fate'[r] = Dropped => fate[r] = Dropped  BY <1>5, <1>6
  <2>2. \A r \in DOMAIN fate : fate[r] = Dropped => fate'[r] = Dropped  BY <1>6, <1>7
  <2> QED  BY <1>1, <1>6, <2>1, <2>2, CountStays DEF AccountInv
<1>11. \A r \in DOMAIN fate' : fate'[r] = Pending => r # hand /\ fate[r] = Pending  BY <1>5, <1>6
<1>12. WaitInv'
  <2>1. \A r \in DOMAIN fate' : fate'[r] = Pending => \E k \in DOMAIN queue' : r = queue'[k]
    BY <1>1, <1>6, <1>11 DEF AccountInv, WaitInv
  <2>2. \A k \in DOMAIN queue' : fate'[queue'[k]] = Pending
    BY <1>1, <1>6, <1>9 DEF AccountInv, WaitInv
  <2> QED  BY <1>1, <2>1, <2>2 DEF AccountInv, WaitInv
<1>13. OrderInv'
  <2>1. \A r \in DOMAIN fate' : fate'[r] > 0 => fate'[r] <= seq'
    <3> SUFFICES ASSUME NEW r \in DOMAIN fate, fate'[r] > 0 PROVE fate'[r] <= seq'  BY <1>6
    <3>1. CASE r = hand  BY <1>3, <1>5, <1>6, <3>1
    <3>2. CASE r # hand
      <4>1. fate'[r] = fate[r] /\ fate[r] <= seq  BY <1>6, <3>2 DEF AccountInv, OrderInv
      <4> QED  BY <1>4, <1>5, <1>6, <4>1
    <3> QED  BY <3>1, <3>2
  <2>2. \A r, s \in DOMAIN fate' : Settled(r)' /\ fate'[s] = Pending => r < s
    <3> SUFFICES ASSUME NEW r \in DOMAIN fate, NEW s \in DOMAIN fate, Settled(r)', fate'[s] = Pending
                 PROVE  r < s
      BY <1>6
    <3>1. fate[s] = Pending /\ s # hand  BY <1>6, <1>11
    <3>2. CASE r = hand
      <4>1. PICK k \in DOMAIN queue : s = queue[k]  BY <3>1 DEF AccountInv, WaitInv
      <4> QED  BY <1>9, <3>2, <4>1
    <3>3. CASE r # hand
      <4>1. Settled(r)  BY <1>6, <3>3 DEF Settled
      <4> QED  BY <3>1, <4>1 DEF AccountInv, OrderInv
    <3> QED  BY <3>2, <3>3
  <2>3. \A r, s \in DOMAIN fate' : r < s /\ fate'[r] > 0 /\ fate'[s] > 0 => fate'[r] < fate'[s]
    <3> SUFFICES ASSUME NEW r \in DOMAIN fate, NEW s \in DOMAIN fate,
                        r < s, fate'[r] > 0, fate'[s] > 0
                 PROVE  fate'[r] < fate'[s]
      BY <1>6
    <3>1. CASE r # hand /\ s # hand  BY <1>6, <3>1 DEF AccountInv, OrderInv
    <3>2. CASE r = hand
      <4>1. s # hand /\ s \in Nat  BY <1>2, <1>6, <3>2
      <4>2. Settled(s)  BY <1>6, <4>1 DEF Settled
      <4>3. s < hand  BY <1>8, <4>2
      <4> QED  BY <1>2, <3>2, <4>1, <4>3
    <3>3. CASE s = hand
      <4>1. r # hand  BY <1>2, <1>6, <3>3
      <4>2. fate'[r] = fate[r] /\ fate[r] <= seq /\ fate[r] \in Int
        BY <1>6, <4>1 DEF AccountInv, OrderInv
      <4>3. v = seq + 1  BY <1>3, <1>6, <3>3
      <4> QED  BY <1>4, <1>6, <3>3, <4>2, <4>3
    <3> QED  BY <3>1, <3>2, <3>3
  <2> QED  BY <2>1, <2>2, <2>3 DEF OrderInv
<1>14. ExitInv'  BY <1>1 DEF ExitInv, Running
<1> QED  BY <1>10, <1>12, <1>13, <1>14 DEF AccountInv

LEMMA EndAccounts ==
    ASSUME WriterInv, AccountInv, Running, NEW how, End(how), how = "drained" => queue = <<>>
    PROVE  AccountInv'
<1> USE FateFacts, FatesApart
<1>1. /\ process' = how /\ queue' = <<>> /\ hand' = 0 /\ dropped' = dropped /\ seq' = seq
      /\ DOMAIN fate' = DOMAIN fate
      /\ \A r \in DOMAIN fate : fate'[r] = IF fate[r] = Pending THEN Lost ELSE fate[r]
  BY DEF End, chain
<1>2. DOMAIN queue' = {}  BY <1>1
<1>3. \A r \in DOMAIN fate : fate[r] # Lost  BY DEF WriterInv, DurableInv
<1>4. \A r \in DOMAIN fate' : fate'[r] # Pending /\ (fate'[r] > 0 => fate[r] = fate'[r])  BY <1>1
<1>5. DropInv'
  <2>1. \A r \in DOMAIN fate : fate'[r] = Dropped => fate[r] = Dropped  BY <1>1
  <2>2. \A r \in DOMAIN fate : fate[r] = Dropped => fate'[r] = Dropped  BY <1>1
  <2> QED  BY <1>1, <2>1, <2>2, CountStays DEF AccountInv
<1>6. WaitInv'  BY <1>1, <1>2, <1>4 DEF WaitInv
<1>7. OrderInv'
  <2>1. \A r \in DOMAIN fate' : fate'[r] > 0 => fate'[r] <= seq'
    BY <1>1, <1>4 DEF AccountInv, OrderInv
  <2>2. \A r, s \in DOMAIN fate' : r < s /\ fate'[r] > 0 /\ fate'[s] > 0 => fate'[r] < fate'[s]
    BY <1>1, <1>4 DEF AccountInv, OrderInv
  <2> QED  BY <1>4, <2>1, <2>2 DEF OrderInv
<1>8. ExitInv'
  <2> SUFFICES ASSUME how = "drained", NEW r \in DOMAIN fate, NEW s \in DOMAIN fate, r < s, fate'[r] = Lost
               PROVE  fate'[s] = Dropped
    BY <1>1 DEF ExitInv
  <2>1. fate[r] = Pending  BY <1>1, <1>3
  <2>2. DOMAIN queue = {}  OBVIOUS
  <2>3. r = hand  BY <2>1, <2>2 DEF AccountInv, WaitInv
  <2>4. r \in Nat /\ s \in Nat  BY DEF WriterInv, WriterTypeOK
  <2>5. fate[s] # Pending  BY <2>2, <2>3, <2>4 DEF AccountInv, WaitInv
  <2>6. ~Settled(s)
    <3> SUFFICES ASSUME Settled(s) PROVE FALSE  OBVIOUS
    <3>1. s < r  BY <2>1 DEF AccountInv, OrderInv
    <3> QED  BY <2>4, <3>1
  <2>7. fate[s] \in Fates  BY DEF WriterInv, WriterTypeOK
  <2> QED  BY <1>1, <1>3, <2>5, <2>6, <2>7 DEF Settled
<1> QED  BY <1>5, <1>6, <1>7, <1>8 DEF AccountInv

\* A step that only lets the ids grow.
LEMMA OthersAccount ==
    ASSUME WriterInv, AccountInv, TableTypeOK, [ChainNext]_chain,
           UNCHANGED <<queue, hand, fate, dropped>>, process' = "drained" => process = "drained"
    PROVE  AccountInv'
<1>1. seq \in Nat /\ seq' \in Nat /\ seq <= seq'  BY SeqGrows
<1>2. \A r \in DOMAIN fate : fate[r] \in Int  BY FateFacts DEF WriterInv, WriterTypeOK
<1>3. \A r \in DOMAIN fate' : fate'[r] > 0 => fate'[r] <= seq'
  BY <1>1, <1>2 DEF AccountInv, OrderInv
<1>4. OrderInv'  BY <1>3 DEF AccountInv, OrderInv, Settled
<1> QED  BY <1>4 DEF AccountInv, DropInv, WaitInv, ExitInv

LEMMA InitAccounts == Init => AccountInv
<1> SUFFICES ASSUME Init PROVE AccountInv  OBVIOUS
<1>1. DOMAIN fate = {} /\ DOMAIN queue = {} /\ hand = 0 /\ dropped = 0 /\ process = "up"  BY DEF Init
<1>2. {r \in DOMAIN fate : fate[r] = Dropped} = {}  BY <1>1
<1>3. DropInv  BY <1>1, <1>2, FS_EmptySet DEF DropInv
<1> QED  BY <1>1, <1>3 DEF AccountInv, WaitInv, OrderInv, ExitInv

LEMMA StepAccounts == AccountInv /\ WriterInv /\ ChainInv /\ [Next]_vars => AccountInv'
<1> SUFFICES ASSUME AccountInv, WriterInv, ChainInv, [Next]_vars PROVE AccountInv'  OBVIOUS
<1>a. TableTypeOK  BY DEF ChainInv, TableInv
<1>b. [ChainNext]_chain  BY WriterStep
<1>1. CASE Submit  BY <1>1, SubmitAccounts
<1>2. CASE Take  BY <1>2, TakeAccounts
<1>3. CASE Write  BY <1>a, <1>3, WriteAccounts
<1>4. CASE Exit  BY <1>a, <1>b, <1>4, OthersAccount DEF Exit
<1>5. CASE Drained  BY <1>5, EndAccounts DEF Drained, Running
<1>6. CASE Killed  BY <1>6, EndAccounts DEF Killed
<1>8. CASE Maintenance /\ UNCHANGED writer  BY <1>a, <1>b, <1>8, OthersAccount DEF writer
<1>9. CASE UNCHANGED vars  BY <1>a, <1>b, <1>9, OthersAccount DEF vars, writer
<1> QED  BY <1>1, <1>2, <1>3, <1>4, <1>5, <1>6, <1>8, <1>9 DEF Next

LEMMA InvAccounted == AccountInv /\ WriterInv => Accounted
<1> SUFFICES ASSUME AccountInv, WriterInv PROVE Accounted  OBVIOUS
<1>1. \A k \in DOMAIN queue : queue[k] \in DOMAIN fate  BY DEF WriterInv, WriterTypeOK
<1>2. hand # 0 => hand \in DOMAIN fate  BY DEF WriterInv, WriterTypeOK
<1>3. {r \in DOMAIN fate : fate[r] = Pending} = {queue[k] : k \in DOMAIN queue} \cup ({hand} \ {0})
  <2>1. \A r \in DOMAIN fate : r # 0  BY DEF WriterInv, WriterTypeOK
  <2> QED  BY <1>1, <1>2, <2>1 DEF AccountInv, WaitInv
<1> QED  BY <1>3 DEF AccountInv, DropInv, OrderInv, ExitInv, Accounted

-----------------------------------------------------------------------------
(* The theorems *)

\* Chain and writer are type correct and the queue keeps its bound, for any
\* number of requests, purges, ids and faults.
THEOREM TypeCorrect == Spec => []TypeOK
BY TrailInv, TrailTypes, PTL

\* Every gap the verifier meets is explained by the markers in the table or has
\* an id in it that a third party removed, the database burned or an interrupted
\* purge left without a marker (verify_audit_chain, _gap_explains, _delete_ids).
THEOREM HonestLog == Spec => []HonestLogVerifies
BY TrailInv, InvHonestLog, PTL

\* No marker covers up for a row that no purge deleted, but for one removed between
\* the SELECT and the DELETE of a purge on PostgreSQL (_delete_ids).
THEOREM NoCoverUp == Spec => []RemovalDetected
BY TrailInv, InvRemoval, PTL

\* A verification that reads rows and markers at two moments, and can read the
\* markers, reports a violation only over a gap that has a suspect id in it.
THEOREM TwoReads == Spec => HonestVerdict
<1>1. ChainInv /\ [Next]_vars =>
        [check.pc = "rows" /\ check'.pc = "violation"
            => \E g \in check.breaks : g \cap Suspect # {}]_chain
  BY WriterStep, StepHonestVerdict
<1> QED  BY <1>1, TrailInv, PTL DEF Spec, HonestVerdict

\* Every row submitted waits, is written in the order of submission or is gone
\* for a counted or logged reason, and a flush that saw the queue empty misses at
\* most the row in the writer's hand (_AuditWriter.submit, _run, flush).
THEOREM RowsAccounted == Spec => []Accounted
<1>1. Spec => []AccountInv
  BY TrailInv, InitAccounts, StepAccounts, PTL DEF Spec
<1> QED  BY <1>1, TrailInv, InvAccounted, PTL
=============================================================================
