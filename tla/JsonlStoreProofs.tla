-------------------------- MODULE JsonlStoreProofs --------------------------
(***************************************************************************)
(* Proofs about JsonlStore for any number of jobs, boots and outages and   *)
(* any caps: type correctness, the bound on the file, that one rewrite     *)
(* heals what outages, cut lines and equal timestamps did, and, on a disk  *)
(* that works and with jobs of different seconds, that the store           *)
(* implements DurableStore.                                                *)
(***************************************************************************)
EXTENDS JsonlStore, FiniteSetTheorems, NaturalsInduction, TLAPS

-----------------------------------------------------------------------------
(* Sorting *)

\* The positions of a sequence are finitely many numbers.
LEMMA Positions ==
    ASSUME NEW s \in Seq(Row)
    PROVE  /\ DOMAIN s = 1..Len(s) /\ Len(s) \in Nat
           /\ IsFiniteSet(DOMAIN s) /\ Cardinality(DOMAIN s) = Len(s)
           /\ \A i \in DOMAIN s : i \in Nat /\ s[i] \in Row /\ s[i].at \in Nat
<1>1. DOMAIN s = 1..Len(s) /\ Len(s) \in Nat  OBVIOUS
<1>2. IsFiniteSet(1..Len(s)) /\ Cardinality(1..Len(s)) = Len(s)  BY <1>1, FS_Interval
<1>3. \A i \in DOMAIN s : i \in Nat /\ s[i] \in Row  BY <1>1
<1> QED  BY <1>1, <1>2, <1>3 DEF Row

\* Newer is a strict total order on the positions.
LEMMA NewerOrder ==
    ASSUME NEW s \in Seq(Row)
    PROVE  /\ \A i \in DOMAIN s : ~Newer(s, i, i)
           /\ \A i, k \in DOMAIN s : i = k \/ Newer(s, i, k) \/ Newer(s, k, i)
           /\ \A i, k, l \in DOMAIN s : Newer(s, i, k) /\ Newer(s, k, l) => Newer(s, i, l)
<1>1. \A i \in DOMAIN s : i \in Nat /\ s[i].at \in Nat  BY Positions
<1> QED  BY <1>1 DEF Newer

\* A position's rank counts the newer ones, below the length.
LEMMA RankRange ==
    ASSUME NEW s \in Seq(Row), NEW k \in DOMAIN s
    PROVE  /\ IsFiniteSet({i \in DOMAIN s : Newer(s, i, k)})
           /\ Rank(s, k) \in 0..(Len(s) - 1)
<1> DEFINE S == {i \in DOMAIN s : Newer(s, i, k)}
<1>1. IsFiniteSet(DOMAIN s) /\ Cardinality(DOMAIN s) = Len(s) /\ Len(s) \in Nat  BY Positions
<1>2. S \in SUBSET (DOMAIN s \ {k})  BY NewerOrder
<1>3. IsFiniteSet(DOMAIN s \ {k}) /\ Cardinality(DOMAIN s \ {k}) = Len(s) - 1
  BY <1>1, FS_RemoveElement
<1>4. IsFiniteSet(S) /\ Cardinality(S) <= Len(s) - 1  BY <1>2, <1>3, FS_Subset
<1>5. Cardinality(S) \in Nat  BY <1>4, FS_CardinalityType
<1> QED  BY <1>1, <1>4, <1>5 DEF Rank

\* Ranks order the positions.
LEMMA RankOrder ==
    ASSUME NEW s \in Seq(Row), NEW i \in DOMAIN s, NEW k \in DOMAIN s, Newer(s, i, k)
    PROVE  Rank(s, i) < Rank(s, k)
<1> DEFINE S == {x \in DOMAIN s : Newer(s, x, i)}
           T == {x \in DOMAIN s : Newer(s, x, k)}
<1>1. IsFiniteSet(S) /\ IsFiniteSet(T) /\ i \notin S  BY RankRange, NewerOrder
<1>2. S \cup {i} \in SUBSET T  BY NewerOrder
<1>3. Cardinality(S \cup {i}) = Cardinality(S) + 1  BY <1>1, FS_AddElement
<1>4. Cardinality(S \cup {i}) <= Cardinality(T)  BY <1>1, <1>2, FS_Subset
<1>5. Cardinality(S) \in Nat /\ Cardinality(T) \in Nat  BY <1>1, FS_CardinalityType
<1> QED  BY <1>3, <1>4, <1>5 DEF Rank

\* Every number below the length is the rank of one position.
LEMMA RankOnto ==
    ASSUME NEW s \in Seq(Row), NEW n \in 0..(Len(s) - 1)
    PROVE  \E k \in DOMAIN s : Rank(s, k) = n
<1> DEFINE f == [k \in DOMAIN s |-> Rank(s, k)]
           T == 0..(Len(s) - 1)
<1>1. IsFiniteSet(DOMAIN s) /\ Cardinality(DOMAIN s) = Len(s) /\ Len(s) \in Nat  BY Positions
<1>2. IsFiniteSet(T) /\ Cardinality(T) = Len(s)
  <2>1. 0 \in Int /\ Len(s) - 1 \in Int  BY <1>1
  <2>2. IsFiniteSet(T) /\ Cardinality(T) = IF 0 > Len(s) - 1 THEN 0 ELSE (Len(s) - 1) - 0 + 1
    BY <2>1, FS_Interval
  <2> QED  BY <1>1, <2>2
<1>3. f \in [DOMAIN s -> T]  BY RankRange
<1>4. \A i, k \in DOMAIN s : f[i] = f[k] => i = k
  <2> SUFFICES ASSUME NEW i \in DOMAIN s, NEW k \in DOMAIN s, f[i] = f[k], i # k PROVE FALSE
    OBVIOUS
  <2>1. Rank(s, i) = Rank(s, k)  OBVIOUS
  <2>a. Rank(s, i) \in 0..(Len(s) - 1) /\ Rank(s, k) \in 0..(Len(s) - 1)  BY RankRange
  <2>2. Newer(s, i, k) \/ Newer(s, k, i)  BY NewerOrder
  <2>3. Rank(s, i) < Rank(s, k) \/ Rank(s, k) < Rank(s, i)  BY <2>2, RankOrder
  <2> QED  BY <1>1, <2>1, <2>a, <2>3
<1>5. f \in Injection(DOMAIN s, T)  BY <1>3, <1>4 DEF Injection, IsInjective
<1> HIDE DEF f
<1>6. f \in Surjection(DOMAIN s, T)  BY <1>1, <1>2, <1>5, FS_Injection
<1>7. \E k \in DOMAIN s : f[k] = n  BY <1>6 DEF Surjection
<1> QED  BY <1>7 DEF f

\* Sorting permutes: position p holds the row of rank p - 1.
LEMMA Sorting ==
    ASSUME NEW s \in Seq(Row)
    PROVE  /\ NewestFirst(s) \in Seq(Row) /\ Len(NewestFirst(s)) = Len(s)
           /\ DOMAIN NewestFirst(s) = DOMAIN s
           /\ \A p \in DOMAIN s : \E k \in DOMAIN s : Rank(s, k) = p - 1 /\ NewestFirst(s)[p] = s[k]
<1> DEFINE pick(p) == CHOOSE k \in DOMAIN s : Rank(s, k) = p - 1
<1>1. DOMAIN s = 1..Len(s) /\ Len(s) \in Nat  BY Positions
<1>2. \A p \in DOMAIN s : pick(p) \in DOMAIN s /\ Rank(s, pick(p)) = p - 1
  <2> SUFFICES ASSUME NEW p \in DOMAIN s PROVE pick(p) \in DOMAIN s /\ Rank(s, pick(p)) = p - 1
    OBVIOUS
  <2>1. p - 1 \in 0..(Len(s) - 1)  BY <1>1
  <2>2. \E k \in DOMAIN s : Rank(s, k) = p - 1  BY <2>1, RankOnto
  <2> QED  BY <2>2
<1>3. \A p \in DOMAIN s : NewestFirst(s)[p] = s[pick(p)]  BY DEF NewestFirst
<1> HIDE DEF pick
<1>4. \A p \in DOMAIN s : s[pick(p)] \in Row  BY <1>2, Positions
<1>5. NewestFirst(s) \in [1..Len(s) -> Row]
  <2>1. DOMAIN NewestFirst(s) = 1..Len(s)  BY <1>1 DEF NewestFirst
  <2>2. NewestFirst(s) = [p \in DOMAIN s |-> NewestFirst(s)[p]]  BY DEF NewestFirst
  <2> QED  BY <1>1, <1>3, <1>4, <2>2
<1>6. NewestFirst(s) \in Seq(Row) /\ Len(NewestFirst(s)) = Len(s)  BY <1>1, <1>5
<1> QED  BY <1>1, <1>2, <1>3, <1>5, <1>6

\* The sorted sequence descends.
LEMMA SortedDown ==
    ASSUME NEW s \in Seq(Row), NEW p \in DOMAIN s, NEW q \in DOMAIN s, p < q
    PROVE  NewestFirst(s)[p].at >= NewestFirst(s)[q].at
<1>1. PICK i \in DOMAIN s : Rank(s, i) = p - 1 /\ NewestFirst(s)[p] = s[i]  BY Sorting
<1>2. PICK k \in DOMAIN s : Rank(s, k) = q - 1 /\ NewestFirst(s)[q] = s[k]  BY Sorting
<1>3. p \in Nat /\ q \in Nat /\ s[i].at \in Nat /\ s[k].at \in Nat /\ i \in Nat /\ k \in Nat  BY Positions
<1>4. ~(Rank(s, k) < Rank(s, i)) /\ Rank(s, i) # Rank(s, k)  BY <1>1, <1>2, <1>3
<1>5. ~Newer(s, k, i)  BY <1>4, RankOrder
<1> QED  BY <1>1, <1>2, <1>3, <1>5 DEF Newer

\* It holds every row.
LEMMA SortedAll ==
    ASSUME NEW s \in Seq(Row), NEW k \in DOMAIN s
    PROVE  \E p \in DOMAIN s : NewestFirst(s)[p] = s[k]
<1>1. DOMAIN s = 1..Len(s) /\ Len(s) \in Nat  BY Positions
<1>2. Rank(s, k) \in 0..(Len(s) - 1)  BY RankRange
<1>3. Rank(s, k) + 1 \in DOMAIN s  BY <1>1, <1>2
<1>4. PICK i \in DOMAIN s : Rank(s, i) = (Rank(s, k) + 1) - 1 /\ NewestFirst(s)[Rank(s, k) + 1] = s[i]
  BY <1>3, Sorting
<1>5. Rank(s, i) = Rank(s, k) /\ Rank(s, i) \in Nat  BY <1>2, <1>4
<1>6. ~Newer(s, i, k) /\ ~Newer(s, k, i)  BY <1>5, RankOrder
<1>7. i = k  BY <1>6, NewerOrder
<1> QED  BY <1>3, <1>4, <1>7

\* The newest rows, at most as many as the cap.
LEMMA Trimming ==
    ASSUME NEW s \in Seq(Row)
    PROVE  /\ Trim(s) \in Seq(Row) /\ Len(Trim(s)) <= Len(s) /\ Len(Trim(s)) <= MaxJobs
           /\ Len(Trim(s)) = IF Len(s) < MaxJobs THEN Len(s) ELSE MaxJobs
           /\ \A p \in DOMAIN Trim(s) : p \in DOMAIN s /\ Trim(s)[p] = NewestFirst(s)[p]
<1> DEFINE n == NewestFirst(s)
           m == IF Len(s) < MaxJobs THEN Len(s) ELSE MaxJobs
<1>1. n \in Seq(Row) /\ Len(n) = Len(s) /\ Len(s) \in Nat /\ DOMAIN n = DOMAIN s /\ DOMAIN s = 1..Len(s)
  BY Sorting, Positions
<1>2. m \in Nat /\ m <= Len(s) /\ m <= MaxJobs  BY <1>1, StoreAssumption
<1>3. Trim(s) = SubSeq(n, 1, m)  BY DEF Trim
<1> HIDE DEF n, m
<1>4. /\ SubSeq(n, 1, m) \in Seq(Row) /\ Len(SubSeq(n, 1, m)) = m
      /\ \A p \in 1..m : SubSeq(n, 1, m)[p] = n[p]
  BY <1>1, <1>2
<1>5. DOMAIN Trim(s) = 1..m  BY <1>3, <1>4
<1>6. 1..m \subseteq DOMAIN s  BY <1>1, <1>2
<1> QED  BY <1>2, <1>3, <1>4, <1>5, <1>6 DEF n, m

LEMMA LoadedType ==
    ASSUME NEW s \in Seq(Row)
    PROVE  Loaded(s) \in Seq(Row) /\ Len(Loaded(s)) <= MaxJobs /\ Len(Loaded(s)) <= Len(s)
<1>1. Len(s) \in Nat /\ MaxJobs \in Nat  BY StoreAssumption
<1> QED  BY <1>1, Trimming DEF Loaded

\* Sets of numbers have a least one.
LEMMA Least ==
    ASSUME NEW S \in SUBSET Nat, S # {}
    PROVE  \E m \in S : \A k \in S : m <= k
<1>1. \E x \in S : \A y \in S : ~(<<y, x>> \in OpToRel(<, Nat))
  BY NatLessThanWellFounded, WFMin
<1>2. PICK x \in S : \A y \in S : ~(y < x)  BY <1>1 DEF OpToRel
<1>3. \A y \in S : x <= y  BY <1>2
<1> QED  BY <1>3

\* The first of the oldest.
Oldest(s, i) == \A k \in DOMAIN s : s[i].at < s[k].at \/ (s[i].at = s[k].at /\ i <= k)

LEMMA OldestExists ==
    ASSUME NEW s \in Seq(Row), Len(s) > 0
    PROVE  \E i \in DOMAIN s : Oldest(s, i)
<1> DEFINE A == {s[k].at : k \in DOMAIN s}
<1>1. 1 \in DOMAIN s /\ \A k \in DOMAIN s : k \in Nat /\ s[k].at \in Nat  BY Positions
<1>2. A \in SUBSET Nat /\ A # {}  BY <1>1
<1>3. PICK a \in A : \A b \in A : a <= b  BY <1>2, Least
<1> DEFINE B == {k \in DOMAIN s : s[k].at = a}
<1>4. B \in SUBSET Nat /\ B # {}  BY <1>1
<1>5. PICK i \in B : \A k \in B : i <= k  BY <1>4, Least
<1>6. i \in DOMAIN s /\ s[i].at = a  OBVIOUS
<1>7. ASSUME NEW k \in DOMAIN s PROVE s[i].at < s[k].at \/ (s[i].at = s[k].at /\ i <= k)
  <2>1. a <= s[k].at /\ s[k].at \in Nat /\ a \in Nat  BY <1>1, <1>2, <1>3
  <2>2. s[k].at = a => i <= k  BY <1>5
  <2> QED  BY <1>6, <2>1, <2>2
<1> QED  BY <1>6, <1>7 DEF Oldest

\* Removing a position closes the gap.
LEMMA Removing ==
    ASSUME NEW s \in Seq(Row), NEW e \in DOMAIN s
    PROVE  /\ RemoveAt(s, e) \in Seq(Row) /\ Len(RemoveAt(s, e)) = Len(s) - 1
           /\ \A p \in 1..(Len(s) - 1) : RemoveAt(s, e)[p] = s[IF p < e THEN p ELSE p + 1]
<1> DEFINE a == SubSeq(s, 1, e - 1)
           b == SubSeq(s, e + 1, Len(s))
<1>1. Len(s) \in Nat /\ e \in Nat /\ 1 <= e /\ e <= Len(s) /\ DOMAIN s = 1..Len(s)  BY Positions
<1>2. a \in Seq(Row) /\ Len(a) = e - 1 /\ \A p \in 1..(e - 1) : a[p] = s[p]  BY <1>1
<1>3. b \in Seq(Row) /\ Len(b) = Len(s) - e /\ \A p \in 1..(Len(s) - e) : b[p] = s[e + p]  BY <1>1
<1>4. RemoveAt(s, e) = a \o b  BY DEF RemoveAt
<1> HIDE DEF a, b
<1>a. Len(a) + Len(b) = Len(s) - 1  BY <1>1, <1>2, <1>3
<1>b. /\ a \o b \in Seq(Row) /\ Len(a \o b) = Len(a) + Len(b)
      /\ \A p \in 1..(Len(a) + Len(b)) : (a \o b)[p] = IF p <= Len(a) THEN a[p] ELSE b[p - Len(a)]
  BY <1>2, <1>3
<1>5. /\ a \o b \in Seq(Row) /\ Len(a \o b) = Len(s) - 1
      /\ \A p \in 1..(Len(s) - 1) : (a \o b)[p] = IF p <= Len(a) THEN a[p] ELSE b[p - Len(a)]
  BY <1>a, <1>b
<1>6. ASSUME NEW p \in 1..(Len(s) - 1) PROVE (a \o b)[p] = s[IF p < e THEN p ELSE p + 1]
  <2>1. CASE p < e
    <3>1. p \in 1..(e - 1) /\ p <= Len(a)  BY <1>1, <1>2, <2>1
    <3> QED  BY <1>2, <1>5, <2>1, <3>1
  <2>2. CASE ~(p < e)
    <3>1. p - Len(a) \in 1..(Len(s) - e) /\ ~(p <= Len(a)) /\ e + (p - Len(a)) = p + 1
      BY <1>1, <1>2, <2>2
    <3> QED  BY <1>3, <1>5, <2>2, <3>1
  <2> QED  BY <2>1, <2>2
<1> QED  BY <1>4, <1>5, <1>6

\* Eviction removes the first of the oldest rows, at the cap only.
LEMMA Evicting ==
    ASSUME NEW s \in Seq(Row)
    PROVE  /\ Len(s) <= MaxJobs => Evict(s) = s
           /\ Len(s) > MaxJobs =>
                \E e \in DOMAIN s : Oldest(s, e) /\ Evict(s) = RemoveAt(s, e)
<1>1. Len(s) \in Nat /\ MaxJobs \in Nat /\ MaxJobs > 0  BY StoreAssumption
<1>2. Len(s) <= MaxJobs => Evict(s) = s  BY <1>1 DEF Evict
<1>3. ASSUME Len(s) > MaxJobs PROVE \E e \in DOMAIN s : Oldest(s, e) /\ Evict(s) = RemoveAt(s, e)
  <2>1. \E i \in DOMAIN s : Oldest(s, i)  BY <1>1, <1>3, OldestExists
  <2> DEFINE e == CHOOSE i \in DOMAIN s : Oldest(s, i)
  <2>2. e \in DOMAIN s /\ Oldest(s, e)  BY <2>1
  <2>3. Evict(s) = RemoveAt(s, e)  BY <1>3 DEF Evict, Oldest
  <2> QED  BY <2>2, <2>3
<1> QED  BY <1>2, <1>3

LEMMA EvictType ==
    ASSUME NEW s \in Seq(Row), Len(s) <= MaxJobs + 1
    PROVE  /\ Evict(s) \in Seq(Row) /\ Len(Evict(s)) <= MaxJobs
           /\ Len(Evict(s)) <= Len(s) /\ Len(Evict(s)) >= Len(s) - 1
<1>1. Len(s) \in Nat /\ MaxJobs \in Nat  BY StoreAssumption
<1>2. CASE Len(s) <= MaxJobs  BY <1>1, <1>2, Evicting
<1>3. CASE Len(s) > MaxJobs
  <2>1. PICK e \in DOMAIN s : Evict(s) = RemoveAt(s, e)  BY <1>3, Evicting
  <2> QED  BY <1>1, <2>1, Removing
<1> QED  BY <1>1, <1>2, <1>3

-----------------------------------------------------------------------------
(* Type correctness and the size of the file *)

\* Beyond the live rows and the dead lines it was loaded with, the file holds what
\* was appended since it was replaced; and the appends are outnumbered by the live
\* rows, but for the rewrites that were refused.
SizeInv == up =>
    /\ Len(disk.lines) <= Len(mem) + appends + dead
    /\ appends <= Len(mem) + vain

StoreInv == TypeOK /\ SizeInv

LEMMA Small == StoreInv => TwiceLive
<1> SUFFICES ASSUME StoreInv, up PROVE Len(disk.lines) <= 2 * Len(mem) + dead + vain
  BY DEF TwiceLive
<1>1. /\ Len(disk.lines) \in Nat /\ Len(mem) \in Nat /\ appends \in Nat /\ dead \in Nat /\ vain \in Nat
  BY DEF StoreInv, TypeOK
<1>2. Len(disk.lines) <= Len(mem) + appends + dead /\ appends <= Len(mem) + vain
  BY DEF StoreInv, SizeInv
<1> QED  BY <1>1, <1>2

LEMMA PendingRow == ASSUME TypeOK, NEW j \in Jobs PROVE Pending(j) \in Row
BY DEF TypeOK, Pending, Row, Status

\* What an append can do to the file.
LEMMA AppendedType ==
    ASSUME TypeOK, NEW r \in Row
    PROVE  /\ Appended(disk, r) \in [lines : Seq(Row), torn : BOOLEAN]
           /\ Len(Appended(disk, r).lines) <= Len(disk.lines) + 1
           /\ Cut(disk) \in [lines : Seq(Row), torn : BOOLEAN]
           /\ Cut(disk).lines = disk.lines
<1>1. disk \in [lines : Seq(Row), torn : BOOLEAN] /\ Tears \in BOOLEAN  BY JsonlAssumption DEF TypeOK
<1>4. Cut(disk) \in [lines : Seq(Row), torn : BOOLEAN] /\ Cut(disk).lines = disk.lines
  <2>1. (disk.torn \/ Tears) \in BOOLEAN  OBVIOUS
  <2> DEFINE t == disk.torn \/ Tears
  <2>2. Cut(disk) = [disk EXCEPT !.torn = t] /\ t \in BOOLEAN  BY <2>1 DEF Cut
  <2> HIDE DEF t
  <2> QED  BY <1>1, <2>2
<1>2. CASE disk.torn
  <2>1. Appended(disk, r) = [disk EXCEPT !.torn = FALSE]  BY <1>2 DEF Appended
  <2>2. Len(disk.lines) \in Nat  BY <1>1
  <2>3. FALSE \in BOOLEAN  OBVIOUS
  <2>4. /\ [disk EXCEPT !.torn = FALSE] \in [lines : Seq(Row), torn : BOOLEAN]
        /\ [disk EXCEPT !.torn = FALSE].lines = disk.lines
    BY <1>1, <2>3
  <2> QED  BY <1>4, <2>1, <2>2, <2>4
<1>3. CASE ~disk.torn
  <2>1. Appended(disk, r) = [disk EXCEPT !.lines = Append(disk.lines, r)]  BY <1>1, <1>3 DEF Appended
  <2>2. Append(disk.lines, r) \in Seq(Row) /\ Len(Append(disk.lines, r)) = Len(disk.lines) + 1
    BY <1>1
  <2>3. /\ [disk EXCEPT !.lines = Append(disk.lines, r)] \in [lines : Seq(Row), torn : BOOLEAN]
        /\ [disk EXCEPT !.lines = Append(disk.lines, r)].lines = Append(disk.lines, r)
    BY <1>1, <2>2
  <2>4. Len(disk.lines) \in Nat  BY <1>1
  <2> QED  BY <1>4, <2>1, <2>2, <2>3, <2>4
<1> QED  BY <1>2, <1>3

\* A file replaced from memory is as long as the memory.
LEMMA ReplaceKeeps ==
    ASSUME mem' \in Seq(Row), Replace(mem')
    PROVE  /\ disk' \in [lines : Seq(Row), torn : BOOLEAN] /\ appends' \in Nat /\ clean' \in BOOLEAN
           /\ dead' \in Nat /\ vain' \in Nat /\ SizeInv'
<1>1. /\ disk' = [lines |-> mem', torn |-> FALSE] /\ appends' = 0 /\ clean' = TRUE
      /\ dead' = 0 /\ vain' = 0
  BY DEF Replace
<1>2. disk'.lines = mem' /\ Len(mem') \in Nat  BY <1>1
<1>3. SizeInv'  BY <1>1, <1>2 DEF SizeInv
<1> QED  BY <1>1, <1>3

\* What an append leaves of the file's shape, whether the disk takes it or not.
LEMMA AppendKeeps ==
    ASSUME TypeOK, NEW r \in Row, AppendRow(r)
    PROVE  /\ disk' \in [lines : Seq(Row), torn : BOOLEAN] /\ clean' \in BOOLEAN
           /\ appends' = appends + 1 /\ appends' \in Nat
           /\ Len(disk'.lines) \in Nat /\ Len(disk'.lines) <= Len(disk.lines) + 1
<1>1. appends' = appends + 1 /\ appends \in Nat  BY DEF AppendRow, TypeOK
<1>2. clean' \in BOOLEAN  BY DEF AppendRow
<1>3. disk' = Appended(disk, r) \/ disk' = disk \/ disk' = Cut(disk)  BY DEF AppendRow
<1>4. disk \in [lines : Seq(Row), torn : BOOLEAN] /\ Len(disk.lines) \in Nat  BY DEF TypeOK
<1>5. disk' \in [lines : Seq(Row), torn : BOOLEAN] /\ Len(disk'.lines) <= Len(disk.lines) + 1
  BY <1>3, <1>4, AppendedType
<1>6. Len(disk'.lines) \in Nat  BY <1>5
<1> QED  BY <1>1, <1>2, <1>5, <1>6

LEMMA AddKeeps ==
    ASSUME StoreInv, NEW j \in Jobs, AddJob(j)
    PROVE  StoreInv'
<1>1. /\ up /\ mem' = Evict(Append(mem, Pending(j))) /\ now' \in {now, now + 1} /\ fresh' \subseteq fresh
      /\ UNCHANGED <<up, boots, diskOk, outages>>
  BY DEF AddJob, Clock, Use
<1>2. /\ TypeOK /\ Pending(j) \in Row /\ Len(mem) \in Nat /\ dead \in Nat /\ vain \in Nat
      /\ appends \in Nat /\ Len(disk.lines) \in Nat
  BY PendingRow DEF StoreInv, TypeOK
<1>3. mem' \in Seq(Row) /\ Len(mem') <= MaxJobs /\ Len(mem') >= Len(mem)
  <2> DEFINE a == Append(mem, Pending(j))
  <2>1. a \in Seq(Row) /\ Len(a) = Len(mem) + 1 /\ Len(mem) <= MaxJobs
    BY <1>2 DEF TypeOK
  <2>2. Len(a) <= MaxJobs + 1  BY <1>2, <2>1, StoreAssumption
  <2> HIDE DEF a
  <2>3. Evict(a) \in Seq(Row) /\ Len(Evict(a)) <= MaxJobs /\ Len(Evict(a)) >= Len(a) - 1
    BY <2>1, <2>2, EvictType
  <2>4. Len(Evict(a)) >= Len(mem)  BY <1>2, <2>1, <2>3
  <2> QED  BY <1>1, <2>3, <2>4 DEF a
<1>4. Len(mem') \in Nat  BY <1>3
<1>5. Len(disk.lines) <= Len(mem) + appends + dead /\ appends <= Len(mem) + vain
  BY <1>1 DEF StoreInv, SizeInv
<1>6. CASE Replace(mem')
  <2>1. /\ disk' \in [lines : Seq(Row), torn : BOOLEAN] /\ appends' \in Nat /\ clean' \in BOOLEAN
        /\ dead' \in Nat /\ vain' \in Nat /\ SizeInv'
    BY <1>3, <1>6, ReplaceKeeps
  <2> QED  BY <1>1, <1>2, <1>3, <2>1 DEF StoreInv, TypeOK
<1>7. CASE /\ AppendRow(Pending(j)) /\ dead' = dead
           /\ vain' = vain + 1 \/ (vain' = vain /\ ~(appends + 1 > Len(mem')))
  <2>1. /\ disk' \in [lines : Seq(Row), torn : BOOLEAN] /\ clean' \in BOOLEAN
        /\ appends' = appends + 1 /\ appends' \in Nat
        /\ Len(disk'.lines) \in Nat /\ Len(disk'.lines) <= Len(disk.lines) + 1
    BY <1>2, <1>7, AppendKeeps
  <2>2. vain' \in Nat /\ dead' \in Nat  BY <1>2, <1>7
  <2>3. Len(disk'.lines) <= Len(mem') + appends' + dead'  BY <1>2, <1>3, <1>4, <1>5, <1>7, <2>1
  <2>4. appends' <= Len(mem') + vain'  BY <1>2, <1>3, <1>4, <1>5, <1>7, <2>1
  <2>5. SizeInv'  BY <2>3, <2>4 DEF SizeInv
  <2> QED  BY <1>1, <1>2, <1>3, <2>1, <2>2, <2>5 DEF StoreInv, TypeOK
<1> QED  BY <1>6, <1>7 DEF AddJob, slack

\* Rewriting the statuses keeps the rows.
LEMMA MapType ==
    ASSUME NEW m \in Seq(Row), NEW n, DOMAIN n = DOMAIN m, n = [i \in DOMAIN m |-> n[i]],
           \A i \in DOMAIN m : n[i] \in Row
    PROVE  n \in Seq(Row) /\ Len(n) = Len(m)
<1>1. DOMAIN m = 1..Len(m) /\ Len(m) \in Nat  OBVIOUS
<1>2. n \in [1..Len(m) -> Row]  BY <1>1
<1> QED  BY <1>1, <1>2

LEMMA UpdatedType ==
    ASSUME TypeOK, NEW j \in Jobs, NEW s \in Active \cup Terminal, UpdateJob(j, s)
    PROVE  mem' \in Seq(Row) /\ Len(mem') = Len(mem)
<1>1. mem' = [i \in DOMAIN mem |->
                 IF mem[i].job = j THEN [mem[i] EXCEPT !.status = s] ELSE mem[i]]
  BY DEF UpdateJob
<1>2. \A i \in DOMAIN mem : mem[i] \in Row  BY DEF TypeOK
<1>3. s \in Status \ {"absent"}  BY DEF Status, Active, Terminal
<1>4. \A i \in DOMAIN mem : [mem[i] EXCEPT !.status = s] \in Row  BY <1>2, <1>3 DEF Row
<1>5. \A i \in DOMAIN mem : mem'[i] \in Row  BY <1>1, <1>2, <1>4
<1>6. DOMAIN mem' = DOMAIN mem /\ mem' = [i \in DOMAIN mem |-> mem'[i]]  BY <1>1
<1> QED  BY <1>5, <1>6, MapType DEF TypeOK

LEMMA ReconciledType ==
    ASSUME NEW m \in Seq(Row)
    PROVE  Reconciled(m) \in Seq(Row) /\ Len(Reconciled(m)) = Len(m)
<1>1. \A i \in DOMAIN m : m[i] \in Row  OBVIOUS
<1>2. "failed" \in Status \ {"absent"}  BY DEF Status, Terminal
<1>3. \A i \in DOMAIN m : [m[i] EXCEPT !.status = "failed"] \in Row  BY <1>1, <1>2 DEF Row
<1>4. /\ DOMAIN Reconciled(m) = DOMAIN m
      /\ Reconciled(m) = [i \in DOMAIN m |-> Reconciled(m)[i]]
      /\ \A i \in DOMAIN m : Reconciled(m)[i] \in Row
  BY <1>1, <1>3 DEF Reconciled
<1> QED  BY <1>4, MapType

LEMMA UpdateKeeps ==
    ASSUME StoreInv, NEW j \in Jobs, NEW s \in Active \cup Terminal, UpdateJob(j, s)
    PROVE  StoreInv'
<1>1. up /\ Rewrite(mem') /\ UNCHANGED <<up, fresh, now, boots, diskOk, outages>>  BY DEF UpdateJob
<1>2. TypeOK /\ SizeInv  BY DEF StoreInv
<1>3. mem' \in Seq(Row) /\ Len(mem') = Len(mem) /\ Len(mem') <= MaxJobs
  BY <1>2, UpdatedType DEF TypeOK
<1>4. CASE Replace(mem')
  <2>1. /\ disk' \in [lines : Seq(Row), torn : BOOLEAN] /\ appends' \in Nat /\ clean' \in BOOLEAN
        /\ dead' \in Nat /\ vain' \in Nat /\ SizeInv'
    BY <1>3, <1>4, ReplaceKeeps
  <2> QED  BY <1>1, <1>2, <1>3, <2>1 DEF StoreInv, TypeOK
<1>5. CASE clean' = FALSE /\ UNCHANGED <<disk, appends, slack>>
  <2>1. UNCHANGED <<dead, vain>>  BY <1>5 DEF slack
  <2>2. SizeInv'  BY <1>1, <1>2, <1>3, <1>5, <2>1 DEF SizeInv
  <2> QED  BY <1>1, <1>2, <1>3, <1>5, <2>1, <2>2 DEF StoreInv, TypeOK
<1> QED  BY <1>1, <1>4, <1>5 DEF Rewrite

LEMMA BootKeeps ==
    ASSUME StoreInv, Boot \/ BootEmpty
    PROVE  StoreInv'
<1> DEFINE f == Loaded(disk.lines)
<1>1. /\ ~up /\ up' = TRUE /\ boots' = boots + 1 /\ UNCHANGED <<fresh, now, diskOk, outages>>
  BY DEF Boot, BootEmpty
<1>2. TypeOK /\ boots' \in Nat /\ disk.lines \in Seq(Row) /\ Len(disk.lines) \in Nat
  BY <1>1 DEF StoreInv, TypeOK
<1>a. f \in Seq(Row) /\ Len(f) <= MaxJobs /\ Len(f) <= Len(disk.lines) /\ Len(f) \in Nat
  BY <1>2, LoadedType
<1>b. Boot => mem' = Reconciled(f)  BY DEF Boot
<1> HIDE DEF f
<1>c. Boot => Len(mem') = Len(f) /\ mem' \in Seq(Row)  BY <1>a, <1>b, ReconciledType
<1>d. BootEmpty => mem' = << >>  BY DEF BootEmpty
<1>3. mem' \in Seq(Row) /\ Len(mem') <= MaxJobs /\ Len(mem') <= Len(disk.lines) /\ Len(mem') \in Nat
  <2>1. CASE Boot  BY <1>a, <1>c, <2>1
  <2>2. CASE BootEmpty
    <3>1. mem' = << >> /\ MaxJobs \in Nat  BY <1>d, <2>2, StoreAssumption
    <3> QED  BY <1>2, <3>1
  <2> QED  BY <2>1, <2>2
<1>4. CASE Replace(mem')
  <2>1. /\ disk' \in [lines : Seq(Row), torn : BOOLEAN] /\ appends' \in Nat /\ clean' \in BOOLEAN
        /\ dead' \in Nat /\ vain' \in Nat /\ SizeInv'
    BY <1>3, <1>4, ReplaceKeeps
  <2> QED  BY <1>1, <1>2, <1>3, <2>1 DEF StoreInv, TypeOK
<1>5. CASE /\ appends' = 0 /\ UNCHANGED disk /\ clean' \in BOOLEAN
           /\ dead' = Len(disk.lines) - Len(mem') /\ vain' = 0
  <2>1. dead' \in Nat /\ Len(mem') + dead' = Len(disk.lines)  BY <1>2, <1>3, <1>5
  <2>2. SizeInv'  BY <1>2, <1>3, <1>5, <2>1 DEF SizeInv
  <2> QED  BY <1>1, <1>2, <1>3, <1>5, <2>1, <2>2 DEF StoreInv, TypeOK
<1>6. CASE /\ Boot /\ disk' = [lines |-> f, torn |-> FALSE]
           /\ appends' = 0 /\ clean' = FALSE /\ dead' = 0 /\ vain' = 0
  <2>1. disk' \in [lines : Seq(Row), torn : BOOLEAN] /\ disk'.lines = f  BY <1>a, <1>6
  <2>2. SizeInv'  BY <1>a, <1>c, <1>6, <2>1 DEF SizeInv
  <2> QED  BY <1>1, <1>2, <1>3, <1>6, <2>1, <2>2 DEF StoreInv, TypeOK
<1>7. Boot => \/ Replace(mem')
              \/ disk' = [lines |-> f, torn |-> FALSE] /\ appends' = 0 /\ clean' = FALSE /\ dead' = 0 /\ vain' = 0
              \/ /\ appends' = 0 /\ UNCHANGED disk /\ clean' \in BOOLEAN
                 /\ dead' = Len(disk.lines) - Len(mem') /\ vain' = 0
  BY <1>2 DEF Boot, TypeOK, f
<1>8. BootEmpty => /\ appends' = 0 /\ UNCHANGED disk /\ clean' \in BOOLEAN
                   /\ dead' = Len(disk.lines) - Len(mem') /\ vain' = 0
  <2> SUFFICES ASSUME BootEmpty PROVE dead' = Len(disk.lines) - Len(mem')  BY DEF BootEmpty
  <2>1. dead' = Len(disk.lines) /\ mem' = << >>  BY DEF BootEmpty
  <2> QED  BY <1>2, <2>1
<1> QED  BY <1>4, <1>5, <1>6, <1>7, <1>8

LEMMA CrashKeeps ==
    ASSUME StoreInv, Crash \/ \E j \in Jobs : CrashInAdd(j)
    PROVE  StoreInv'
<1>1. /\ up /\ up' = FALSE /\ mem' = << >> /\ appends' = 0 /\ UNCHANGED <<boots, diskOk, outages>>
      /\ dead' = 0 /\ vain' = 0 /\ now' \in {now, now + 1} /\ fresh' \subseteq fresh
  BY DEF Crash, CrashInAdd, Down, Clock, Use
<1>2. TypeOK /\ mem' \in Seq(Row) /\ Len(mem') <= MaxJobs
  BY <1>1, StoreAssumption DEF StoreInv
<1>3. disk' \in [lines : Seq(Row), torn : BOOLEAN] /\ clean' \in BOOLEAN
  <2>1. CASE Crash  BY <1>2, <2>1 DEF Crash, TypeOK
  <2>2. ASSUME NEW j \in Jobs, CrashInAdd(j) PROVE <1>3
    <3>1. clean' \in BOOLEAN  BY <2>2 DEF CrashInAdd
    <3>2. disk' = Cut(disk) \/ disk' = Appended(disk, Pending(j))  BY <2>2 DEF CrashInAdd
    <3>3. Pending(j) \in Row  BY <1>2, PendingRow
    <3> QED  BY <1>2, <3>1, <3>2, <3>3, AppendedType
  <2> QED  BY <2>1, <2>2
<1>4. SizeInv'  BY <1>1 DEF SizeInv
<1>5. up' \in BOOLEAN  BY <1>1
<1>6. appends' \in Nat /\ now' \in Nat /\ fresh' \subseteq Jobs /\ dead' \in Nat /\ vain' \in Nat
  BY <1>1, <1>2 DEF TypeOK
<1> QED  BY <1>1, <1>2, <1>3, <1>4, <1>5, <1>6 DEF StoreInv, TypeOK

LEMMA OthersKeep ==
    ASSUME StoreInv, DiskFails \/ DiskBack \/ UNCHANGED vars
    PROVE  StoreInv'
<1>1. /\ UNCHANGED <<up, mem, disk, appends, fresh, now, boots, clean, dead, vain>>
      /\ diskOk' \in BOOLEAN /\ outages' \in {outages, outages + 1}
  BY DEF DiskFails, DiskBack, vars, slack, StoreInv, TypeOK
<1>2. SizeInv'  BY <1>1 DEF StoreInv, SizeInv
<1> QED  BY <1>1, <1>2 DEF StoreInv, TypeOK

LEMMA InitStore == Init => StoreInv
<1> SUFFICES ASSUME Init PROVE StoreInv  OBVIOUS
<1>1. /\ up = FALSE /\ mem = << >> /\ appends = 0 /\ disk = [lines |-> << >>, torn |-> FALSE]
      /\ fresh = Jobs /\ now = 0 /\ boots = 0 /\ diskOk = TRUE /\ outages = 0 /\ clean = TRUE
      /\ dead = 0 /\ vain = 0 /\ MaxJobs \in Nat
  BY StoreAssumption DEF Init
<1>2. /\ mem \in Seq(Row) /\ Len(mem) = 0
      /\ disk \in [lines : Seq(Row), torn : BOOLEAN]
  BY <1>1
<1>a. up \in BOOLEAN /\ diskOk \in BOOLEAN /\ clean \in BOOLEAN /\ ~up /\ fresh \subseteq Jobs  BY <1>1
<1>3. TypeOK  BY <1>1, <1>2, <1>a DEF TypeOK
<1>5. SizeInv  BY <1>a DEF SizeInv
<1> QED  BY <1>3, <1>5 DEF StoreInv

LEMMA StepStore == StoreInv /\ [Next]_vars => StoreInv'
BY AddKeeps, UpdateKeeps, BootKeeps, CrashKeeps, OthersKeep DEF Next

LEMMA Inductive == Spec => []StoreInv
BY InitStore, StepStore, PTL DEF Spec

-----------------------------------------------------------------------------
(* One rewrite heals: what a load would find, whatever outages, cut lines    *)
(* and equal timestamps did before                                           *)

Once(s) == \A i, k \in DOMAIN s : s[i].job = s[k].job => i = k

\* Ids no longer in F, times up to t.
Known(s, F, t) == \A i \in DOMAIN s : s[i].job \notin F /\ s[i].at <= t

\* The rows m are what the cap leaves of the lines s: as many as fit, and what is
\* missing is not newer than what is there.
Remains(m, s) ==
    /\ Len(m) = IF Len(s) < MaxJobs THEN Len(s) ELSE MaxJobs
    /\ \A i \in DOMAIN m : \E k \in DOMAIN s : m[i] = s[k]
    /\ \A k \in DOMAIN s : (\A i \in DOMAIN m : m[i] # s[k]) => \A i \in DOMAIN m : s[k].at <= m[i].at

\* Every id is used once, also in a file that outages have left behind; and while
\* no write was lost the memory is what the cap leaves of the file.
HealInv ==
    /\ Once(mem) /\ Once(disk.lines) /\ Known(mem, fresh, now) /\ Known(disk.lines, fresh, now)
    /\ clean => ~disk.torn
    /\ up /\ clean => Remains(mem, disk.lines)

\* Few enough rows remain as they are.
LEMMA RemainsSelf ==
    ASSUME NEW s \in Seq(Row), Len(s) <= MaxJobs
    PROVE  Remains(s, s)
<1>1. Len(s) \in Nat /\ MaxJobs \in Nat  BY StoreAssumption
<1> QED  BY <1>1 DEF Remains

\* A load leaves what the cap leaves, ids and times included.
LEMMA LoadedRemains ==
    ASSUME NEW s \in Seq(Row), Once(s)
    PROVE  /\ Remains(Loaded(s), s) /\ Once(Loaded(s))
           /\ \A i \in DOMAIN Loaded(s) : \E k \in DOMAIN s : Loaded(s)[i] = s[k]
<1>0. Len(s) \in Nat /\ MaxJobs \in Nat /\ MaxJobs > 0 /\ DOMAIN s = 1..Len(s)
  BY StoreAssumption, Positions
<1>1. CASE Loaded(s) = s
  <2>1. Len(s) <= MaxJobs  BY <1>1, LoadedType
  <2> QED  BY <1>1, <2>1, RemainsSelf
<1>2. CASE Loaded(s) = Trim(s)
  <2> DEFINE n == NewestFirst(s)
             t == Trim(s)
             c == IF Len(s) < MaxJobs THEN Len(s) ELSE MaxJobs
  <2>1. /\ t \in Seq(Row) /\ Len(t) = c /\ c \in Nat /\ c <= Len(s) /\ DOMAIN t = 1..c
        /\ \A p \in 1..c : p \in 1..Len(s) /\ t[p] = n[p]
    BY <1>0, Trimming
  <2>2. \A p \in 1..Len(s) : \E k \in DOMAIN s : Rank(s, k) = p - 1 /\ n[p] = s[k]  BY <1>0, Sorting
  <2>3. \A i \in DOMAIN t : \E k \in DOMAIN s : t[i] = s[k]  BY <2>1, <2>2
  <2>4. ASSUME NEW p \in DOMAIN t, NEW q \in DOMAIN t, t[p].job = t[q].job PROVE p = q
    <3>1. PICK i \in DOMAIN s : Rank(s, i) = p - 1 /\ t[p] = s[i]  BY <2>1, <2>2
    <3>2. PICK k \in DOMAIN s : Rank(s, k) = q - 1 /\ t[q] = s[k]  BY <2>1, <2>2
    <3>3. i = k  BY <2>4, <3>1, <3>2 DEF Once
    <3>4. p \in Nat /\ q \in Nat  BY <2>1
    <3> QED  BY <3>1, <3>2, <3>3, <3>4
  <2>5. ASSUME NEW k \in DOMAIN s, \A i \in DOMAIN t : t[i] # s[k], NEW i \in DOMAIN t
        PROVE  s[k].at <= t[i].at
    <3>1. PICK p \in DOMAIN s : n[p] = s[k]  BY SortedAll
    <3>2. p \notin 1..c /\ p \in Nat /\ p >= 1 /\ i \in Nat /\ i <= c /\ i \in DOMAIN s
      BY <1>0, <2>1, <2>5, <3>1
    <3>3. i < p  BY <2>1, <3>2
    <3>4. n[i].at >= n[p].at  BY <3>1, <3>2, <3>3, SortedDown
    <3>5. n[i] = t[i] /\ t[i].at \in Nat /\ s[k].at \in Nat  BY <2>1, Positions
    <3> QED  BY <3>1, <3>4, <3>5
  <2>6. Remains(t, s)  BY <2>1, <2>3, <2>5 DEF Remains
  <2>7. Once(t)  BY <2>4 DEF Once
  <2> QED  BY <1>2, <2>3, <2>6, <2>7
<1> QED  BY <1>1, <1>2 DEF Loaded

\* A new row is in memory and file; eviction takes one of the oldest.
LEMMA RemainsAppend ==
    ASSUME NEW m \in Seq(Row), NEW s \in Seq(Row), NEW r \in Row, Once(m), Len(m) <= MaxJobs,
           \A i \in DOMAIN m : m[i].job # r.job /\ m[i].at <= r.at
    PROVE  LET e == Evict(Append(m, r)) IN
           /\ Once(e)
           /\ \A i \in DOMAIN e : \E k \in DOMAIN Append(m, r) : e[i] = Append(m, r)[k]
           /\ Remains(m, s) /\ (\A k \in DOMAIN s : s[k].at <= r.at) => Remains(e, Append(s, r))
<1> DEFINE a == Append(m, r)
           e == Evict(a)
           b == Append(s, r)
           L == Len(m)
           S == Len(s)
<1>1. /\ L \in Nat /\ DOMAIN m = 1..L /\ S \in Nat /\ DOMAIN s = 1..S /\ MaxJobs \in Nat /\ MaxJobs > 0
      /\ L <= MaxJobs
      /\ \A i \in 1..L : m[i].at \in Nat
      /\ \A i \in 1..S : s[i].at \in Nat
  BY StoreAssumption, Positions
<1>2. /\ a \in Seq(Row) /\ Len(a) = L + 1 /\ DOMAIN a = 1..(L + 1) /\ a[L + 1] = r
      /\ \A i \in 1..L : a[i] = m[i]
  BY <1>1
<1>3. /\ b \in Seq(Row) /\ Len(b) = S + 1 /\ DOMAIN b = 1..(S + 1) /\ b[S + 1] = r
      /\ \A i \in 1..S : b[i] = s[i]
  BY <1>1
<1>a. L \in Nat /\ S \in Nat /\ MaxJobs \in Nat /\ MaxJobs > 0 /\ L <= MaxJobs  BY <1>1
<1>4. r.at \in Nat  BY DEF Row
<1> HIDE DEF a, b, L, S
<1>5. Once(a)
  <2> SUFFICES ASSUME NEW i \in 1..(L + 1), NEW k \in 1..(L + 1), a[i].job = a[k].job PROVE i = k
    BY <1>2 DEF Once
  <2>1. i \in 1..L \/ i = L + 1  BY <1>1
  <2>2. k \in 1..L \/ k = L + 1  BY <1>1
  <2> QED  BY <1>1, <1>2, <2>1, <2>2 DEF Once
<1>6. ASSUME Remains(m, s), \A k \in DOMAIN s : s[k].at <= r.at
      PROVE  /\ \A i \in DOMAIN a : \E k \in DOMAIN b : a[i] = b[k]
             /\ \A k \in DOMAIN b : (\A i \in DOMAIN a : a[i] # b[k]) =>
                  k \in 1..S /\ b[k] = s[k] /\ \A i \in DOMAIN a : b[k].at <= a[i].at
  <2>1. ASSUME NEW i \in DOMAIN a PROVE \E k \in DOMAIN b : a[i] = b[k]
    <3>1. CASE i = L + 1  BY <1>1, <1>2, <1>3, <3>1
    <3>2. CASE i # L + 1
      <4>1. i \in 1..L  BY <1>1, <1>2, <3>2
      <4>2. PICK k \in DOMAIN s : m[i] = s[k]  BY <1>1, <1>6, <4>1 DEF Remains
      <4>3. k \in DOMAIN b  BY <1>1, <1>3
      <4> QED  BY <1>1, <1>2, <1>3, <4>1, <4>2, <4>3
    <3> QED  BY <3>1, <3>2
  <2>2. ASSUME NEW k \in DOMAIN b, \A i \in DOMAIN a : a[i] # b[k]
        PROVE  k \in 1..S /\ b[k] = s[k] /\ \A i \in DOMAIN a : b[k].at <= a[i].at
    <3>1. k # S + 1  BY <1>1, <1>2, <1>3, <2>2
    <3>2. k \in 1..S /\ b[k] = s[k]  BY <1>1, <1>3, <3>1
    <3>a. \A i \in 1..L : i \in DOMAIN a /\ a[i] = m[i]  BY <1>a, <1>2
    <3>3. \A i \in 1..L : m[i] # s[k]  BY <2>2, <3>2, <3>a
    <3>4. \A i \in 1..L : s[k].at <= m[i].at  BY <1>1, <1>6, <3>2, <3>3 DEF Remains
    <3>5. ASSUME NEW i \in DOMAIN a PROVE b[k].at <= a[i].at
      <4>1. i \in 1..L \/ i = L + 1  BY <1>1, <1>2
      <4> QED  BY <1>1, <1>2, <1>6, <3>2, <3>4, <4>1
    <3> QED  BY <3>2, <3>5
  <2> QED  BY <2>1, <2>2
<1>7. CASE L + 1 <= MaxJobs
  <2>1. e = a  BY <1>2, <1>7, Evicting
  <2>2. ASSUME Remains(m, s), \A k \in DOMAIN s : s[k].at <= r.at PROVE Remains(a, b)
    <3>0. L = IF S < MaxJobs THEN S ELSE MaxJobs  BY <2>2 DEF Remains, L, S
    <3>1. S = L  BY <1>a, <1>7, <3>0
    <3>2. Len(a) = IF Len(b) < MaxJobs THEN Len(b) ELSE MaxJobs  BY <1>a, <1>2, <1>3, <1>7, <3>1
    <3> QED  BY <1>6, <2>2, <3>2 DEF Remains
  <2> HIDE DEF e
  <2> QED  BY <1>5, <2>1, <2>2 DEF a, b, e
<1>8. CASE L + 1 > MaxJobs
  <2>1. L = MaxJobs  BY <1>a, <1>8
  <2>2. PICK x \in DOMAIN a : Oldest(a, x) /\ e = RemoveAt(a, x)  BY <1>2, <1>8, Evicting
  <2>3. /\ e \in Seq(Row) /\ Len(e) = L /\ DOMAIN e = 1..L /\ x \in 1..(L + 1) /\ x \in Nat
        /\ \A p \in 1..L : e[p] = a[IF p < x THEN p ELSE p + 1]
    <3>1. e \in Seq(Row) /\ Len(e) = Len(a) - 1 /\ \A p \in 1..(Len(a) - 1) : e[p] = a[IF p < x THEN p ELSE p + 1]
      BY <1>2, <2>2, Removing
    <3>2. Len(a) - 1 = L  BY <1>1, <1>2
    <3>3. DOMAIN e = 1..Len(e)  BY <3>1
    <3> QED  BY <1>1, <1>2, <3>1, <3>2, <3>3
  <2> HIDE DEF e
  <2>4. \A p \in 1..L : (IF p < x THEN p ELSE p + 1) \in DOMAIN a  BY <1>1, <1>2, <2>3
  <2>5. \A i \in DOMAIN e : \E k \in DOMAIN a : e[i] = a[k]  BY <2>3, <2>4
  <2>6. Once(e)
    <3> SUFFICES ASSUME NEW p \in 1..L, NEW q \in 1..L, e[p].job = e[q].job PROVE p = q
      BY <2>3 DEF Once
    <3>1. (IF p < x THEN p ELSE p + 1) = (IF q < x THEN q ELSE q + 1)
      BY <1>5, <2>3, <2>4 DEF Once
    <3> QED  BY <1>1, <2>3, <3>1
  <2>7. \A k \in DOMAIN a : k = x \/ \E p \in 1..L : e[p] = a[k]
    <3> SUFFICES ASSUME NEW k \in DOMAIN a, k # x PROVE \E p \in 1..L : e[p] = a[k]  OBVIOUS
    <3>1. CASE k < x
      <4>1. k \in 1..L /\ e[k] = a[k]  BY <1>1, <1>2, <2>3, <3>1
      <4> QED  BY <4>1
    <3>2. CASE ~(k < x)
      <4>1. k - 1 \in 1..L /\ ~(k - 1 < x) /\ (k - 1) + 1 = k  BY <1>1, <1>2, <2>3, <3>2
      <4>2. e[k - 1] = a[k]  BY <2>3, <4>1
      <4> QED  BY <4>1, <4>2
    <3> QED  BY <3>1, <3>2
  <2>8. ASSUME Remains(m, s), \A k \in DOMAIN s : s[k].at <= r.at PROVE Remains(e, b)
    <3>0. L = IF S < MaxJobs THEN S ELSE MaxJobs  BY <2>8 DEF Remains, L, S
    <3>1. S >= L /\ Len(e) = IF Len(b) < MaxJobs THEN Len(b) ELSE MaxJobs
      BY <1>a, <1>3, <2>1, <2>3, <3>0
    <3>2. \A i \in DOMAIN e : \E k \in DOMAIN b : e[i] = b[k]  BY <1>6, <2>5, <2>8
    <3>3. ASSUME NEW k \in DOMAIN b, \A i \in DOMAIN e : e[i] # b[k], NEW i \in DOMAIN e
          PROVE  b[k].at <= e[i].at
      <4>1. PICK y \in DOMAIN a : e[i] = a[y]  BY <2>5
      <4>2. CASE \A z \in DOMAIN a : a[z] # b[k]  BY <1>6, <2>8, <4>1, <4>2
      <4>3. CASE \E z \in DOMAIN a : a[z] = b[k]
        <5>1. PICK z \in DOMAIN a : a[z] = b[k]  BY <4>3
        <5>2. z = x  BY <2>3, <2>7, <3>3, <5>1
        <5>3. a[x].at <= a[y].at
          <6>1. a[x].at \in Nat /\ a[y].at \in Nat  BY <1>2, Positions
          <6> QED  BY <2>2, <6>1 DEF Oldest
        <5> QED  BY <4>1, <5>1, <5>2, <5>3
      <4> QED  BY <4>2, <4>3
    <3> QED  BY <3>1, <3>2, <3>3 DEF Remains
  <2> QED  BY <2>5, <2>6, <2>8 DEF a, b, e
<1> QED  BY <1>1, <1>7, <1>8

\* Rows of one job each are as many as the sequence is long.
LEMMA RowCount ==
    ASSUME NEW s \in Seq(Row), Once(s)
    PROVE  IsFiniteSet(ToSet(s)) /\ Cardinality(ToSet(s)) = Len(s)
<1> DEFINE T == ToSet(s)
           f == [i \in DOMAIN s |-> s[i]]
<1>1. IsFiniteSet(DOMAIN s) /\ Cardinality(DOMAIN s) = Len(s)  BY Positions
<1>2. T = {s[i] : i \in DOMAIN s}  BY DEF ToSet
<1>3. f \in [DOMAIN s -> T]  BY <1>2
<1>4. \A y \in T : \E i \in DOMAIN s : f[i] = y  BY <1>2
<1>5. \A i, k \in DOMAIN s : f[i] = f[k] => i = k  BY DEF Once
<1>6. f \in Surjection(DOMAIN s, T)  BY <1>3, <1>4 DEF Surjection
<1>7. f \in Injection(DOMAIN s, T)  BY <1>3, <1>5 DEF Injection, IsInjective
<1> HIDE DEF f, T
<1>8. IsFiniteSet(T) /\ Cardinality(T) = Cardinality(DOMAIN s)  BY <1>1, <1>6, <1>7, FS_Surjection
<1> QED  BY <1>1, <1>8 DEF T

\* Two remainders of one file differ in rows of one second only.
LEMMA SameRemains ==
    ASSUME NEW s \in Seq(Row), NEW m \in Seq(Row), NEW f \in Seq(Row),
           Once(s), Once(m), Once(f), Remains(m, s), Remains(f, s)
    PROVE  /\ Cardinality(ToSet(f)) = Cardinality(ToSet(m))
           /\ \A r \in ToSet(m) \ ToSet(f) :
                r.job \notin JobsOf(f) /\ \E q \in ToSet(f) \ ToSet(m) : q.at = r.at
<1>1. Len(m) = Len(f)  BY DEF Remains
<1>2. /\ IsFiniteSet(ToSet(m)) /\ Cardinality(ToSet(m)) = Len(m)
      /\ IsFiniteSet(ToSet(f)) /\ Cardinality(ToSet(f)) = Len(f)
  BY RowCount
<1>3. ToSet(m) = {m[i] : i \in DOMAIN m} /\ ToSet(f) = {f[i] : i \in DOMAIN f}  BY DEF ToSet
<1>4. ASSUME NEW r \in ToSet(m) \ ToSet(f)
      PROVE  r.job \notin JobsOf(f) /\ \E q \in ToSet(f) \ ToSet(m) : q.at = r.at
  <2>1. PICK i \in DOMAIN m : r = m[i]  BY <1>3
  <2>2. PICK k \in DOMAIN s : r = s[k]  BY <2>1 DEF Remains
  <2>3. r.job \notin JobsOf(f)
    <3> SUFFICES ASSUME NEW p \in DOMAIN f, f[p].job = r.job PROVE FALSE  BY DEF JobsOf
    <3>1. PICK l \in DOMAIN s : f[p] = s[l]  BY DEF Remains
    <3>2. l = k  BY <2>2, <3>1 DEF Once
    <3> QED  BY <1>3, <2>2, <3>1, <3>2
  <2>4. \E q \in ToSet(f) : q \notin ToSet(m)
    <3> SUFFICES ASSUME ToSet(f) \in SUBSET ToSet(m) PROVE FALSE  OBVIOUS
    <3>1. ToSet(m) = ToSet(f)  BY <1>1, <1>2, FS_Subset
    <3> QED  BY <3>1
  <2>5. PICK q \in ToSet(f) : q \notin ToSet(m)  BY <2>4
  <2>6. PICK p \in DOMAIN f : q = f[p]  BY <1>3
  <2>7. PICK l \in DOMAIN s : q = s[l]  BY <2>6 DEF Remains
  <2>8. \A x \in DOMAIN m : m[x] # s[l]  BY <1>3, <2>5, <2>7
  <2>9. q.at <= r.at  BY <2>1, <2>7, <2>8 DEF Remains
  <2>10. \A x \in DOMAIN f : f[x] # s[k]  BY <1>3, <2>2
  <2>11. r.at <= q.at  BY <2>2, <2>6, <2>10 DEF Remains
  <2>12. q.at \in Nat /\ r.at \in Nat  BY <2>2, <2>7, Positions
  <2> QED  BY <2>3, <2>5, <2>9, <2>11, <2>12
<1> QED  BY <1>1, <1>2, <1>4

LEMMA HealsFrom == StoreInv /\ HealInv => Heals
<1> SUFFICES ASSUME StoreInv, HealInv, up, clean
             PROVE  LET f == Loaded(disk.lines) IN
                    /\ Cardinality(ToSet(f)) = Cardinality(ToSet(mem))
                    /\ \A r \in ToSet(mem) \ ToSet(f) :
                         r.job \notin JobsOf(f) /\ \E q \in ToSet(f) \ ToSet(mem) : q.at = r.at
  BY DEF Heals
<1>1. mem \in Seq(Row) /\ disk.lines \in Seq(Row)  BY DEF StoreInv, TypeOK
<1>2. Loaded(disk.lines) \in Seq(Row)  BY <1>1, LoadedType
<1>3. Remains(Loaded(disk.lines), disk.lines) /\ Once(Loaded(disk.lines))
  BY <1>1, LoadedRemains DEF HealInv
<1> QED  BY <1>1, <1>2, <1>3, SameRemains DEF HealInv

\* Rows that keep their ids and times.
LEMMA SameNames ==
    ASSUME NEW m \in Seq(Row), NEW n \in Seq(Row), Len(n) = Len(m), NEW F, NEW t,
           Once(m), Known(m, F, t), \A i \in DOMAIN m : n[i].job = m[i].job /\ n[i].at = m[i].at
    PROVE  Once(n) /\ Known(n, F, t)
<1>1. DOMAIN n = DOMAIN m  BY Positions
<1> QED  BY <1>1 DEF Once, Known

\* Ids stay used and times stay past.
LEMMA KnownLater ==
    ASSUME NEW m \in Seq(Row), NEW F, NEW t \in Nat, Known(m, F, t),
           NEW G, G \subseteq F, NEW u \in Nat, t <= u
    PROVE  Known(m, G, u)
<1>1. \A i \in DOMAIN m : m[i].at \in Nat  BY Positions
<1> QED  BY <1>1 DEF Known

\* A new job at the end.
LEMMA AppendKnown ==
    ASSUME NEW m \in Seq(Row), NEW F, NEW t \in Nat, NEW r \in Row, Once(m), Known(m, F, t),
           r.job \in F, r.at = t, NEW u \in Nat, t <= u
    PROVE  Once(Append(m, r)) /\ Known(Append(m, r), F \ {r.job}, u)
<1> DEFINE a == Append(m, r)
           L == Len(m)
<1>1. L \in Nat /\ DOMAIN m = 1..L /\ \A i \in 1..L : m[i].at \in Nat  BY Positions
<1>2. DOMAIN a = 1..(L + 1) /\ a[L + 1] = r /\ \A i \in 1..L : a[i] = m[i]  BY <1>1
<1> HIDE DEF a
<1>3. \A i \in 1..L : m[i].job # r.job /\ m[i].job \notin F /\ m[i].at <= t  BY <1>1 DEF Known
<1>4. \A i \in 1..(L + 1) : i \in 1..L \/ i = L + 1  BY <1>1
<1>5. Once(a)  BY <1>1, <1>2, <1>3, <1>4 DEF Once
<1>6. ASSUME NEW i \in DOMAIN a PROVE a[i].job \notin F \ {r.job} /\ a[i].at <= u
  <2>1. CASE i \in 1..L  BY <1>1, <1>2, <1>3, <2>1
  <2>2. CASE i = L + 1  BY <1>2, <2>2
  <2> QED  BY <1>2, <1>4, <2>1, <2>2
<1> QED  BY <1>5, <1>6 DEF a, Known

\* What the steps that use an id have in common.
LEMMA UseFacts ==
    ASSUME TypeOK, NEW j \in Jobs, Use(j), Clock
    PROVE  /\ Pending(j) \in Row /\ Pending(j).job = j /\ Pending(j).at = now /\ j \in fresh
           /\ fresh' = fresh \ {j} /\ now \in Nat /\ now' \in Nat /\ now <= now'
<1>1. now \in Nat  BY DEF TypeOK
<1>2. Pending(j) \in Row  BY PendingRow
<1>3. Pending(j).job = j /\ Pending(j).at = now  BY DEF Pending
<1>4. j \in fresh /\ fresh' = fresh \ {j}  BY DEF Use
<1>5. now' \in {now, now + 1}
  <2>1. CASE Ties  BY <2>1 DEF Clock
  <2>2. CASE ~Ties  BY <2>2 DEF Clock
  <2> QED  BY <2>1, <2>2
<1>6. now' \in Nat /\ now <= now'  BY <1>1, <1>5
<1> QED  BY <1>1, <1>2, <1>3, <1>4, <1>6

\* The lines after an append, or after none.
LEMMA AppendedHeals ==
    ASSUME StoreInv, HealInv, NEW j \in Jobs, Use(j), Clock,
           \/ disk' = Appended(disk, Pending(j)) /\ clean' = (clean /\ ~disk.torn)
           \/ disk' \in {disk, Cut(disk)} /\ (clean' => clean /\ disk' = disk)
    PROVE  /\ Once(disk'.lines) /\ Known(disk'.lines, fresh', now') /\ (clean' => ~disk'.torn)
<1> DEFINE r == Pending(j)
<1>0. TypeOK /\ disk \in [lines : Seq(Row), torn : BOOLEAN]  BY DEF StoreInv, TypeOK
<1>1. /\ r \in Row /\ r.job = j /\ r.at = now /\ j \in fresh /\ fresh' = fresh \ {j}
      /\ now \in Nat /\ now' \in Nat /\ now <= now'
  BY <1>0, UseFacts
<1> HIDE DEF r
<1>2. Once(disk.lines) /\ Known(disk.lines, fresh, now) /\ (clean => ~disk.torn)  BY DEF HealInv
<1>3. Known(disk.lines, fresh', now')  BY <1>0, <1>1, <1>2, KnownLater
<1>4. Once(Append(disk.lines, r)) /\ Known(Append(disk.lines, r), fresh', now')
  BY <1>0, <1>1, <1>2, AppendKnown
<1>5. CASE disk' = Appended(disk, r) /\ clean' = (clean /\ ~disk.torn)
  <2>1. CASE disk.torn  BY <1>0, <1>2, <1>3, <1>5, <2>1 DEF Appended
  <2>2. CASE ~disk.torn
    <3>1. disk'.lines = Append(disk.lines, r) /\ disk'.torn = disk.torn  BY <1>0, <1>5, <2>2 DEF Appended
    <3> QED  BY <1>4, <2>2, <3>1
  <2> QED  BY <2>1, <2>2
<1>6. CASE disk' \in {disk, Cut(disk)} /\ (clean' => clean /\ disk' = disk)
  <2>1. disk'.lines = disk.lines  BY <1>0, <1>6 DEF Cut
  <2> QED  BY <1>2, <1>3, <1>6, <2>1
<1> QED  BY <1>5, <1>6 DEF r

LEMMA AddHeals ==
    ASSUME StoreInv, HealInv, NEW j \in Jobs, AddJob(j)
    PROVE  HealInv'
<1> DEFINE r == Pending(j)
           e == Evict(Append(mem, r))
<1>0. /\ TypeOK /\ mem \in Seq(Row) /\ Len(mem) <= MaxJobs /\ Len(mem) \in Nat /\ MaxJobs \in Nat
      /\ disk \in [lines : Seq(Row), torn : BOOLEAN] /\ disk.lines \in Seq(Row)
  BY StoreAssumption DEF StoreInv, TypeOK
<1>1. /\ up /\ up' = up /\ mem' = e /\ Use(j) /\ Clock
      /\ \/ Replace(mem')
         \/ AppendRow(r)
  BY DEF AddJob
<1>2. /\ r \in Row /\ r.job = j /\ r.at = now /\ j \in fresh /\ fresh' = fresh \ {j}
      /\ now \in Nat /\ now' \in Nat /\ now <= now'
  BY <1>0, <1>1, UseFacts
<1>3. /\ Once(mem) /\ Known(mem, fresh, now) /\ Once(disk.lines) /\ Known(disk.lines, fresh, now)
      /\ clean => ~disk.torn /\ Remains(mem, disk.lines)
  BY <1>1 DEF HealInv
<1> HIDE DEF r
<1>4. \A i \in DOMAIN mem : mem[i].job # r.job /\ mem[i].at <= r.at  BY <1>2, <1>3 DEF Known
<1>5. \A k \in DOMAIN disk.lines : disk.lines[k].at <= r.at  BY <1>2, <1>3 DEF Known
<1>6. /\ Once(e)
      /\ \A i \in DOMAIN e : \E k \in DOMAIN Append(mem, r) : e[i] = Append(mem, r)[k]
      /\ Remains(mem, disk.lines) => Remains(e, Append(disk.lines, r))
  BY <1>0, <1>2, <1>3, <1>4, <1>5, RemainsAppend
<1>7. Known(Append(mem, r), fresh', now')  BY <1>0, <1>2, <1>3, AppendKnown
<1>8. Once(mem') /\ Known(mem', fresh', now')  BY <1>1, <1>6, <1>7 DEF Known
<1>9. CASE Replace(mem')
  <2>1. disk'.lines = mem' /\ disk'.torn = FALSE  BY <1>9 DEF Replace
  <2>2. Append(mem, r) \in Seq(Row) /\ Len(Append(mem, r)) <= MaxJobs + 1  BY <1>0, <1>2
  <2>3. mem' \in Seq(Row) /\ Len(mem') <= MaxJobs  BY <1>1, <2>2, EvictType
  <2>4. Remains(mem', mem')  BY <2>3, RemainsSelf
  <2> QED  BY <1>8, <2>1, <2>4 DEF HealInv
<1>10. CASE AppendRow(r)
  <2>1. \/ disk' = Appended(disk, r) /\ clean' = (clean /\ ~disk.torn)
        \/ disk' \in {disk, Cut(disk)} /\ clean' = FALSE
    BY <1>10 DEF AppendRow
  <2>2. Once(disk'.lines) /\ Known(disk'.lines, fresh', now') /\ (clean' => ~disk'.torn)
    BY <1>1, <2>1, AppendedHeals DEF r
  <2>3. clean' => Remains(mem', disk'.lines)
    <3> SUFFICES ASSUME clean' PROVE Remains(mem', disk'.lines)  OBVIOUS
    <3>1. disk' = Appended(disk, r) /\ clean /\ ~disk.torn  BY <2>1
    <3>2. disk'.lines = Append(disk.lines, r)  BY <1>0, <3>1 DEF Appended
    <3> QED  BY <1>1, <1>3, <1>6, <3>1, <3>2
  <2> QED  BY <1>8, <2>2, <2>3 DEF HealInv
<1> QED  BY <1>1, <1>9, <1>10

LEMMA UpdateHeals ==
    ASSUME StoreInv, HealInv, NEW j \in Jobs, NEW s \in Active \cup Terminal, UpdateJob(j, s)
    PROVE  HealInv'
<1>0. /\ TypeOK /\ mem \in Seq(Row) /\ Len(mem) <= MaxJobs /\ \A i \in DOMAIN mem : mem[i] \in Row
      /\ disk \in [lines : Seq(Row), torn : BOOLEAN]
  BY Positions DEF StoreInv, TypeOK
<1>1. mem' \in Seq(Row) /\ Len(mem') = Len(mem)  BY <1>0, UpdatedType
<1>2. /\ mem' = [i \in DOMAIN mem |->
                   IF mem[i].job = j THEN [mem[i] EXCEPT !.status = s] ELSE mem[i]]
      /\ Rewrite(mem') /\ fresh' = fresh /\ now' = now
  BY DEF UpdateJob
<1>3. \A i \in DOMAIN mem : mem'[i].job = mem[i].job /\ mem'[i].at = mem[i].at
  BY <1>0, <1>2 DEF Row
<1>4. Once(mem) /\ Known(mem, fresh, now)  BY DEF HealInv
<1>5. Once(mem') /\ Known(mem', fresh, now)  BY <1>0, <1>1, <1>3, <1>4, SameNames
<1>6. CASE Replace(mem')
  <2>1. disk'.lines = mem' /\ disk'.torn = FALSE  BY <1>6 DEF Replace
  <2>2. Remains(mem', mem')  BY <1>0, <1>1, RemainsSelf
  <2> QED  BY <1>2, <1>5, <2>1, <2>2 DEF HealInv
<1>7. CASE clean' = FALSE /\ UNCHANGED <<disk, appends, slack>>
  BY <1>2, <1>5, <1>7 DEF HealInv
<1> QED  BY <1>2, <1>6, <1>7 DEF Rewrite

LEMMA BootHeals ==
    ASSUME StoreInv, HealInv, Boot \/ BootEmpty
    PROVE  HealInv'
<1>0. TypeOK /\ disk \in [lines : Seq(Row), torn : BOOLEAN] /\ disk.lines \in Seq(Row)
  BY DEF StoreInv, TypeOK
<1>1. Once(disk.lines) /\ Known(disk.lines, fresh, now) /\ (clean => ~disk.torn)  BY DEF HealInv
<1>2. CASE BootEmpty
  <2>1. mem' = << >> /\ clean' = FALSE /\ UNCHANGED <<disk, fresh, now>>  BY <1>2 DEF BootEmpty
  <2> QED  BY <1>1, <2>1 DEF HealInv, Once, Known
<1>3. CASE Boot
  <2> DEFINE l == Loaded(disk.lines)
             n == Reconciled(l)
  <2>1. /\ l \in Seq(Row) /\ Len(l) <= MaxJobs /\ Once(l) /\ Remains(l, disk.lines)
        /\ \A i \in DOMAIN l : \E k \in DOMAIN disk.lines : l[i] = disk.lines[k]
    BY <1>0, <1>1, LoadedType, LoadedRemains
  <2>2. n \in Seq(Row) /\ Len(n) = Len(l)  BY <2>1, ReconciledType
  <2>3. \A i \in DOMAIN l : n[i].job = l[i].job /\ n[i].at = l[i].at
    <3>1. \A i \in DOMAIN l : l[i] \in Row  BY <2>1, Positions
    <3> QED  BY <3>1 DEF Reconciled, Row
  <2>4. /\ mem' = n /\ UNCHANGED <<fresh, now>>
        /\ \/ Replace(mem')
           \/ disk' = [lines |-> l, torn |-> FALSE] /\ clean' = FALSE
           \/ UNCHANGED disk /\ clean' = (clean /\ mem' = l)
    BY <1>3 DEF Boot
  <2> HIDE DEF l, n
  <2>5. Known(l, fresh, now)  BY <1>1, <2>1 DEF Known
  <2>6. Once(mem') /\ Known(mem', fresh', now')  BY <2>1, <2>2, <2>3, <2>4, <2>5, SameNames
  <2>7. CASE Replace(mem')
    <3>1. disk'.lines = mem' /\ disk'.torn = FALSE  BY <2>7 DEF Replace
    <3>2. Remains(mem', mem')  BY <2>1, <2>2, <2>4, RemainsSelf
    <3> QED  BY <2>6, <3>1, <3>2 DEF HealInv
  <2>8. CASE UNCHANGED disk /\ clean' = (clean /\ mem' = l)
    BY <1>1, <2>1, <2>4, <2>6, <2>8 DEF HealInv
  <2>9. CASE disk' = [lines |-> l, torn |-> FALSE] /\ clean' = FALSE
    <3>1. disk'.lines = l /\ ~clean' /\ UNCHANGED <<fresh, now>>  BY <2>4, <2>9
    <3> QED  BY <2>1, <2>5, <2>6, <3>1 DEF HealInv
  <2> QED  BY <2>4, <2>7, <2>8, <2>9
<1> QED  BY <1>2, <1>3

LEMMA CrashHeals ==
    ASSUME StoreInv, HealInv, Crash \/ \E j \in Jobs : CrashInAdd(j)
    PROVE  HealInv'
<1>1. up' = FALSE /\ mem' = << >>  BY DEF Crash, CrashInAdd, Down
<1>2. Once(mem') /\ Known(mem', fresh', now')  BY <1>1 DEF Once, Known
<1>3. CASE Crash  BY <1>1, <1>2, <1>3 DEF Crash, HealInv
<1>4. ASSUME NEW j \in Jobs, CrashInAdd(j) PROVE HealInv'
  <2>1. /\ Use(j) /\ Clock
        /\ \/ disk' = Appended(disk, Pending(j)) /\ clean' = (clean /\ ~disk.torn)
           \/ disk' \in {disk, Cut(disk)} /\ (clean' => clean /\ disk' = disk)
    BY <1>4 DEF CrashInAdd
  <2>2. Once(disk'.lines) /\ Known(disk'.lines, fresh', now') /\ (clean' => ~disk'.torn)
    BY <2>1, AppendedHeals
  <2> QED  BY <1>1, <1>2, <2>2 DEF HealInv
<1> QED  BY <1>3, <1>4

LEMMA InitHeals == Init => HealInv
BY DEF Init, HealInv, Once, Known

LEMMA StepHeals == StoreInv /\ HealInv /\ [Next]_vars => HealInv'
<1> SUFFICES ASSUME StoreInv, HealInv, [Next]_vars PROVE HealInv'  OBVIOUS
<1>1. CASE DiskFails \/ DiskBack \/ UNCHANGED vars
  <2>1. UNCHANGED <<up, mem, disk, fresh, now, clean>>  BY <1>1 DEF DiskFails, DiskBack, vars
  <2> QED  BY <2>1 DEF HealInv
<1> QED  BY <1>1, AddHeals, UpdateHeals, BootHeals, CrashHeals DEF Next

-----------------------------------------------------------------------------
(* The durable store: a disk that works, no two jobs in one second *)

Reliable == ~Ties /\ ~Tears /\ MaxOutages = 0

\* The rows of s, oldest first.
Asc(s) == [p \in DOMAIN s |-> NewestFirst(s)[Len(s) + 1 - p]]

Distinct(s) == \A i, k \in DOMAIN s : i # k => s[i].at # s[k].at /\ s[i].job # s[k].job

\* What a load of the file would find: the abstract store.
Kept == Newest(Asc(disk.lines))

\* The file is whole and its lines are of different jobs and seconds, past ones all.
FileGood ==
    /\ ~disk.torn /\ diskOk /\ outages = 0
    /\ Distinct(disk.lines)
    /\ \A i \in DOMAIN disk.lines : disk.lines[i].job \notin fresh /\ disk.lines[i].at < now

\* The memory is what a load would find.
MirrorInv ==
    /\ FileGood /\ Distinct(mem)
    /\ up => Asc(mem) = Kept

\* t lists the rows of s, oldest first.
Lists(t, s) ==
    /\ t \in Seq(Row) /\ Len(t) = Len(s)
    /\ \A i, k \in DOMAIN t : i < k => t[i].at < t[k].at
    /\ \A i \in DOMAIN s : \E p \in DOMAIN t : t[p] = s[i]
    /\ \A p \in DOMAIN t : \E i \in DOMAIN s : t[p] = s[i]

\* Rows of different seconds are listed in one way.
LEMMA ListUnique ==
    ASSUME NEW s, NEW t, NEW u, Lists(t, s), Lists(u, s)
    PROVE  t = u
<1>1. /\ t \in Seq(Row) /\ u \in Seq(Row) /\ Len(t) = Len(u) /\ Len(t) \in Nat
      /\ DOMAIN t = 1..Len(t) /\ DOMAIN u = 1..Len(t)
  BY DEF Lists
<1>2. /\ \A p \in DOMAIN t : p \in Nat /\ t[p].at \in Nat
      /\ \A p \in DOMAIN u : p \in Nat /\ u[p].at \in Nat
  BY <1>1, Positions
<1> DEFINE D == {p \in DOMAIN t : t[p] # u[p]}
<1>3. SUFFICES ASSUME D # {} PROVE FALSE
  <2>1. \A p \in 1..Len(t) : t[p] = u[p]  BY <1>1, <1>3
  <2> QED  BY <1>1, <2>1
<1>4. PICK d \in D : \A k \in D : d <= k
  <2>1. D \in SUBSET Nat  BY <1>2
  <2> QED  BY <1>3, <2>1, Least
<1>5. d \in DOMAIN t /\ d \in DOMAIN u /\ t[d] # u[d] /\ d \in Nat  BY <1>1, <1>2
<1>6. \A p \in DOMAIN t : p < d => t[p] = u[p]  BY <1>2, <1>4, <1>5
<1>7. PICK p \in DOMAIN t : t[p] = u[d]  BY <1>5 DEF Lists
<1>8. PICK q \in DOMAIN u : u[q] = t[d]  BY <1>5 DEF Lists
<1>9. ~(p < d)
  <2> SUFFICES ASSUME p < d PROVE FALSE  OBVIOUS
  <2>1. u[p] = u[d] /\ u[p].at < u[d].at  BY <1>1, <1>5, <1>6, <1>7 DEF Lists
  <2> QED  BY <1>1, <1>2, <1>5, <2>1
<1>10. ~(q < d)
  <2> SUFFICES ASSUME q < d PROVE FALSE  OBVIOUS
  <2>1. t[q] = t[d] /\ t[q].at < t[d].at  BY <1>1, <1>5, <1>6, <1>8 DEF Lists
  <2> QED  BY <1>1, <1>2, <1>5, <2>1
<1>11. d < p /\ d < q  BY <1>2, <1>5, <1>7, <1>8, <1>9, <1>10
<1>12. t[d].at < u[d].at  BY <1>5, <1>7, <1>11 DEF Lists
<1>13. u[d].at < t[d].at  BY <1>5, <1>8, <1>11 DEF Lists
<1> QED  BY <1>2, <1>5, <1>12, <1>13

\* Asc lists them.
LEMMA AscLists ==
    ASSUME NEW s \in Seq(Row), Distinct(s)
    PROVE  Lists(Asc(s), s)
<1> DEFINE n == NewestFirst(s)
           L == Len(s)
<1>1. DOMAIN s = 1..L /\ L \in Nat  BY Positions
<1>2. n \in Seq(Row) /\ Len(n) = L /\ DOMAIN n = DOMAIN s  BY Sorting
<1>3. \A p \in 1..L : L + 1 - p \in 1..L /\ L + 1 - (L + 1 - p) = p  BY <1>1
<1>4. \A p \in 1..L : Asc(s)[p] = n[L + 1 - p]  BY <1>1 DEF Asc
<1>a. DOMAIN Asc(s) = 1..L  BY <1>1 DEF Asc
<1>b. \A p \in DOMAIN s : \E k \in DOMAIN s : Rank(s, k) = p - 1 /\ n[p] = s[k]  BY Sorting
<1>c. \A p, q \in DOMAIN s : p < q => n[p].at >= n[q].at  BY SortedDown
<1>d. \A k \in DOMAIN s : \E p \in DOMAIN s : n[p] = s[k]  BY SortedAll
<1>e. \A p \in 1..L : n[p] \in Row /\ n[p].at \in Nat  BY <1>1, <1>2, Positions
<1>f. Asc(s) = [p \in 1..L |-> n[L + 1 - p]]  BY <1>1 DEF Asc
<1> HIDE DEF n, L
<1>5. Asc(s) \in [1..L -> Row]  BY <1>3, <1>e, <1>f
<1>6. Asc(s) \in Seq(Row) /\ Len(Asc(s)) = L  BY <1>1, <1>5
<1>7. ASSUME NEW p \in DOMAIN s, NEW q \in DOMAIN s, p < q PROVE n[q].at < n[p].at
  <2>1. PICK a \in DOMAIN s : Rank(s, a) = p - 1 /\ n[p] = s[a]  BY <1>b
  <2>2. PICK b \in DOMAIN s : Rank(s, b) = q - 1 /\ n[q] = s[b]  BY <1>b
  <2>3. p \in Nat /\ q \in Nat  BY <1>1
  <2>4. a # b  BY <1>7, <2>1, <2>2, <2>3
  <2>5. s[a].at # s[b].at  BY <2>4 DEF Distinct
  <2> QED  BY <1>1, <1>7, <1>c, <1>e, <2>1, <2>2, <2>5
<1>8. ASSUME NEW i \in 1..L, NEW k \in 1..L, i < k PROVE Asc(s)[i].at < Asc(s)[k].at
  <2>1. L + 1 - k < L + 1 - i  BY <1>1, <1>8
  <2>2. L + 1 - k \in DOMAIN s /\ L + 1 - i \in DOMAIN s  BY <1>1, <1>3
  <2> QED  BY <1>4, <1>7, <2>1, <2>2
<1>9. ASSUME NEW i \in DOMAIN s PROVE \E p \in 1..L : Asc(s)[p] = s[i]
  <2>1. PICK q \in DOMAIN s : n[q] = s[i]  BY <1>d
  <2>2. L + 1 - q \in 1..L /\ Asc(s)[L + 1 - q] = n[q]  BY <1>1, <1>3, <1>4
  <2> QED  BY <2>1, <2>2
<1>10. ASSUME NEW p \in 1..L PROVE \E i \in DOMAIN s : Asc(s)[p] = s[i]
  <2>1. L + 1 - p \in DOMAIN s /\ Asc(s)[p] = n[L + 1 - p]  BY <1>1, <1>3, <1>4
  <2> QED  BY <1>b, <2>1
<1> QED  BY <1>6, <1>8, <1>9, <1>10, <1>a DEF Lists, L

LEMMA AscIs ==
    ASSUME NEW s \in Seq(Row), Distinct(s), NEW t, Lists(t, s)
    PROVE  Asc(s) = t
BY AscLists, ListUnique

LEMMA AscFacts ==
    ASSUME NEW s \in Seq(Row), Distinct(s)
    PROVE  /\ Asc(s) \in Seq(Row) /\ Len(Asc(s)) = Len(s) /\ Len(s) \in Nat
           /\ DOMAIN Asc(s) = 1..Len(s) /\ DOMAIN s = 1..Len(s)
           /\ \A i, k \in 1..Len(s) : i < k => Asc(s)[i].at < Asc(s)[k].at
           /\ \A i \in 1..Len(s) : \E p \in 1..Len(s) : Asc(s)[p] = s[i]
           /\ \A p \in 1..Len(s) : \E i \in 1..Len(s) : Asc(s)[p] = s[i]
<1>1. Lists(Asc(s), s)  BY AscLists
<1>2. DOMAIN s = 1..Len(s) /\ Len(s) \in Nat  BY Positions
<1>3. Asc(s) \in Seq(Row) /\ Len(Asc(s)) = Len(s)  BY <1>1 DEF Lists
<1>4. DOMAIN Asc(s) = 1..Len(s)  BY <1>2, <1>3
<1> QED  BY <1>1, <1>2, <1>3, <1>4 DEF Lists

\* The list has no job twice either.
LEMMA AscDistinct ==
    ASSUME NEW s \in Seq(Row), Distinct(s)
    PROVE  Distinct(Asc(s))
<1> SUFFICES ASSUME NEW p \in DOMAIN Asc(s), NEW q \in DOMAIN Asc(s), p # q
             PROVE  Asc(s)[p].at # Asc(s)[q].at /\ Asc(s)[p].job # Asc(s)[q].job
  BY DEF Distinct
<1>1. p \in 1..Len(s) /\ q \in 1..Len(s) /\ Len(s) \in Nat  BY AscFacts
<1>2. PICK i \in 1..Len(s) : Asc(s)[p] = s[i]  BY <1>1, AscFacts
<1>3. PICK k \in 1..Len(s) : Asc(s)[q] = s[k]  BY <1>1, AscFacts
<1>4. i \in DOMAIN s /\ k \in DOMAIN s /\ s[i].at \in Nat /\ s[k].at \in Nat  BY Positions
<1>5. p < q \/ q < p  BY <1>1
<1>6. s[i].at < s[k].at \/ s[k].at < s[i].at  BY <1>1, <1>2, <1>3, <1>5, AscFacts
<1>7. s[i].at # s[k].at  BY <1>4, <1>6
<1>8. i # k  BY <1>7
<1> QED  BY <1>2, <1>3, <1>4, <1>7, <1>8 DEF Distinct

\* A later row comes last.
LEMMA AscAppend ==
    ASSUME NEW s \in Seq(Row), Distinct(s), NEW r \in Row,
           \A i \in DOMAIN s : s[i].at < r.at /\ s[i].job # r.job
    PROVE  Distinct(Append(s, r)) /\ Asc(Append(s, r)) = Append(Asc(s), r)
<1> DEFINE n == Len(s)
           a == Asc(s)
           S == Append(s, r)
           A == Append(a, r)
<1>1. /\ a \in Seq(Row) /\ Len(a) = n /\ n \in Nat /\ DOMAIN a = 1..n /\ DOMAIN s = 1..n
      /\ \A i, k \in 1..n : i < k => a[i].at < a[k].at
      /\ \A i \in 1..n : \E p \in 1..n : a[p] = s[i]
      /\ \A p \in 1..n : \E i \in 1..n : a[p] = s[i]
  BY AscFacts
<1> HIDE DEF a, n
<1>2. /\ S \in Seq(Row) /\ Len(S) = n + 1 /\ DOMAIN S = 1..(n + 1) /\ S[n + 1] = r
      /\ \A i \in 1..n : S[i] = s[i]
  BY <1>1 DEF n
<1>3. /\ A \in Seq(Row) /\ Len(A) = n + 1 /\ DOMAIN A = 1..(n + 1) /\ A[n + 1] = r
      /\ \A i \in 1..n : A[i] = a[i]
  BY <1>1
<1> HIDE DEF S, A
<1>4. \A i \in 1..(n + 1) : i \in 1..n \/ i = n + 1  BY <1>1
<1>5. \A i \in 1..n : s[i].at \in Nat /\ r.at \in Nat /\ s[i].at < r.at /\ s[i].job # r.job
  BY <1>1, Positions DEF Row
<1>6. Distinct(S)
  <2> SUFFICES ASSUME NEW i \in 1..(n + 1), NEW k \in 1..(n + 1), i # k
               PROVE  S[i].at # S[k].at /\ S[i].job # S[k].job
    BY <1>2 DEF Distinct
  <2>1. CASE i \in 1..n /\ k \in 1..n
    <3>1. i \in DOMAIN s /\ k \in DOMAIN s  BY <1>1, <2>1
    <3>2. s[i].at # s[k].at /\ s[i].job # s[k].job  BY <3>1 DEF Distinct
    <3> QED  BY <1>2, <2>1, <3>2
  <2>2. CASE i = n + 1  BY <1>2, <1>4, <1>5, <2>2
  <2>3. CASE k = n + 1  BY <1>2, <1>4, <1>5, <2>3
  <2> QED  BY <1>4, <2>1, <2>2, <2>3
<1>7. \A i, k \in DOMAIN A : i < k => A[i].at < A[k].at
  <2> SUFFICES ASSUME NEW i \in 1..(n + 1), NEW k \in 1..(n + 1), i < k PROVE A[i].at < A[k].at
    BY <1>3
  <2>1. i \in 1..n  BY <1>1
  <2>2. CASE k \in 1..n  BY <1>1, <1>3, <2>1, <2>2
  <2>3. CASE k = n + 1
    <3>1. PICK x \in 1..n : a[i] = s[x]  BY <1>1, <2>1
    <3> QED  BY <1>3, <1>5, <2>1, <2>3, <3>1
  <2> QED  BY <1>4, <2>2, <2>3
<1>8. \A i \in DOMAIN S : \E p \in DOMAIN A : A[p] = S[i]
  <2> SUFFICES ASSUME NEW i \in 1..(n + 1) PROVE \E p \in 1..(n + 1) : A[p] = S[i]  BY <1>2, <1>3
  <2>1. CASE i = n + 1  BY <1>2, <1>3, <2>1
  <2>2. CASE i \in 1..n
    <3>1. PICK p \in 1..n : a[p] = s[i]  BY <1>1, <2>2
    <3>2. p \in 1..(n + 1)  BY <1>1
    <3> QED  BY <1>2, <1>3, <2>2, <3>1, <3>2
  <2> QED  BY <1>4, <2>1, <2>2
<1>9. \A p \in DOMAIN A : \E i \in DOMAIN S : A[p] = S[i]
  <2> SUFFICES ASSUME NEW p \in 1..(n + 1) PROVE \E i \in 1..(n + 1) : A[p] = S[i]  BY <1>2, <1>3
  <2>1. CASE p = n + 1  BY <1>2, <1>3, <2>1
  <2>2. CASE p \in 1..n
    <3>1. PICK i \in 1..n : a[p] = s[i]  BY <1>1, <2>2
    <3>2. i \in 1..(n + 1)  BY <1>1
    <3> QED  BY <1>2, <1>3, <2>2, <3>1, <3>2
  <2> QED  BY <1>4, <2>1, <2>2
<1>10. Lists(A, S)  BY <1>2, <1>3, <1>7, <1>8, <1>9 DEF Lists
<1>11. Asc(S) = A  BY <1>2, <1>6, <1>10, AscIs
<1> QED  BY <1>6, <1>11 DEF S, A, a

\* What does not change the seconds does not change the order.
LEMMA AscFollows ==
    ASSUME NEW s \in Seq(Row), NEW n \in Seq(Row), NEW t \in Seq(Row), Distinct(s),
           Len(n) = Len(s), Len(t) = Len(s),
           \A i \in 1..Len(s) : n[i].at = s[i].at /\ n[i].job = s[i].job,
           \A p, i \in 1..Len(s) : Asc(s)[p] = s[i] => t[p] = n[i]
    PROVE  Distinct(n) /\ Asc(n) = t
<1> DEFINE L == Len(s)
           a == Asc(s)
<1>1. /\ a \in Seq(Row) /\ Len(a) = L /\ L \in Nat /\ DOMAIN a = 1..L /\ DOMAIN s = 1..L
      /\ \A i, k \in 1..L : i < k => a[i].at < a[k].at
      /\ \A i \in 1..L : \E p \in 1..L : a[p] = s[i]
      /\ \A p \in 1..L : \E i \in 1..L : a[p] = s[i]
  BY AscFacts
<1>2. \A p, i \in 1..L : a[p] = s[i] => t[p] = n[i]  OBVIOUS
<1>3. \A i \in 1..L : n[i].at = s[i].at /\ n[i].job = s[i].job  OBVIOUS
<1>4. DOMAIN n = 1..L /\ DOMAIN t = 1..L /\ Len(n) = L /\ Len(t) = L  OBVIOUS
<1> HIDE DEF a, L
<1>5. Distinct(n)
  <2> SUFFICES ASSUME NEW i \in 1..L, NEW k \in 1..L, i # k
               PROVE  n[i].at # n[k].at /\ n[i].job # n[k].job
    BY <1>4 DEF Distinct
  <2>1. i \in DOMAIN s /\ k \in DOMAIN s  BY <1>1
  <2>2. s[i].at # s[k].at /\ s[i].job # s[k].job  BY <2>1 DEF Distinct
  <2> QED  BY <1>3, <2>2
<1>6. ASSUME NEW p \in 1..L PROVE \E i \in 1..L : a[p] = s[i] /\ t[p] = n[i]
  <2>1. PICK i \in 1..L : a[p] = s[i]  BY <1>1
  <2>2. t[p] = n[i]  BY <1>2, <2>1
  <2> QED  BY <2>1, <2>2
<1>7. \A p \in 1..L : t[p].at = a[p].at  BY <1>3, <1>6
<1>8. \A i \in 1..L : \E p \in 1..L : t[p] = n[i]  BY <1>1, <1>2
<1>9. Lists(t, n)  BY <1>1, <1>4, <1>6, <1>7, <1>8 DEF Lists
<1> QED  BY <1>5, <1>9, AscIs

\* The last MaxJobs of a sequence.
LEMMA NewestFacts ==
    ASSUME NEW T, NEW t \in Seq(T)
    PROVE  LET m == IF Len(t) > MaxJobs THEN MaxJobs ELSE Len(t) IN
           /\ Newest(t) \in Seq(T) /\ Len(Newest(t)) = m /\ DOMAIN Newest(t) = 1..m
           /\ m \in Nat /\ m <= Len(t) /\ m <= MaxJobs /\ Len(t) \in Nat /\ DOMAIN t = 1..Len(t)
           /\ \A q \in 1..m : Newest(t)[q] = t[(Len(t) - m) + q] /\ (Len(t) - m) + q \in 1..Len(t)
           /\ Len(t) <= MaxJobs => Newest(t) = t
<1> DEFINE L == Len(t)
           m == IF L > MaxJobs THEN MaxJobs ELSE L
<1>1. L \in Nat /\ MaxJobs \in Nat /\ MaxJobs > 0 /\ DOMAIN t = 1..L  BY StoreAssumption
<1>2. m \in Nat /\ m <= L /\ m <= MaxJobs  BY <1>1
<1>3. CASE L > MaxJobs
  <2>1. Newest(t) = SubSeq(t, L - MaxJobs + 1, L) /\ m = MaxJobs  BY <1>3 DEF Newest
  <2>2. L - MaxJobs + 1 \in 1..L /\ L - (L - MaxJobs + 1) + 1 = MaxJobs  BY <1>1, <1>3
  <2> DEFINE f == L - MaxJobs + 1
             u == SubSeq(t, f, L)
  <2>3. f \in Nat /\ 1 <= f /\ f <= L /\ L - f + 1 = MaxJobs  BY <2>2, <1>1
  <2>a. \A q \in 1..MaxJobs : f + q - 1 = (L - MaxJobs) + q /\ (L - MaxJobs) + q \in 1..L
    BY <1>1, <1>3
  <2> HIDE DEF f
  <2>4. /\ u \in Seq(T) /\ Len(u) = L - f + 1
        /\ \A q \in 1..(L - f + 1) : u[q] = t[f + q - 1]
    BY <1>1, <2>3
  <2>5. DOMAIN u = 1..MaxJobs  BY <2>3, <2>4
  <2>6. Newest(t) = u  BY <2>1 DEF f
  <2> HIDE DEF u
  <2>7. \A q \in 1..MaxJobs : u[q] = t[(L - MaxJobs) + q]  BY <2>3, <2>4, <2>a
  <2> QED  BY <1>1, <1>2, <1>3, <2>1, <2>3, <2>4, <2>5, <2>6, <2>7, <2>a
<1>4. CASE ~(L > MaxJobs)
  <2>1. Newest(t) = t /\ m = L  BY <1>4 DEF Newest
  <2>2. \A q \in 1..L : (L - L) + q = q  BY <1>1
  <2> QED  BY <1>1, <1>2, <1>4, <2>1, <2>2
<1> QED  BY <1>3, <1>4

\* Dropping before an append what is dropped after it anyway.
LEMMA NewestAppend ==
    ASSUME NEW a \in Seq(Row), NEW r \in Row
    PROVE  Newest(Append(Newest(a), r)) = Newest(Append(a, r))
<1> DEFINE b == Newest(a)
           m == IF Len(a) > MaxJobs THEN MaxJobs ELSE Len(a)
           A == Append(a, r)
           B == Append(b, r)
           x == Newest(A)
           y == Newest(B)
           M == IF Len(a) + 1 > MaxJobs THEN MaxJobs ELSE Len(a) + 1
<1>0. MaxJobs \in Nat /\ MaxJobs > 0 /\ Len(a) \in Nat  BY StoreAssumption
<1>1. /\ b \in Seq(Row) /\ Len(b) = m /\ m \in Nat /\ m <= Len(a) /\ m <= MaxJobs
      /\ \A q \in 1..m : b[q] = a[(Len(a) - m) + q]
  BY NewestFacts
<1>2. /\ A \in Seq(Row) /\ Len(A) = Len(a) + 1 /\ A[Len(a) + 1] = r
      /\ \A q \in 1..Len(a) : A[q] = a[q]
  OBVIOUS
<1> HIDE DEF b
<1>3. B \in Seq(Row) /\ Len(B) = m + 1 /\ B[m + 1] = r /\ \A q \in 1..m : B[q] = b[q]  BY <1>1
<1> HIDE DEF A, B
<1> DEFINE mA == IF Len(A) > MaxJobs THEN MaxJobs ELSE Len(A)
           mB == IF Len(B) > MaxJobs THEN MaxJobs ELSE Len(B)
<1>a. x \in Seq(Row) /\ Len(x) = mA /\ \A q \in 1..mA : x[q] = A[(Len(A) - mA) + q]
  BY <1>2, NewestFacts
<1>b. y \in Seq(Row) /\ Len(y) = mB /\ \A q \in 1..mB : y[q] = B[(Len(B) - mB) + q]
  BY <1>3, NewestFacts
<1>4. mA = M  BY <1>2
<1>5. mB = M  BY <1>0, <1>1, <1>3
<1>c. M \in Nat /\ M >= 1  BY <1>0
<1> HIDE DEF x, y, mA, mB, M, m
<1>6. x \in Seq(Row) /\ Len(x) = M /\ M \in Nat /\ M >= 1 /\ \A q \in 1..M : x[q] = A[(Len(a) + 1 - M) + q]
  BY <1>2, <1>4, <1>a, <1>c
<1>7. y \in Seq(Row) /\ Len(y) = M /\ \A q \in 1..M : y[q] = B[(m + 1 - M) + q]
  <2>1. Len(B) - mB = m + 1 - M  BY <1>1, <1>3, <1>5, <1>c
  <2>2. y \in Seq(Row) /\ Len(y) = mB /\ \A q \in 1..mB : y[q] = B[(m + 1 - M) + q]  BY <1>b, <2>1
  <2> QED  BY <1>5, <2>2
<1>8. M <= m + 1 /\ M <= Len(a) + 1  BY <1>0, <1>1 DEF M, m
<1>9. ASSUME NEW q \in 1..M PROVE x[q] = y[q]
  <2>1. CASE q = M
    <3>1. (Len(a) + 1 - M) + q = Len(a) + 1 /\ (m + 1 - M) + q = m + 1  BY <1>0, <1>1, <1>6, <2>1
    <3> QED  BY <1>2, <1>3, <1>6, <1>7, <3>1
  <2>2. CASE q # M
    <3>1. (Len(a) + 1 - M) + q \in 1..Len(a) /\ (m + 1 - M) + q \in 1..m
      BY <1>0, <1>1, <1>6, <1>8, <2>2
    <3>2. x[q] = a[(Len(a) + 1 - M) + q]  BY <1>2, <1>6, <3>1
    <3>3. y[q] = a[(Len(a) - m) + ((m + 1 - M) + q)]  BY <1>1, <1>3, <1>7, <3>1
    <3>4. (Len(a) - m) + ((m + 1 - M) + q) = (Len(a) + 1 - M) + q  BY <1>0, <1>1, <1>6
    <3> QED  BY <3>2, <3>3, <3>4
  <2> QED  BY <2>1, <2>2
<1>10. x = y  BY <1>6, <1>7, <1>9
<1> QED  BY <1>10 DEF x, y, A, B, b

\* The rows that are kept are rows.
LEMMA NewestRows ==
    ASSUME NEW t \in Seq(Row), NEW q \in DOMAIN Newest(t)
    PROVE  \E p \in DOMAIN t : Newest(t)[q] = t[p]
BY NewestFacts

LEMMA NewestDistinct ==
    ASSUME NEW t \in Seq(Row), Distinct(t)
    PROVE  Distinct(Newest(t))
<1> DEFINE m == IF Len(t) > MaxJobs THEN MaxJobs ELSE Len(t)
<1>1. /\ DOMAIN Newest(t) = 1..m /\ m \in Nat /\ Len(t) \in Nat /\ DOMAIN t = 1..Len(t)
      /\ \A q \in 1..m : Newest(t)[q] = t[(Len(t) - m) + q] /\ (Len(t) - m) + q \in 1..Len(t)
  BY NewestFacts
<1> HIDE DEF m
<1> SUFFICES ASSUME NEW p \in 1..m, NEW q \in 1..m, p # q
             PROVE  Newest(t)[p].at # Newest(t)[q].at /\ Newest(t)[p].job # Newest(t)[q].job
  BY <1>1 DEF Distinct
<1>2. (Len(t) - m) + p # (Len(t) - m) + q  BY <1>1
<1>3. (Len(t) - m) + p \in DOMAIN t /\ (Len(t) - m) + q \in DOMAIN t  BY <1>1
<1>4. t[(Len(t) - m) + p].at # t[(Len(t) - m) + q].at /\ t[(Len(t) - m) + p].job # t[(Len(t) - m) + q].job
  BY <1>2, <1>3 DEF Distinct
<1> QED  BY <1>1, <1>4

\* Eviction at the cap drops the first row of the list.
LEMMA AscRemove ==
    ASSUME NEW s \in Seq(Row), Distinct(s), NEW e \in DOMAIN s, Oldest(s, e)
    PROVE  /\ Distinct(RemoveAt(s, e))
           /\ Asc(RemoveAt(s, e)) = [q \in 1..(Len(s) - 1) |-> Asc(s)[q + 1]]
<1> DEFINE L == Len(s)
           a == Asc(s)
           z == RemoveAt(s, e)
           b == [q \in 1..(L - 1) |-> a[q + 1]]
<1>1. /\ a \in Seq(Row) /\ L \in Nat /\ DOMAIN a = 1..L /\ DOMAIN s = 1..L
      /\ \A i, k \in 1..L : i < k => a[i].at < a[k].at
      /\ \A i \in 1..L : \E p \in 1..L : a[p] = s[i]
      /\ \A p \in 1..L : \E i \in 1..L : a[p] = s[i]
  BY AscFacts
<1>2. z \in Seq(Row) /\ Len(z) = L - 1 /\ \A p \in 1..(L - 1) : z[p] = s[IF p < e THEN p ELSE p + 1]
  BY Removing
<1>3. \A i \in 1..L : s[i].at \in Nat  BY <1>1, Positions
<1>4. \A i, k \in 1..L : i # k => s[i].at # s[k].at /\ s[i].job # s[k].job  BY <1>1 DEF Distinct
<1>0. e \in 1..L /\ L \in Nat  BY <1>1
<1>5. ASSUME NEW i \in 1..L PROVE s[e].at <= s[i].at
  <2>1. i \in DOMAIN s /\ s[i].at \in Nat /\ s[e].at \in Nat  BY <1>0, <1>1, <1>3
  <2>2. s[e].at < s[i].at \/ s[e].at = s[i].at  BY <2>1 DEF Oldest
  <2> QED  BY <2>1, <2>2
<1> HIDE DEF L
<1>6. L \in Nat /\ e \in Nat /\ e \in 1..L /\ 1 <= e /\ e <= L /\ 1 \in 1..L  BY <1>0
<1>7. \A p \in 1..(L - 1) : p \in 1..L /\ p + 1 \in 1..L /\ p \in Nat  BY <1>6
<1>8. \A q \in 1..(L - 1) : a[q + 1] \in Row  BY <1>1, <1>7
<1>9. b \in Seq(Row) /\ Len(b) = L - 1 /\ DOMAIN b = 1..(L - 1) /\ \A q \in 1..(L - 1) : b[q] = a[q + 1]
  <2>1. L - 1 \in Nat  BY <1>6
  <2>2. b \in [1..(L - 1) -> Row]  BY <1>8
  <2>3. \A q \in 1..(L - 1) : b[q] = a[q + 1]  OBVIOUS
  <2> HIDE DEF b
  <2>4. b \in Seq(Row) /\ Len(b) = L - 1 /\ DOMAIN b = 1..(L - 1)  BY <2>1, <2>2
  <2> QED  BY <2>3, <2>4
<1>10. DOMAIN z = 1..(L - 1)  BY <1>2, <1>6
<1> HIDE DEF z, b, a
<1>11. \A p \in 1..(L - 1) : \E i \in 1..L : i # e /\ z[p] = s[i]
  <2> SUFFICES ASSUME NEW p \in 1..(L - 1) PROVE \E i \in 1..L : i # e /\ z[p] = s[i]  OBVIOUS
  <2>1. CASE p < e
    <3>1. z[p] = s[p] /\ p # e /\ p \in 1..L  BY <1>2, <1>6, <1>7, <2>1
    <3> QED  BY <3>1
  <2>2. CASE ~(p < e)
    <3>1. z[p] = s[p + 1] /\ p + 1 # e /\ p + 1 \in 1..L  BY <1>2, <1>6, <1>7, <2>2
    <3> QED  BY <3>1
  <2> QED  BY <2>1, <2>2
<1>12. \A i \in 1..L : i # e => \E p \in 1..(L - 1) : z[p] = s[i]
  <2> SUFFICES ASSUME NEW i \in 1..L, i # e PROVE \E p \in 1..(L - 1) : z[p] = s[i]  OBVIOUS
  <2>1. CASE i < e
    <3>1. i \in 1..(L - 1)  BY <1>6, <2>1
    <3> QED  BY <1>2, <2>1, <3>1
  <2>2. CASE e < i
    <3>1. i - 1 \in 1..(L - 1) /\ ~(i - 1 < e) /\ (i - 1) + 1 = i  BY <1>6, <2>2
    <3>2. z[i - 1] = s[(i - 1) + 1]  BY <1>2, <3>1
    <3> QED  BY <3>1, <3>2
  <2> QED  BY <1>6, <2>1, <2>2
<1>13. Distinct(z)
  <2> SUFFICES ASSUME NEW p \in 1..(L - 1), NEW q \in 1..(L - 1), p # q
               PROVE  z[p].at # z[q].at /\ z[p].job # z[q].job
    BY <1>10 DEF Distinct
  <2> DEFINE i == IF p < e THEN p ELSE p + 1
             k == IF q < e THEN q ELSE q + 1
  <2>1. i # k /\ i \in 1..L /\ k \in 1..L  BY <1>6, <1>7
  <2>2. z[p] = s[i] /\ z[q] = s[k]  BY <1>2
  <2> HIDE DEF i, k
  <2>3. s[i].at # s[k].at /\ s[i].job # s[k].job  BY <1>4, <2>1
  <2> QED  BY <2>2, <2>3
<1>14. a[1] = s[e]
  <2>1. PICK k \in 1..L : a[k] = s[e]  BY <1>1, <1>6
  <2>2. PICK i \in 1..L : a[1] = s[i]  BY <1>1, <1>6
  <2>3. s[e].at <= s[i].at  BY <1>5
  <2>4. CASE k = 1  BY <2>1, <2>4
  <2>5. CASE k # 1
    <3>1. 1 < k  BY <1>6, <2>5
    <3>2. a[1].at < a[k].at  BY <1>1, <1>6, <3>1
    <3>3. s[i].at < s[e].at  BY <2>1, <2>2, <3>2
    <3>4. s[i].at \in Nat /\ s[e].at \in Nat  BY <1>3, <1>6
    <3> QED  BY <2>3, <3>3, <3>4
  <2> QED  BY <2>4, <2>5
<1>15. \A i, k \in DOMAIN b : i < k => b[i].at < b[k].at
  <2> SUFFICES ASSUME NEW i \in 1..(L - 1), NEW k \in 1..(L - 1), i < k PROVE b[i].at < b[k].at
    BY <1>9
  <2>1. i + 1 < k + 1 /\ i + 1 \in 1..L /\ k + 1 \in 1..L  BY <1>7
  <2> QED  BY <1>1, <1>9, <2>1
<1>16. ASSUME NEW p \in 1..(L - 1) PROVE \E q \in 1..(L - 1) : b[q] = z[p]
  <2>1. PICK i \in 1..L : i # e /\ z[p] = s[i]  BY <1>11
  <2>2. PICK k \in 1..L : a[k] = s[i]  BY <1>1
  <2>3. s[i].at # s[e].at  BY <1>4, <1>6, <2>1
  <2>4. k # 1  BY <1>14, <2>2, <2>3
  <2>5. k - 1 \in 1..(L - 1) /\ (k - 1) + 1 = k  BY <1>6, <2>4
  <2>6. b[k - 1] = a[(k - 1) + 1]  BY <1>9, <2>5
  <2> QED  BY <2>1, <2>2, <2>5, <2>6
<1>17. ASSUME NEW q \in 1..(L - 1) PROVE \E p \in 1..(L - 1) : b[q] = z[p]
  <2>1. q + 1 \in 1..L /\ 1 < q + 1 /\ b[q] = a[q + 1]  BY <1>7, <1>9
  <2>2. PICK i \in 1..L : a[q + 1] = s[i]  BY <1>1, <2>1
  <2>3. a[1].at < a[q + 1].at  BY <1>1, <1>6, <2>1
  <2>4. s[e].at < s[i].at /\ s[e].at \in Nat  BY <1>3, <1>6, <1>14, <2>2, <2>3
  <2>5. i # e  BY <2>4
  <2> QED  BY <1>12, <2>1, <2>2, <2>5
<1>18. Lists(b, z)  BY <1>2, <1>9, <1>10, <1>15, <1>16, <1>17 DEF Lists
<1>19. Asc(z) = b  BY <1>2, <1>13, <1>18, AscIs
<1> QED  BY <1>13, <1>19 DEF z, b, a, L

LEMMA AscEvict ==
    ASSUME NEW s \in Seq(Row), Distinct(s), Len(s) <= MaxJobs + 1
    PROVE  Distinct(Evict(s)) /\ Asc(Evict(s)) = Newest(Asc(s))
<1> DEFINE L == Len(s)
           a == Asc(s)
           m == IF Len(a) > MaxJobs THEN MaxJobs ELSE Len(a)
<1>1. a \in Seq(Row) /\ Len(a) = L /\ L \in Nat  BY AscFacts
<1>2. MaxJobs \in Nat /\ MaxJobs > 0 /\ L <= MaxJobs + 1  BY StoreAssumption
<1>3. CASE L <= MaxJobs
  <2>1. Evict(s) = s  BY <1>3, Evicting
  <2>2. Newest(a) = a  BY <1>1, <1>3, NewestFacts
  <2> QED  BY <2>1, <2>2
<1>4. CASE L = MaxJobs + 1
  <2>1. PICK e \in DOMAIN s : Oldest(s, e) /\ Evict(s) = RemoveAt(s, e)  BY <1>2, <1>4, Evicting
  <2>2. Distinct(Evict(s)) /\ Asc(Evict(s)) = [q \in 1..(L - 1) |-> a[q + 1]]  BY <2>1, AscRemove
  <2>3. /\ Newest(a) \in Seq(Row) /\ DOMAIN Newest(a) = 1..m
        /\ \A q \in 1..m : Newest(a)[q] = a[(Len(a) - m) + q]
    BY <1>1, NewestFacts
  <2>4. m = L - 1  BY <1>1, <1>2, <1>4
  <2> HIDE DEF m, a, L
  <2>5. \A q \in 1..(L - 1) : (Len(a) - m) + q = q + 1  BY <1>1, <2>4
  <2>6. Newest(a) = [q \in 1..(L - 1) |-> a[q + 1]]  BY <2>3, <2>4, <2>5
  <2> QED  BY <2>2, <2>6 DEF a
<1> QED  BY <1>1, <1>2, <1>3, <1>4

\* A load finds the last rows of the list.
LEMMA AscLoaded ==
    ASSUME NEW s \in Seq(Row), Distinct(s)
    PROVE  Distinct(Loaded(s)) /\ Asc(Loaded(s)) = Newest(Asc(s))
<1> DEFINE L == Len(s)
           a == Asc(s)
           n == NewestFirst(s)
           m == IF L < MaxJobs THEN L ELSE MaxJobs
           z == Trim(s)
           b == Newest(a)
<1>1. /\ a \in Seq(Row) /\ Len(a) = L /\ L \in Nat /\ DOMAIN a = 1..L /\ DOMAIN s = 1..L
      /\ \A i, k \in 1..L : i < k => a[i].at < a[k].at
  BY AscFacts
<1>2. MaxJobs \in Nat /\ MaxJobs > 0 /\ m \in Nat /\ m <= L /\ m <= MaxJobs  BY <1>1, StoreAssumption
<1>3. CASE Loaded(s) = s /\ L <= MaxJobs
  <2>1. Newest(a) = a  BY <1>1, <1>3, NewestFacts
  <2> QED  BY <1>3, <2>1
<1>4. CASE Loaded(s) = z
  <2>1. z \in Seq(Row) /\ Len(z) = m /\ \A p \in DOMAIN z : z[p] = n[p]  BY Trimming
  <2>2. DOMAIN z = 1..m  BY <1>2, <2>1
  <2>3. /\ b \in Seq(Row) /\ Len(b) = m /\ DOMAIN b = 1..m
        /\ \A q \in 1..m : b[q] = a[(L - m) + q] /\ (L - m) + q \in 1..L
    <3>1. (IF Len(a) > MaxJobs THEN MaxJobs ELSE Len(a)) = m  BY <1>1, <1>2
    <3> QED  BY <1>1, <3>1, NewestFacts
  <2>4. \A p \in 1..L : a[p] = n[L + 1 - p]  BY <1>1 DEF Asc
  <2>5. Distinct(b)
    <3>1. Distinct(a)  BY AscDistinct
    <3> QED  BY <1>1, <3>1, NewestDistinct
  <2> HIDE DEF z, b, a, n, m, L
  <2>6. \A q \in 1..m : m + 1 - q \in 1..m /\ m + 1 - (m + 1 - q) = q /\ L + 1 - ((L - m) + q) = m + 1 - q
    BY <1>1, <1>2
  <2>7. \A q \in 1..m : b[q] = z[m + 1 - q]
    <3> SUFFICES ASSUME NEW q \in 1..m PROVE b[q] = z[m + 1 - q]  OBVIOUS
    <3>1. b[q] = n[L + 1 - ((L - m) + q)]  BY <2>3, <2>4
    <3>2. z[m + 1 - q] = n[m + 1 - q]  BY <2>1, <2>2, <2>6
    <3>3. L + 1 - ((L - m) + q) = m + 1 - q  BY <2>6
    <3> QED  BY <3>1, <3>2, <3>3
  <2>8. \A p \in 1..m : z[p] = b[m + 1 - p]
    <3> SUFFICES ASSUME NEW p \in 1..m PROVE z[p] = b[m + 1 - p]  OBVIOUS
    <3>1. m + 1 - p \in 1..m /\ m + 1 - (m + 1 - p) = p  BY <2>6
    <3>2. b[m + 1 - p] = z[m + 1 - (m + 1 - p)]  BY <2>7, <3>1
    <3> QED  BY <3>1, <3>2
  <2>9. Distinct(z)
    <3> SUFFICES ASSUME NEW p \in 1..m, NEW q \in 1..m, p # q
                 PROVE  z[p].at # z[q].at /\ z[p].job # z[q].job
      BY <2>2 DEF Distinct
    <3>1. m + 1 - p # m + 1 - q /\ m + 1 - p \in 1..m /\ m + 1 - q \in 1..m  BY <1>2
    <3>2. b[m + 1 - p].at # b[m + 1 - q].at /\ b[m + 1 - p].job # b[m + 1 - q].job
      BY <2>3, <2>5, <3>1 DEF Distinct
    <3> QED  BY <2>8, <3>2
  <2>10. \A i, k \in DOMAIN b : i < k => b[i].at < b[k].at
    <3> SUFFICES ASSUME NEW i \in 1..m, NEW k \in 1..m, i < k PROVE b[i].at < b[k].at  BY <2>3
    <3>1. (L - m) + i < (L - m) + k  BY <1>1, <1>2
    <3> QED  BY <1>1, <2>3, <3>1
  <2>11. Lists(b, z)  BY <2>1, <2>2, <2>3, <2>6, <2>7, <2>8, <2>10 DEF Lists
  <2>12. Asc(z) = b  BY <2>1, <2>9, <2>11, AscIs
  <2> QED  BY <1>4, <2>9, <2>12 DEF b, a
<1>5. (Loaded(s) = s /\ L <= MaxJobs) \/ Loaded(s) = z  BY <1>1, <1>2 DEF Loaded
<1> QED  BY <1>3, <1>4, <1>5

-----------------------------------------------------------------------------
(* What the abstract store sees of a list of rows *)

Names(t) == [p \in DOMAIN t |-> t[p].job]

LEMMA OrderIs ==
    ASSUME NEW s \in Seq(Row), Distinct(s)
    PROVE  OrderOf(s) = Names(Asc(s))
<1>1. DOMAIN NewestFirst(s) = DOMAIN s /\ Len(NewestFirst(s)) = Len(s)  BY Sorting
<1>2. OrderOf(s) = [p \in DOMAIN s |-> NewestFirst(s)[Len(s) + 1 - p].job]  BY <1>1 DEF OrderOf
<1>3. DOMAIN Asc(s) = DOMAIN s /\ \A p \in DOMAIN s : Asc(s)[p] = NewestFirst(s)[Len(s) + 1 - p]
  BY DEF Asc
<1> QED  BY <1>2, <1>3 DEF Names

\* A job's row is the one with its id.
LEMMA RowsAre ==
    ASSUME NEW s \in Seq(Row), Distinct(s)
    PROVE  /\ RowsOf(s) = [j \in Jobs |-> RowsOf(s)[j]]
           /\ \A i \in DOMAIN s : s[i].job \in Jobs /\ RowsOf(s)[s[i].job] = s[i].status /\ s[i].status # "absent"
           /\ \A j \in Jobs : (\A i \in DOMAIN s : s[i].job # j) => RowsOf(s)[j] = "absent"
<1>1. \A i \in DOMAIN s : s[i] \in Row  BY Positions
<1>2. \A i \in DOMAIN s : s[i].job \in Jobs /\ s[i].status # "absent"  BY <1>1 DEF Row
<1>3. ASSUME NEW i \in DOMAIN s PROVE RowsOf(s)[s[i].job] = s[i].status
  <2> DEFINE c == CHOOSE k \in DOMAIN s : s[k].job = s[i].job
  <2>1. c \in DOMAIN s /\ s[c].job = s[i].job  OBVIOUS
  <2>2. c = i  BY <2>1 DEF Distinct
  <2>3. s[i].job \in JobsOf(s)  BY DEF JobsOf
  <2>4. RowsOf(s)[s[i].job] = s[c].status  BY <1>2, <2>3 DEF RowsOf
  <2> QED  BY <2>2, <2>4
<1>4. ASSUME NEW j \in Jobs, \A i \in DOMAIN s : s[i].job # j PROVE RowsOf(s)[j] = "absent"
  <2>1. j \notin JobsOf(s)  BY <1>4 DEF JobsOf
  <2> QED  BY <2>1 DEF RowsOf
<1>5. RowsOf(s) = [j \in Jobs |-> RowsOf(s)[j]]  BY DEF RowsOf
<1> QED  BY <1>2, <1>3, <1>4, <1>5

LEMMA RowsSame ==
    ASSUME NEW s \in Seq(Row), Distinct(s)
    PROVE  RowsOf(s) = RowsOf(Asc(s))
<1> DEFINE a == Asc(s)
<1>1. /\ a \in Seq(Row) /\ Distinct(a)
      /\ \A i \in DOMAIN s : \E p \in DOMAIN a : a[p] = s[i]
      /\ \A p \in DOMAIN a : \E i \in DOMAIN s : a[p] = s[i]
  BY AscLists, AscDistinct DEF Lists
<1> HIDE DEF a
<1>2. ASSUME NEW j \in Jobs PROVE RowsOf(s)[j] = RowsOf(a)[j]
  <2>1. CASE \E i \in DOMAIN s : s[i].job = j
    <3>1. PICK i \in DOMAIN s : s[i].job = j  BY <2>1
    <3>2. PICK p \in DOMAIN a : a[p] = s[i]  BY <1>1
    <3>3. RowsOf(s)[j] = s[i].status  BY <3>1, RowsAre
    <3>4. RowsOf(a)[a[p].job] = a[p].status  BY <1>1, RowsAre
    <3> QED  BY <3>1, <3>2, <3>3, <3>4
  <2>2. CASE \A i \in DOMAIN s : s[i].job # j
    <3>1. \A p \in DOMAIN a : a[p].job # j  BY <1>1, <2>2
    <3>2. RowsOf(s)[j] = "absent"  BY <2>2, RowsAre
    <3>3. RowsOf(a)[j] = "absent"  BY <1>1, <3>1, RowsAre
    <3> QED  BY <3>2, <3>3
  <2> QED  BY <2>1, <2>2
<1>3. RowsOf(s) = [j \in Jobs |-> RowsOf(s)[j]]  BY RowsAre
<1>4. RowsOf(a) = [j \in Jobs |-> RowsOf(a)[j]]  BY <1>1, RowsAre
<1>5. RowsOf(s) = RowsOf(a)  BY <1>2, <1>3, <1>4
<1> QED  BY <1>5 DEF a

\* The names of a list.
LEMMA NamesFacts ==
    ASSUME NEW t \in Seq(Row)
    PROVE  Names(t) \in Seq(Jobs) /\ Len(Names(t)) = Len(t) /\ \A p \in 1..Len(t) : Names(t)[p] = t[p].job
<1>1. DOMAIN t = 1..Len(t) /\ Len(t) \in Nat /\ \A p \in 1..Len(t) : t[p] \in Row  BY Positions
<1>2. \A p \in 1..Len(t) : t[p].job \in Jobs  BY <1>1 DEF Row
<1>3. Names(t) \in [1..Len(t) -> Jobs] /\ \A p \in 1..Len(t) : Names(t)[p] = t[p].job
  BY <1>1, <1>2 DEF Names
<1> QED  BY <1>1, <1>3

LEMMA NamesNewest ==
    ASSUME NEW t \in Seq(Row)
    PROVE  Names(Newest(t)) = Newest(Names(t))
<1> DEFINE m == IF Len(t) > MaxJobs THEN MaxJobs ELSE Len(t)
           n == Names(t)
           b == Newest(t)
           c == Newest(n)
           M == IF Len(n) > MaxJobs THEN MaxJobs ELSE Len(n)
<1>1. /\ b \in Seq(Row) /\ Len(b) = m /\ m \in Nat
      /\ \A q \in 1..m : b[q] = t[(Len(t) - m) + q] /\ (Len(t) - m) + q \in 1..Len(t)
  BY NewestFacts
<1>2. n \in Seq(Jobs) /\ Len(n) = Len(t) /\ \A p \in 1..Len(t) : n[p] = t[p].job  BY NamesFacts
<1> HIDE DEF n
<1>3. /\ c \in Seq(Jobs) /\ Len(c) = M /\ \A q \in 1..M : c[q] = n[(Len(n) - M) + q]
  BY <1>2, NewestFacts
<1>4. M = m  BY <1>2
<1> HIDE DEF b, c, m, M
<1>5. Names(b) \in Seq(Jobs) /\ Len(Names(b)) = m /\ \A q \in 1..m : Names(b)[q] = b[q].job
  BY <1>1, NamesFacts
<1>6. \A q \in 1..m : c[q] = n[(Len(t) - m) + q]  BY <1>2, <1>3, <1>4
<1>7. \A q \in 1..m : Names(b)[q] = c[q]  BY <1>1, <1>2, <1>5, <1>6
<1>8. Names(b) = c  BY <1>1, <1>3, <1>4, <1>5, <1>7
<1> QED  BY <1>8 DEF b, c, n

LEMMA NamesAppend ==
    ASSUME NEW t \in Seq(Row), NEW r \in Row
    PROVE  Names(Append(t, r)) = Append(Names(t), r.job)
<1> DEFINE A == Append(t, r)
           n == Names(t)
<1>1. /\ A \in Seq(Row) /\ Len(A) = Len(t) + 1 /\ Len(t) \in Nat /\ A[Len(t) + 1] = r
      /\ \A p \in 1..Len(t) : A[p] = t[p]
  OBVIOUS
<1>2. n \in Seq(Jobs) /\ Len(n) = Len(t) /\ \A p \in 1..Len(t) : n[p] = t[p].job  BY NamesFacts
<1>3. r.job \in Jobs  BY DEF Row
<1> HIDE DEF A, n
<1> DEFINE B == Append(n, r.job)
<1>4. /\ B \in Seq(Jobs) /\ Len(B) = Len(t) + 1 /\ B[Len(t) + 1] = r.job
      /\ \A p \in 1..Len(t) : B[p] = n[p]
  BY <1>2, <1>3
<1>5. Names(A) \in Seq(Jobs) /\ Len(Names(A)) = Len(t) + 1 /\ \A p \in 1..(Len(t) + 1) : Names(A)[p] = A[p].job
  BY <1>1, NamesFacts
<1> HIDE DEF B
<1>6. \A p \in 1..(Len(t) + 1) : p \in 1..Len(t) \/ p = Len(t) + 1  BY <1>1
<1>7. \A p \in 1..(Len(t) + 1) : Names(A)[p] = B[p]  BY <1>1, <1>2, <1>4, <1>5, <1>6
<1>8. Names(A) = B  BY <1>4, <1>5, <1>7
<1> QED  BY <1>8 DEF A, B, n

\* Adding to the list is adding to the abstract store.
LEMMA AddIs ==
    ASSUME NEW k \in Seq(Row), NEW r \in Row, r.status = "pending", Distinct(k),
           Distinct(Append(k, r)), \A i \in DOMAIN k : k[i].job # r.job
    PROVE  /\ Names(Newest(Append(k, r))) = Add(RowsOf(k), Names(k), r.job).order
           /\ RowsOf(Newest(Append(k, r))) = Add(RowsOf(k), Names(k), r.job).rows
<1> DEFINE A == Append(k, r)
           K == Newest(A)
           new == [RowsOf(k) EXCEPT ![r.job] = "pending"]
<1>1. /\ A \in Seq(Row) /\ DOMAIN A = 1..(Len(k) + 1) /\ A[Len(k) + 1] = r /\ DOMAIN k = 1..Len(k)
      /\ Len(k) \in Nat /\ \A i \in DOMAIN k : A[i] = k[i]
  OBVIOUS
<1>2. Distinct(A)  OBVIOUS
<1> HIDE DEF A
<1>3. K \in Seq(Row) /\ Distinct(K)  BY <1>1, <1>2, NewestFacts, NewestDistinct
<1>4. \A q \in DOMAIN K : \E p \in DOMAIN A : K[q] = A[p]  BY <1>1, NewestRows
<1>5. Names(K) = Newest(Append(Names(k), r.job))
  <2>1. Names(A) = Append(Names(k), r.job)  BY NamesAppend DEF A
  <2> QED  BY <1>1, <2>1, NamesNewest
<1> HIDE DEF K
<1>6. Members(Names(K)) = JobsOf(K)  BY DEF Members, Names, JobsOf
<1>7. Add(RowsOf(k), Names(k), r.job).order = Names(K)  BY <1>5, JsonlAssumption DEF Add
<1>8. Add(RowsOf(k), Names(k), r.job).rows = [x \in Jobs |-> IF x \in JobsOf(K) THEN new[x] ELSE "absent"]
  BY <1>5, <1>6, JsonlAssumption DEF Add
<1>9. r.job \in Jobs /\ RowsOf(k) = [x \in Jobs |-> RowsOf(k)[x]]  BY RowsAre DEF Row
<1>10. new[r.job] = "pending" /\ \A x \in Jobs : x # r.job => new[x] = RowsOf(k)[x]  BY <1>9
<1> HIDE DEF new
<1>11. ASSUME NEW x \in Jobs PROVE RowsOf(K)[x] = IF x \in JobsOf(K) THEN new[x] ELSE "absent"
  <2>1. CASE x \in JobsOf(K)
    <3>1. PICK q \in DOMAIN K : K[q].job = x  BY <2>1 DEF JobsOf
    <3>2. RowsOf(K)[x] = K[q].status  BY <1>3, <3>1, RowsAre
    <3>3. PICK p \in DOMAIN A : K[q] = A[p]  BY <1>4
    <3>4. CASE p = Len(k) + 1  BY <1>1, <1>10, <2>1, <3>1, <3>2, <3>3, <3>4
    <3>5. CASE p \in DOMAIN k
      <4>1. K[q] = k[p]  BY <1>1, <3>3, <3>5
      <4>2. k[p].job = x /\ x # r.job  BY <3>1, <3>5, <4>1
      <4>3. RowsOf(k)[x] = k[p].status  BY <3>5, <4>2, RowsAre
      <4> QED  BY <1>10, <2>1, <3>2, <4>1, <4>2, <4>3
    <3> QED  BY <1>1, <3>4, <3>5
  <2>2. CASE x \notin JobsOf(K)
    <3>1. \A q \in DOMAIN K : K[q].job # x  BY <2>2 DEF JobsOf
    <3> QED  BY <1>3, <2>2, <3>1, RowsAre
  <2> QED  BY <2>1, <2>2
<1>12. RowsOf(K) = [x \in Jobs |-> RowsOf(K)[x]]  BY <1>3, RowsAre
<1>13. RowsOf(K) = Add(RowsOf(k), Names(k), r.job).rows  BY <1>8, <1>11, <1>12
<1> QED  BY <1>7, <1>13 DEF K, A

\* The same for a status: of one job, or of the interrupted ones.
Updated(m, j, s) == [i \in DOMAIN m |-> IF m[i].job = j THEN [m[i] EXCEPT !.status = s] ELSE m[i]]

LEMMA UpdatedFacts ==
    ASSUME NEW m \in Seq(Row), NEW j \in Jobs, NEW s \in Active \cup Terminal
    PROVE  /\ Updated(m, j, s) \in Seq(Row) /\ Len(Updated(m, j, s)) = Len(m)
           /\ DOMAIN m = 1..Len(m) /\ DOMAIN Updated(m, j, s) = 1..Len(m)
           /\ \A i \in 1..Len(m) : /\ Updated(m, j, s)[i].at = m[i].at
                                   /\ Updated(m, j, s)[i].job = m[i].job
                                   /\ Updated(m, j, s)[i].status = IF m[i].job = j THEN s ELSE m[i].status
                                   /\ Updated(m, j, s)[i] =
                                        IF m[i].job = j THEN [m[i] EXCEPT !.status = s] ELSE m[i]
<1> DEFINE n == Updated(m, j, s)
<1>1. \A i \in DOMAIN m : m[i] \in Row  BY Positions
<1>2. s \in Status \ {"absent"}  BY DEF Status, Active, Terminal
<1>3. \A i \in DOMAIN m : [m[i] EXCEPT !.status = s] \in Row  BY <1>1, <1>2 DEF Row
<1>4. /\ DOMAIN n = DOMAIN m /\ n = [i \in DOMAIN m |-> n[i]]
      /\ \A i \in DOMAIN m : n[i] = IF m[i].job = j THEN [m[i] EXCEPT !.status = s] ELSE m[i]
  BY DEF Updated
<1>5. DOMAIN m = 1..Len(m)  BY Positions
<1> HIDE DEF n
<1>6. \A i \in DOMAIN m : n[i] \in Row  BY <1>1, <1>3, <1>4
<1>7. n \in Seq(Row) /\ Len(n) = Len(m)  BY <1>4, <1>6, MapType
<1>8. \A i \in DOMAIN m : /\ n[i].at = m[i].at /\ n[i].job = m[i].job
                          /\ n[i].status = IF m[i].job = j THEN s ELSE m[i].status
  BY <1>1, <1>4 DEF Row
<1> QED  BY <1>4, <1>5, <1>7, <1>8 DEF n

LEMMA AscUpdated ==
    ASSUME NEW m \in Seq(Row), Distinct(m), NEW j \in Jobs, NEW s \in Active \cup Terminal
    PROVE  Distinct(Updated(m, j, s)) /\ Asc(Updated(m, j, s)) = Updated(Asc(m), j, s)
<1> DEFINE n == Updated(m, j, s)
           t == Updated(Asc(m), j, s)
<1>1. Asc(m) \in Seq(Row) /\ Len(Asc(m)) = Len(m)  BY AscFacts
<1>2. /\ n \in Seq(Row) /\ Len(n) = Len(m)
      /\ \A i \in 1..Len(m) : /\ n[i].at = m[i].at /\ n[i].job = m[i].job
                              /\ n[i] = IF m[i].job = j THEN [m[i] EXCEPT !.status = s] ELSE m[i]
  BY UpdatedFacts
<1>3. /\ t \in Seq(Row) /\ Len(t) = Len(m)
      /\ \A i \in 1..Len(m) : t[i] = IF Asc(m)[i].job = j THEN [Asc(m)[i] EXCEPT !.status = s] ELSE Asc(m)[i]
  BY <1>1, UpdatedFacts
<1> HIDE DEF n, t
<1>4. \A p, i \in 1..Len(m) : Asc(m)[p] = m[i] => t[p] = n[i]
  <2> SUFFICES ASSUME NEW p \in 1..Len(m), NEW i \in 1..Len(m), Asc(m)[p] = m[i] PROVE t[p] = n[i]
    OBVIOUS
  <2>1. t[p] = IF m[i].job = j THEN [m[i] EXCEPT !.status = s] ELSE m[i]  BY <1>3
  <2>2. n[i] = IF m[i].job = j THEN [m[i] EXCEPT !.status = s] ELSE m[i]  BY <1>2
  <2> QED  BY <2>1, <2>2, Zenon
<1>a. n \in Seq(Row) /\ Len(n) = Len(m) /\ t \in Seq(Row) /\ Len(t) = Len(m)  BY <1>2, <1>3
<1>b. \A i \in 1..Len(m) : n[i].at = m[i].at /\ n[i].job = m[i].job  BY <1>2
<1>5. Distinct(n) /\ Asc(n) = t  BY <1>a, <1>b, <1>4, AscFollows
<1> QED  BY <1>5 DEF n, t

LEMMA UpdateIs ==
    ASSUME NEW k \in Seq(Row), Distinct(k), NEW j \in Jobs, NEW s \in Active \cup Terminal
    PROVE  /\ Names(Updated(k, j, s)) = Names(k)
           /\ RowsOf(Updated(k, j, s)) = Update(RowsOf(k), j, s)
<1> DEFINE n == Updated(k, j, s)
<1>a. n \in Seq(Row) /\ DOMAIN n = 1..Len(k) /\ DOMAIN k = 1..Len(k)  BY UpdatedFacts
<1>d. \A i \in 1..Len(k) : n[i] = IF k[i].job = j THEN [k[i] EXCEPT !.status = s] ELSE k[i]
  BY <1>a DEF Updated
<1>e. \A i \in 1..Len(k) : k[i] \in Row  BY <1>a, Positions
<1>b. \A i \in 1..Len(k) : n[i].job = k[i].job /\ n[i].at = k[i].at  BY <1>d, <1>e DEF Row
<1>c. \A i \in 1..Len(k) : n[i].status = IF k[i].job = j THEN s ELSE k[i].status  BY <1>d, <1>e DEF Row
<1>1. /\ n \in Seq(Row) /\ DOMAIN n = 1..Len(k) /\ DOMAIN k = 1..Len(k)
      /\ \A i \in 1..Len(k) : n[i].job = k[i].job /\ n[i].at = k[i].at
                              /\ n[i].status = IF k[i].job = j THEN s ELSE k[i].status
  BY <1>a, <1>b, <1>c, Zenon
<1> HIDE DEF n
<1>2. Distinct(n)  BY AscUpdated DEF n
<1>3. Names(n) = Names(k)  BY <1>1 DEF Names
<1>4. RowsOf(k) = [x \in Jobs |-> RowsOf(k)[x]] /\ RowsOf(n) = [x \in Jobs |-> RowsOf(n)[x]]
  BY <1>1, <1>2, RowsAre
<1>5. Update(RowsOf(k), j, s) =
        [x \in Jobs |-> IF x = j /\ RowsOf(k)[j] # "absent" THEN s ELSE RowsOf(k)[x]]
  BY <1>4 DEF Update
<1>6. ASSUME NEW x \in Jobs
      PROVE  RowsOf(n)[x] = IF x = j /\ RowsOf(k)[j] # "absent" THEN s ELSE RowsOf(k)[x]
  <2>1. CASE \E i \in DOMAIN k : k[i].job = x
    <3>1. PICK i \in DOMAIN k : k[i].job = x  BY <2>1
    <3>2. RowsOf(k)[x] = k[i].status /\ k[i].status # "absent"  BY <3>1, RowsAre
    <3>3. RowsOf(n)[n[i].job] = n[i].status  BY <1>1, <1>2, RowsAre
    <3> QED  BY <1>1, <3>1, <3>2, <3>3
  <2>2. CASE \A i \in DOMAIN k : k[i].job # x
    <3>1. RowsOf(k)[x] = "absent"  BY <2>2, RowsAre
    <3>2. \A i \in DOMAIN n : n[i].job # x  BY <1>1, <2>2
    <3>3. RowsOf(n)[x] = "absent"  BY <1>1, <1>2, <3>2, RowsAre
    <3> QED  BY <3>1, <3>3
  <2> QED  BY <2>1, <2>2
<1>7. RowsOf(n) = Update(RowsOf(k), j, s)  BY <1>4, <1>5, <1>6
<1> QED  BY <1>3, <1>7 DEF n

LEMMA ReconciledFacts ==
    ASSUME NEW m \in Seq(Row)
    PROVE  /\ Reconciled(m) \in Seq(Row) /\ Len(Reconciled(m)) = Len(m)
           /\ DOMAIN m = 1..Len(m) /\ DOMAIN Reconciled(m) = 1..Len(m)
           /\ \A i \in 1..Len(m) : /\ Reconciled(m)[i].at = m[i].at
                                   /\ Reconciled(m)[i].job = m[i].job
                                   /\ Reconciled(m)[i].status =
                                        IF m[i].status \in Active THEN "failed" ELSE m[i].status
                                   /\ Reconciled(m)[i] =
                                        IF m[i].status \in Active THEN [m[i] EXCEPT !.status = "failed"] ELSE m[i]
<1>1. DOMAIN m = 1..Len(m) /\ \A i \in DOMAIN m : m[i] \in Row  BY Positions
<1>2. Reconciled(m) \in Seq(Row) /\ Len(Reconciled(m)) = Len(m)  BY ReconciledType
<1>3. /\ DOMAIN Reconciled(m) = DOMAIN m
      /\ \A i \in DOMAIN m : Reconciled(m)[i] =
            IF m[i].status \in Active THEN [m[i] EXCEPT !.status = "failed"] ELSE m[i]
  BY DEF Reconciled
<1>4. \A i \in DOMAIN m : /\ Reconciled(m)[i].at = m[i].at /\ Reconciled(m)[i].job = m[i].job
                          /\ Reconciled(m)[i].status = IF m[i].status \in Active THEN "failed" ELSE m[i].status
  BY <1>1, <1>3 DEF Row
<1> QED  BY <1>1, <1>2, <1>3, <1>4

LEMMA AscReconciled ==
    ASSUME NEW m \in Seq(Row), Distinct(m)
    PROVE  Distinct(Reconciled(m)) /\ Asc(Reconciled(m)) = Reconciled(Asc(m))
<1> DEFINE n == Reconciled(m)
           t == Reconciled(Asc(m))
<1>1. Asc(m) \in Seq(Row) /\ Len(Asc(m)) = Len(m)  BY AscFacts
<1>2. /\ n \in Seq(Row) /\ Len(n) = Len(m)
      /\ \A i \in 1..Len(m) : /\ n[i].at = m[i].at /\ n[i].job = m[i].job
                              /\ n[i] = IF m[i].status \in Active THEN [m[i] EXCEPT !.status = "failed"] ELSE m[i]
  BY ReconciledFacts
<1>3. /\ t \in Seq(Row) /\ Len(t) = Len(m)
      /\ \A i \in 1..Len(m) : t[i] = IF Asc(m)[i].status \in Active
                                      THEN [Asc(m)[i] EXCEPT !.status = "failed"] ELSE Asc(m)[i]
  BY <1>1, ReconciledFacts
<1> HIDE DEF n, t
<1>4. \A p, i \in 1..Len(m) : Asc(m)[p] = m[i] => t[p] = n[i]  BY <1>2, <1>3
<1>5. Distinct(n) /\ Asc(n) = t  BY <1>2, <1>3, <1>4, AscFollows
<1> QED  BY <1>5 DEF n, t

LEMMA ReconcileIs ==
    ASSUME NEW k \in Seq(Row), Distinct(k)
    PROVE  /\ Names(Reconciled(k)) = Names(k)
           /\ RowsOf(Reconciled(k)) = Reconcile(RowsOf(k), Names(k))
<1> DEFINE n == Reconciled(k)
<1>1. /\ n \in Seq(Row) /\ DOMAIN n = 1..Len(k) /\ DOMAIN k = 1..Len(k)
      /\ \A i \in 1..Len(k) : n[i].job = k[i].job /\ n[i].at = k[i].at
                              /\ n[i].status = IF k[i].status \in Active THEN "failed" ELSE k[i].status
  BY ReconciledFacts
<1> HIDE DEF n
<1>2. Distinct(n)  BY AscReconciled DEF n
<1>3. Names(n) = Names(k)  BY <1>1 DEF Names
<1>4. RowsOf(n) = [x \in Jobs |-> RowsOf(n)[x]]  BY <1>1, <1>2, RowsAre
<1>5. Reconcile(RowsOf(k), Names(k)) =
        [x \in Jobs |-> IF RowsOf(k)[x] \in Active THEN "failed" ELSE RowsOf(k)[x]]
  BY JsonlAssumption DEF Reconcile
<1>6. ASSUME NEW x \in Jobs
      PROVE  RowsOf(n)[x] = IF RowsOf(k)[x] \in Active THEN "failed" ELSE RowsOf(k)[x]
  <2>1. CASE \E i \in DOMAIN k : k[i].job = x
    <3>1. PICK i \in DOMAIN k : k[i].job = x  BY <2>1
    <3>2. RowsOf(k)[x] = k[i].status  BY <3>1, RowsAre
    <3>3. RowsOf(n)[n[i].job] = n[i].status  BY <1>1, <1>2, RowsAre
    <3> QED  BY <1>1, <3>1, <3>2, <3>3
  <2>2. CASE \A i \in DOMAIN k : k[i].job # x
    <3>1. RowsOf(k)[x] = "absent"  BY <2>2, RowsAre
    <3>2. \A i \in DOMAIN n : n[i].job # x  BY <1>1, <2>2
    <3>3. RowsOf(n)[x] = "absent"  BY <1>1, <1>2, <3>2, RowsAre
    <3> QED  BY <3>1, <3>3 DEF Active
  <2> QED  BY <2>1, <2>2
<1>7. RowsOf(n) = Reconcile(RowsOf(k), Names(k))  BY <1>4, <1>5, <1>6
<1> QED  BY <1>3, <1>7 DEF n

-----------------------------------------------------------------------------
(* The steps *)

LEMMA KeptFacts ==
    ASSUME StoreInv, FileGood
    PROVE  /\ disk.lines \in Seq(Row) /\ Asc(disk.lines) \in Seq(Row)
           /\ Kept \in Seq(Row) /\ Distinct(Kept) /\ Len(Kept) <= MaxJobs
           /\ \A q \in DOMAIN Kept : Kept[q].job \notin fresh /\ Kept[q].at < now
<1>1. disk.lines \in Seq(Row) /\ Distinct(disk.lines)  BY DEF StoreInv, TypeOK, FileGood
<1>2. Asc(disk.lines) \in Seq(Row) /\ Distinct(Asc(disk.lines))  BY <1>1, AscFacts, AscDistinct
<1>3. Kept \in Seq(Row) /\ Len(Kept) <= MaxJobs  BY <1>2, NewestFacts DEF Kept
<1>4. Distinct(Kept)  BY <1>2, NewestDistinct DEF Kept
<1>5. ASSUME NEW q \in DOMAIN Kept PROVE Kept[q].job \notin fresh /\ Kept[q].at < now
  <2>1. PICK p \in DOMAIN Asc(disk.lines) : Kept[q] = Asc(disk.lines)[p]  BY <1>2, NewestRows DEF Kept
  <2>2. PICK i \in DOMAIN disk.lines : Asc(disk.lines)[p] = disk.lines[i]  BY <1>1, AscLists DEF Lists
  <2> QED  BY <2>1, <2>2 DEF FileGood
<1> QED  BY <1>1, <1>2, <1>3, <1>4, <1>5

\* A row added now is new and the latest.
LEMMA PendingLast ==
    ASSUME StoreInv, FileGood, NEW j \in fresh, NEW t \in Seq(Row), Distinct(t),
           \A q \in DOMAIN t : t[q].job \notin fresh /\ t[q].at < now
    PROVE  /\ j \in Jobs /\ Pending(j) \in Row /\ Pending(j).status = "pending"
           /\ Pending(j).job = j /\ Pending(j).at = now
           /\ \A q \in DOMAIN t : t[q].job # j
           /\ Distinct(Append(t, Pending(j))) /\ Asc(Append(t, Pending(j))) = Append(Asc(t), Pending(j))
<1>1. j \in Jobs  BY DEF StoreInv, TypeOK
<1>2. Pending(j) \in Row  BY <1>1, PendingRow DEF StoreInv
<1>3. Pending(j).status = "pending" /\ Pending(j).job = j /\ Pending(j).at = now  BY DEF Pending
<1>4. \A q \in DOMAIN t : t[q].at < Pending(j).at /\ t[q].job # Pending(j).job  BY <1>3
<1> QED  BY <1>1, <1>2, <1>3, <1>4, AscAppend

\* A file that takes a line.
LEMMA AppendFile ==
    ASSUME StoreInv, FileGood, NEW j \in fresh, disk' = Appended(disk, Pending(j)),
           now' = now + 1, fresh' = fresh \ {j}, UNCHANGED <<diskOk, outages>>
    PROVE  FileGood' /\ Kept' = Newest(Append(Kept, Pending(j)))
<1> DEFINE l == disk.lines
           r == Pending(j)
<1>1. l \in Seq(Row) /\ Distinct(l) /\ Asc(l) \in Seq(Row) /\ now \in Nat  BY KeptFacts DEF StoreInv, TypeOK, FileGood
<1>2. \A q \in DOMAIN l : l[q].job \notin fresh /\ l[q].at < now  BY DEF FileGood
<1>3. r \in Row /\ r.job = j /\ r.at = now /\ Distinct(Append(l, r)) /\ Asc(Append(l, r)) = Append(Asc(l), r)
  BY <1>1, <1>2, PendingLast
<1>4. ~disk.torn /\ disk \in [lines : Seq(Row), torn : BOOLEAN]  BY DEF FileGood, StoreInv, TypeOK
<1>5. disk' = [disk EXCEPT !.lines = Append(l, r)]  BY <1>4 DEF Appended
<1>6. disk'.lines = Append(l, r) /\ disk'.torn = disk.torn  BY <1>4, <1>5
<1>7. Kept' = Newest(Append(Kept, r))
  <2>1. Kept' = Newest(Asc(disk'.lines))  BY DEF Kept
  <2>2. Newest(Append(Newest(Asc(l)), r)) = Newest(Append(Asc(l), r))  BY <1>1, <1>3, NewestAppend
  <2> QED  BY <1>3, <1>6, <2>1, <2>2 DEF Kept
<1>8. ASSUME NEW i \in DOMAIN disk'.lines PROVE disk'.lines[i].job \notin fresh' /\ disk'.lines[i].at < now'
  <2>1. i \in 1..(Len(l) + 1) /\ Len(l) \in Nat /\ DOMAIN l = 1..Len(l)  BY <1>1, <1>3, <1>6
  <2>2. CASE i = Len(l) + 1
    <3>1. disk'.lines[i] = r  BY <1>1, <1>3, <1>6, <2>2
    <3> QED  BY <1>1, <1>3, <3>1
  <2>3. CASE i \in DOMAIN l
    <3>1. disk'.lines[i] = l[i] /\ l[i].at \in Nat  BY <1>1, <1>3, <1>6, <2>3, Positions
    <3> QED  BY <1>1, <1>2, <2>3, <3>1
  <2> QED  BY <2>1, <2>2, <2>3
<1>9. ~disk'.torn /\ diskOk' /\ outages' = 0  BY <1>4, <1>6 DEF FileGood
<1>10. Distinct(disk'.lines)  BY <1>3, <1>6
<1> QED  BY <1>7, <1>8, <1>9, <1>10 DEF FileGood

\* A file replaced by rows that are listed as t.
LEMMA ReplaceFile ==
    ASSUME FileGood, NEW m \in Seq(Row), Distinct(m), Len(m) <= MaxJobs, Replace(m),
           \A q \in DOMAIN Asc(m) : Asc(m)[q].job \notin fresh' /\ Asc(m)[q].at < now',
           UNCHANGED <<diskOk, outages>>
    PROVE  FileGood' /\ Kept' = Asc(m)
<1>1. disk'.lines = m /\ disk'.torn = FALSE  BY DEF Replace
<1>2. Asc(m) \in Seq(Row) /\ Len(Asc(m)) <= MaxJobs  BY AscFacts
<1>3. Kept' = Asc(m)
  <2>1. Kept' = Newest(Asc(disk'.lines))  BY DEF Kept
  <2>2. Newest(Asc(m)) = Asc(m)  BY <1>2, NewestFacts
  <2> QED  BY <1>1, <2>1, <2>2
<1>4. ASSUME NEW i \in DOMAIN m PROVE m[i].job \notin fresh' /\ m[i].at < now'
  <2>1. PICK p \in DOMAIN Asc(m) : Asc(m)[p] = m[i]  BY AscLists DEF Lists
  <2> QED  BY <2>1
<1>5. ~disk'.torn /\ diskOk' /\ outages' = 0  BY <1>1 DEF FileGood
<1> QED  BY <1>1, <1>3, <1>4, <1>5 DEF FileGood

Added(j) == j \in Jobs /\ (\A q \in DOMAIN Kept : Kept[q].job # j)
            /\ Kept' = Newest(Append(Kept, Pending(j)))

LEMMA AddMirror ==
    ASSUME Reliable, StoreInv, StoreInv', MirrorInv, NEW j \in Jobs, AddJob(j)
    PROVE  MirrorInv' /\ Added(j)
<1> DEFINE r == Pending(j)
           S == Append(mem, r)
           K == Newest(Append(Kept, r))
<1>1. /\ up /\ j \in fresh /\ fresh' = fresh \ {j} /\ mem' = Evict(S)
      /\ UNCHANGED <<up, boots, diskOk, outages>>
  BY DEF AddJob, Use
<1>2. now' = now + 1 /\ now \in Nat  BY DEF AddJob, Clock, Reliable, StoreInv, TypeOK
<1>3. FileGood /\ Distinct(mem) /\ Asc(mem) = Kept  BY <1>1 DEF MirrorInv
<1>4. mem \in Seq(Row) /\ Len(mem) <= MaxJobs /\ Len(mem) \in Nat /\ MaxJobs \in Nat
  BY StoreAssumption DEF StoreInv, TypeOK
<1>5. /\ Kept \in Seq(Row) /\ Distinct(Kept)
      /\ \A q \in DOMAIN Kept : Kept[q].job \notin fresh /\ Kept[q].at < now
  BY <1>3, KeptFacts
<1>6. \A i \in DOMAIN mem : mem[i].job \notin fresh /\ mem[i].at < now
  <2> SUFFICES ASSUME NEW i \in DOMAIN mem PROVE mem[i].job \notin fresh /\ mem[i].at < now  OBVIOUS
  <2>1. PICK p \in DOMAIN Kept : Kept[p] = mem[i]  BY <1>3, <1>4, AscLists DEF Lists
  <2> QED  BY <1>5, <2>1
<1>7. r \in Row /\ r.job = j /\ r.at = now /\ Distinct(S) /\ Asc(S) = Append(Kept, r)
  BY <1>1, <1>3, <1>4, <1>6, PendingLast
<1>8. \A q \in DOMAIN Kept : Kept[q].job # j  BY <1>1, <1>5
<1>9. S \in Seq(Row) /\ Len(S) = Len(mem) + 1  BY <1>4, <1>7
<1>10. Len(S) <= MaxJobs + 1  BY <1>4, <1>9
<1> HIDE DEF S, r
<1>11. Distinct(mem') /\ Asc(mem') = K  BY <1>1, <1>7, <1>9, <1>10, AscEvict
<1>12. CASE AppendRow(r)
  <2>1. disk' = Appended(disk, r)  BY <1>3, <1>12 DEF AppendRow, FileGood
  <2>2. FileGood' /\ Kept' = K  BY <1>1, <1>2, <1>3, <2>1, AppendFile DEF r
  <2> QED  BY <1>8, <1>11, <2>2 DEF MirrorInv, Added, r
<1>13. CASE Replace(mem')
  <2>1. \A q \in DOMAIN Asc(mem') : Asc(mem')[q].job \notin fresh' /\ Asc(mem')[q].at < now'
    <3> SUFFICES ASSUME NEW q \in DOMAIN K PROVE K[q].job \notin fresh' /\ K[q].at < now'  BY <1>11
    <3> DEFINE A == Append(Kept, r)
    <3>1. A \in Seq(Row) /\ DOMAIN A = 1..(Len(Kept) + 1) /\ A[Len(Kept) + 1] = r
          /\ (\A i \in DOMAIN Kept : A[i] = Kept[i]) /\ DOMAIN Kept = 1..Len(Kept) /\ Len(Kept) \in Nat
      BY <1>5, <1>7
    <3> HIDE DEF A
    <3>2. PICK p \in DOMAIN A : K[q] = A[p]  BY <3>1, NewestRows DEF A
    <3>3. CASE p = Len(Kept) + 1
      <4>1. K[q] = r  BY <3>1, <3>2, <3>3
      <4> QED  BY <1>1, <1>2, <1>7, <4>1
    <3>4. CASE p \in DOMAIN Kept
      <4>1. K[q] = Kept[p] /\ Kept[p].at \in Nat  BY <1>5, <3>1, <3>2, <3>4, Positions
      <4> QED  BY <1>1, <1>2, <1>5, <3>4, <4>1
    <3> QED  BY <3>1, <3>2, <3>3, <3>4
  <2>2. mem' \in Seq(Row) /\ Len(mem') <= MaxJobs  BY DEF StoreInv, TypeOK
  <2>3. FileGood' /\ Kept' = Asc(mem')  BY <1>1, <1>3, <1>11, <1>13, <2>1, <2>2, ReplaceFile
  <2> QED  BY <1>8, <1>11, <2>3 DEF MirrorInv, Added, r
<1> QED  BY <1>12, <1>13 DEF AddJob, r

LEMMA UpdateMirror ==
    ASSUME StoreInv, StoreInv', MirrorInv, NEW j \in Jobs, NEW s \in Active \cup Terminal, UpdateJob(j, s)
    PROVE  MirrorInv' /\ Kept' = Updated(Kept, j, s)
<1>1. up /\ UNCHANGED <<up, fresh, now, diskOk, outages>> /\ mem' = Updated(mem, j, s) /\ Rewrite(mem')
  BY DEF UpdateJob, Updated
<1>2. FileGood /\ Distinct(mem) /\ Asc(mem) = Kept  BY <1>1 DEF MirrorInv
<1>3. mem \in Seq(Row) /\ mem' \in Seq(Row) /\ Len(mem') <= MaxJobs  BY DEF StoreInv, TypeOK
<1>4. Distinct(mem') /\ Asc(mem') = Updated(Kept, j, s)  BY <1>1, <1>2, <1>3, AscUpdated
<1>5. Kept \in Seq(Row) /\ \A q \in DOMAIN Kept : Kept[q].job \notin fresh /\ Kept[q].at < now
  BY <1>2, KeptFacts
<1>6. Replace(mem')  BY <1>1, <1>2 DEF Rewrite, FileGood
<1>7. \A q \in DOMAIN Asc(mem') : Asc(mem')[q].job \notin fresh' /\ Asc(mem')[q].at < now'
  <2>1. DOMAIN Updated(Kept, j, s) = 1..Len(Kept) /\ DOMAIN Kept = 1..Len(Kept)  BY <1>5, UpdatedFacts
  <2>2. \A q \in DOMAIN Kept : Kept[q] \in Row  BY <1>5, Positions
  <2>3. \A q \in DOMAIN Kept : Updated(Kept, j, s)[q] =
            IF Kept[q].job = j THEN [Kept[q] EXCEPT !.status = s] ELSE Kept[q]
    BY DEF Updated
  <2>4. \A q \in DOMAIN Kept : /\ Updated(Kept, j, s)[q].job = Kept[q].job
                               /\ Updated(Kept, j, s)[q].at = Kept[q].at
    BY <2>2, <2>3 DEF Row
  <2> QED  BY <1>1, <1>4, <1>5, <2>1, <2>4
<1>8. FileGood' /\ Kept' = Asc(mem')  BY <1>1, <1>2, <1>3, <1>4, <1>6, <1>7, ReplaceFile
<1> QED  BY <1>4, <1>8 DEF MirrorInv

LEMMA BootMirror ==
    ASSUME StoreInv, StoreInv', MirrorInv, Boot
    PROVE  MirrorInv' /\ (Kept' = Reconciled(Kept) \/ Kept' = Kept)
<1> DEFINE L == Loaded(disk.lines)
<1>1. UNCHANGED <<fresh, now, diskOk, outages>> /\ mem' = Reconciled(L)  BY DEF Boot
<1>2. FileGood  BY DEF MirrorInv
<1>3. disk.lines \in Seq(Row) /\ mem' \in Seq(Row) /\ Len(mem') <= MaxJobs /\ Distinct(disk.lines)
  BY <1>2 DEF StoreInv, TypeOK, FileGood
<1>4. L \in Seq(Row)  BY <1>3, LoadedType
<1>5. Distinct(L) /\ Asc(L) = Kept  BY <1>3, AscLoaded DEF Kept
<1>6. Distinct(mem') /\ Asc(mem') = Reconciled(Kept)  BY <1>1, <1>4, <1>5, AscReconciled
<1>7. Kept \in Seq(Row) /\ \A q \in DOMAIN Kept : Kept[q].job \notin fresh /\ Kept[q].at < now
  BY <1>2, KeptFacts
<1>8. CASE Replace(mem')
  <2>1. \A q \in DOMAIN Asc(mem') : Asc(mem')[q].job \notin fresh' /\ Asc(mem')[q].at < now'
    <3>1. /\ DOMAIN Reconciled(Kept) = 1..Len(Kept) /\ DOMAIN Kept = 1..Len(Kept)
          /\ \A q \in 1..Len(Kept) : /\ Reconciled(Kept)[q].job = Kept[q].job
                                     /\ Reconciled(Kept)[q].at = Kept[q].at
      BY <1>7, ReconciledFacts
    <3> QED  BY <1>1, <1>6, <1>7, <3>1
  <2>2. FileGood' /\ Kept' = Asc(mem')  BY <1>1, <1>2, <1>3, <1>6, <1>8, <2>1, ReplaceFile
  <2> QED  BY <1>6, <2>2 DEF MirrorInv
<1>9. CASE mem' = L /\ UNCHANGED disk
  <2>1. FileGood'  BY <1>1, <1>2, <1>9 DEF FileGood
  <2>2. Kept' = Kept  BY <1>9 DEF Kept
  <2> QED  BY <1>5, <1>9, <2>1, <2>2 DEF MirrorInv
<1> QED  BY <1>2, <1>8, <1>9 DEF Boot, FileGood

LEMMA CrashMirror ==
    ASSUME Reliable, StoreInv, MirrorInv, NEW j \in Jobs, Crash \/ CrashInAdd(j)
    PROVE  MirrorInv' /\ (Kept' = Kept \/ Added(j))
<1>1. up' = FALSE /\ mem' = << >> /\ UNCHANGED <<diskOk, outages>>  BY DEF Crash, CrashInAdd, Down
<1>2. Distinct(mem') /\ ~up'  BY <1>1 DEF Distinct
<1>3. FileGood  BY DEF MirrorInv
<1>4. disk \in [lines : Seq(Row), torn : BOOLEAN] /\ ~disk.torn /\ now \in Nat
  BY <1>3 DEF StoreInv, TypeOK, FileGood
<1>5. CASE Crash
  <2>1. UNCHANGED <<disk, fresh, now>>  BY <1>5 DEF Crash
  <2>2. FileGood' /\ Kept' = Kept  BY <1>1, <1>3, <2>1 DEF FileGood, Kept
  <2> QED  BY <1>2, <2>2 DEF MirrorInv
<1>6. CASE CrashInAdd(j)
  <2>1. j \in fresh /\ fresh' = fresh \ {j} /\ now' = now + 1
    BY <1>6 DEF CrashInAdd, Use, Clock, Reliable
  <2>2. CASE disk' = Cut(disk)
    <3>1. (disk.torn \/ Tears) = disk.torn  BY <1>4 DEF Reliable
    <3>2. disk' = [disk EXCEPT !.torn = disk.torn]  BY <2>2, <3>1 DEF Cut
    <3>3. disk' = disk  BY <1>4, <3>2
    <3>4. \A i \in DOMAIN disk.lines : disk.lines[i].at \in Nat  BY <1>4, Positions
    <3>5. \A i \in DOMAIN disk'.lines : disk'.lines[i].job \notin fresh' /\ disk'.lines[i].at < now'
      BY <1>3, <1>4, <2>1, <3>3, <3>4 DEF FileGood
    <3>6. FileGood' /\ Kept' = Kept  BY <1>1, <1>3, <3>3, <3>5 DEF FileGood, Kept
    <3> QED  BY <1>2, <3>6 DEF MirrorInv
  <2>3. CASE disk' = Appended(disk, Pending(j))
    <3>1. FileGood' /\ Kept' = Newest(Append(Kept, Pending(j)))  BY <1>1, <1>3, <2>1, <2>3, AppendFile
    <3>2. \A q \in DOMAIN Kept : Kept[q].job # j  BY <1>3, <2>1, KeptFacts
    <3> QED  BY <1>2, <3>1, <3>2 DEF MirrorInv, Added
  <2> QED  BY <1>6, <2>2, <2>3 DEF CrashInAdd
<1> QED  BY <1>5, <1>6

\* Steps of the store in terms of what a load would find.
KeptStep ==
    \/ Kept' = Kept
    \/ Kept' = Reconciled(Kept)
    \/ \E j \in Jobs : \/ Added(j)
                       \/ \E s \in Active \cup Terminal : Kept' = Updated(Kept, j, s)

LEMMA StepMirror ==
    ASSUME Reliable, StoreInv, StoreInv', MirrorInv, [Next]_vars
    PROVE  MirrorInv' /\ KeptStep
<1>1. ASSUME NEW j \in Jobs, AddJob(j) PROVE MirrorInv' /\ KeptStep  BY <1>1, AddMirror DEF KeptStep
<1>2. ASSUME NEW j \in Jobs, CrashInAdd(j) PROVE MirrorInv' /\ KeptStep  BY <1>2, CrashMirror DEF KeptStep
<1>3. ASSUME NEW j \in Jobs, NEW s \in Active \cup Terminal, UpdateJob(j, s) PROVE MirrorInv' /\ KeptStep
  BY <1>3, UpdateMirror DEF KeptStep
<1>4. CASE Boot  BY <1>4, BootMirror DEF KeptStep
<1>5. CASE BootEmpty  BY <1>5 DEF BootEmpty, MirrorInv, FileGood
<1>6. CASE Crash
  <2>1. UNCHANGED <<disk, fresh, now, diskOk, outages>> /\ mem' = << >> /\ up' = FALSE
    BY <1>6 DEF Crash, Down
  <2>2. Distinct(mem') /\ ~up'  BY <2>1 DEF Distinct
  <2>3. FileGood' /\ Kept' = Kept  BY <2>1 DEF MirrorInv, FileGood, Kept
  <2> QED  BY <2>2, <2>3 DEF MirrorInv, KeptStep
<1>7. CASE DiskFails
  <2>1. outages < 0 /\ outages = 0  BY <1>7 DEF DiskFails, Reliable, MirrorInv, FileGood
  <2> QED  BY <2>1
<1>8. CASE DiskBack  BY <1>8 DEF DiskBack, MirrorInv, FileGood
<1>9. CASE UNCHANGED vars
  <2>1. FileGood' /\ Kept' = Kept /\ UNCHANGED <<up, mem>>  BY <1>9 DEF vars, MirrorInv, FileGood, Kept
  <2> QED  BY <2>1 DEF MirrorInv, KeptStep
<1> QED  BY <1>1, <1>2, <1>3, <1>4, <1>5, <1>6, <1>7, <1>8, <1>9 DEF Next

LEMMA InitMirror == Init => MirrorInv
<1> SUFFICES ASSUME Init PROVE MirrorInv  OBVIOUS
<1>1. DOMAIN disk.lines = {} /\ DOMAIN mem = {} /\ ~up /\ ~disk.torn /\ diskOk /\ outages = 0  BY DEF Init
<1> QED  BY <1>1 DEF MirrorInv, FileGood, Distinct

LEMMA Mirrored == Reliable => (Spec => []MirrorInv)
<1> SUFFICES ASSUME Reliable PROVE Spec => []MirrorInv  OBVIOUS
<1>1. StoreInv /\ StoreInv' /\ MirrorInv /\ [Next]_vars => MirrorInv'  BY StepMirror
<1> QED  BY <1>1, InitMirror, Inductive, PTL DEF Spec

\* The view is what a load would find.
ViewInv == RowsOf(View) = RowsOf(Kept) /\ OrderOf(View) = Names(Kept)

LEMMA ViewIs == StoreInv /\ MirrorInv => ViewInv
<1> SUFFICES ASSUME StoreInv, MirrorInv PROVE ViewInv  OBVIOUS
<1>1. View \in Seq(Row) /\ Distinct(View) /\ Asc(View) = Kept
  <2>1. mem \in Seq(Row) /\ disk.lines \in Seq(Row) /\ Distinct(mem) /\ Distinct(disk.lines)
    BY DEF StoreInv, TypeOK, MirrorInv, FileGood
  <2>2. CASE up  BY <2>1, <2>2 DEF View, MirrorInv
  <2>3. CASE ~up  BY <2>1, <2>3, LoadedType, AscLoaded DEF View, Kept
  <2> QED  BY <2>2, <2>3
<1> QED  BY <1>1, OrderIs, RowsSame DEF ViewInv

LEMMA StepImplements ==
    ASSUME Reliable, StoreInv, StoreInv', MirrorInv, MirrorInv', ViewInv, ViewInv', [Next]_vars
    PROVE  [Durable!Next]_<<RowsOf(View), OrderOf(View)>>
<1>1. KeptStep  BY StepMirror
<1>2. RowsOf(View) = RowsOf(Kept) /\ OrderOf(View) = Names(Kept)  BY DEF ViewInv
<1>3. RowsOf(View)' = RowsOf(Kept') /\ OrderOf(View)' = Names(Kept')
  <2>1. ViewInv' = (RowsOf(View)' = RowsOf(Kept)' /\ OrderOf(View)' = Names(Kept)')  BY DEF ViewInv
  <2>2. RowsOf(Kept)' = RowsOf(Kept') /\ Names(Kept)' = Names(Kept')  BY DEF RowsOf, Names, JobsOf
  <2> QED  BY <2>1, <2>2
<1>4. Kept \in Seq(Row) /\ Distinct(Kept)  BY KeptFacts DEF MirrorInv
<1>5. CASE Kept' = Kept  BY <1>2, <1>3, <1>5
<1>6. CASE Kept' = Reconciled(Kept)
  <2>1. RowsOf(Kept') = Reconcile(RowsOf(Kept), Names(Kept)) /\ Names(Kept') = Names(Kept)
    BY <1>4, <1>6, ReconcileIs
  <2>2. Durable!ReconcileJobs
    BY <1>2, <1>3, <2>1 DEF Durable!ReconcileJobs, Durable!Reconcile, Reconcile, Durable!Active, Active,
                            Durable!Members, Members
  <2> QED  BY <2>2 DEF Durable!Next
<1>7. ASSUME NEW j \in Jobs, Added(j) PROVE Durable!AddJob(j)
  <2> DEFINE r == Pending(j)
  <2>1. /\ (\A q \in DOMAIN Kept : Kept[q].job # j) /\ Kept' = Newest(Append(Kept, r))
    BY <1>7 DEF Added
  <2>2. r \in Row /\ r.status = "pending" /\ r.job = j  BY PendingRow DEF StoreInv, Pending
  <2>3. Distinct(Append(Kept, r))
    <3>1. now \in Nat /\ \A q \in DOMAIN Kept : Kept[q].at < now
      BY KeptFacts DEF MirrorInv, StoreInv, TypeOK
    <3>2. r.at = now  BY DEF Pending
    <3> HIDE DEF r
    <3> QED  BY <1>4, <2>1, <2>2, <3>1, <3>2, AscAppend
  <2> HIDE DEF r
  <2>4. /\ Names(Kept') = Add(RowsOf(Kept), Names(Kept), j).order
        /\ RowsOf(Kept') = Add(RowsOf(Kept), Names(Kept), j).rows
    BY <1>4, <2>1, <2>2, <2>3, AddIs
  <2>5. j \notin Members(Names(Kept))  BY <2>1 DEF Members, Names
  <2> QED  BY <1>2, <1>3, <2>4, <2>5 DEF Durable!AddJob, Durable!Add, Add, Durable!Members, Members,
                                       Durable!Newest, Newest
<1>8. ASSUME NEW j \in Jobs, NEW s \in Active \cup Terminal, Kept' = Updated(Kept, j, s)
      PROVE  Durable!UpdateJob(j)
  <2>1. RowsOf(Kept') = Update(RowsOf(Kept), j, s) /\ Names(Kept') = Names(Kept)  BY <1>4, <1>8, UpdateIs
  <2> QED  BY <1>2, <1>3, <2>1 DEF Durable!UpdateJob, Durable!Update, Update, Durable!Active, Active,
                                   Durable!Terminal, Terminal
<1> QED  BY <1>1, <1>5, <1>6, <1>7, <1>8 DEF KeptStep, Durable!Next

LEMMA InitImplements == Init => Durable!Init
<1> SUFFICES ASSUME Init PROVE Durable!Init  OBVIOUS
<1>1. ~up /\ disk.lines = << >>  BY DEF Init
<1>2. Loaded(<< >>) = << >>
  <2>1. << >> \in Seq(Row) /\ Len(<< >>) = 0  OBVIOUS
  <2>2. Loaded(<< >>) \in Seq(Row) /\ Len(Loaded(<< >>)) <= 0  BY <2>1, LoadedType
  <2> QED  BY <2>2
<1>3. View = << >>  BY <1>1, <1>2 DEF View
<1>4. RowsOf(<< >>) = [j \in Jobs |-> "absent"]  BY DEF RowsOf, JobsOf
<1>5. OrderOf(<< >>) = << >>
  <2>1. DOMAIN NewestFirst(<< >>) = {}  BY DEF NewestFirst
  <2> QED  BY <2>1 DEF OrderOf
<1> QED  BY <1>3, <1>4, <1>5 DEF Durable!Init

-----------------------------------------------------------------------------
(* The theorems *)

\* The store is type correct and its memory within max_jobs, whatever the disk
\* does and wherever the process dies (add, _evict_oldest_locked, _load_from_disk).
THEOREM TypeCorrect == Spec => []TypeOK
<1>1. StoreInv => TypeOK  BY DEF StoreInv
<1> QED  BY <1>1, Inductive, PTL

\* Whatever outages, cut lines and crashes did to the file before: once the store
\* has replaced it, and lost no write since, a reload would find what the memory
\* holds, up to jobs of one second that take one another's place at the cap.
THEOREM RewriteHeals == Spec => []Heals
<1>1. Spec => []HealInv  BY InitHeals, StepHeals, Inductive, PTL DEF Spec
<1> QED  BY <1>1, HealsFrom, Inductive, PTL

\* A running store's file has two readable lines per live row at most, beyond the
\* dead lines it was loaded with and one line for every rewrite of add() that the
\* disk refused, both gone at the first rewrite it takes (add, _rewrite_disk,
\* _load_from_disk).
THEOREM FileBounded == Spec => []TwiceLive
BY Small, Inductive, PTL

\* On a disk that works, with jobs of different seconds, the store is durable: a
\* crash at any point of any operation and the trimmed or compacted reload lose no
\* row, revive none and change no status (PersistentScanJobStore).
THEOREM StoreIsDurable == Reliable => (Spec => Implements)
<1> SUFFICES ASSUME Reliable PROVE Spec => Implements  OBVIOUS
<1>1. /\ StoreInv /\ StoreInv' /\ MirrorInv /\ MirrorInv' /\ ViewInv /\ ViewInv' /\ [Next]_vars
      => [Durable!Next]_<<RowsOf(View), OrderOf(View)>>
  BY StepImplements
<1>2. Spec => []MirrorInv  BY Mirrored
<1> QED  BY <1>1, <1>2, InitImplements, ViewIs, Inductive, PTL DEF Spec, Implements, Durable!Spec
=============================================================================
