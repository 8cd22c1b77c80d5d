--------------------------- MODULE AuditLogProofs ---------------------------
(***************************************************************************)
(* Proofs about AuditLog for any number of archives, lines per file,       *)
(* events and interruptions: the chain is unbroken, an undisturbed         *)
(* verification tells the truth, and an interruption costs at most one     *)
(* archive of history.                                                     *)
(***************************************************************************)
EXTENDS AuditLog, WellFoundedInduction, TLAPS

Archives == 1..RotateCount

(***************************************************************************)
(* What the rotation relies on, interrupted or not: it begins with a full  *)
(* live file, every rename but the one that drops the oldest archive finds *)
(* its place free, and what is being archived are the lines of the live    *)
(* file.                                                                   *)
(***************************************************************************)
FullInv ==
    /\ proc.pc \in {"shift", "copy", "copying", "truncate"} => Len(live) = MaxLines
    /\ proc.pc = "append" => Len(live) < MaxLines

RoomInv ==
    /\ proc.pc = "shift" =>
         proc.k < RotateCount /\ (proc.k + 1 < RotateCount => arch[proc.k + 1] = NoFile)
    /\ proc.pc = "copy" /\ RotateCount > 1 => arch[1] = NoFile
    /\ \A k \in Archives : ~arch[k].here => arch[k] = NoFile

CopyInv ==
    /\ proc.pc = "copying" =>
         \A i \in DOMAIN arch[1].lines : i \in DOMAIN live /\ arch[1].lines[i] = live[i]
    /\ proc.pc = "truncate" => arch[1] = [here |-> TRUE, lines |-> live, torn |-> FALSE]

RotateInv == FullInv /\ RoomInv /\ CopyInv

(***************************************************************************)
(* A log that no interruption spoilt: the lines hold consecutive events up *)
(* to the last one, older ones in higher files, each naming its            *)
(* predecessor.  The archive that is being written is not counted.         *)
(***************************************************************************)
Kept(k) == IF k = 1 /\ proc.pc \in {"copying", "truncate"} THEN <<>> ELSE Lines(k)

LineInv == \A k \in Files : \A i \in DOMAIN Kept(k) :
    /\ Kept(k)[i].st = "ok"
    /\ Kept(k)[i].id <= count
    /\ Kept(k)[i].prev = Kept(k)[i].id - 1
    /\ Kept(k)[i].id = Kept(k)[1].id + i - 1

OrderInv == \A j, k \in Files : j < k =>
    \A i \in DOMAIN Kept(j) : \A h \in DOMAIN Kept(k) : Kept(k)[h].id < Kept(j)[i].id

GaplessInv == \A k \in Files : \A i \in DOMAIN Kept(k) : \A n \in Kept(k)[i].id..count :
    \E j \in Files : \E h \in DOMAIN Kept(j) : Kept(j)[h].id = n

EventInv == count > 0 => \E j \in Files : \E h \in DOMAIN Kept(j) : Kept(j)[h].id = count

HashInv ==
    /\ proc.pc # "down" => proc.hash = count
    /\ live = <<>> /\ count > 0 => arch[1].lines # <<>>

TornInv == \A k \in Archives : arch[k].torn => k = 1 /\ proc.pc = "copying"

Listed == LineInv /\ OrderInv /\ GaplessInv /\ EventInv

ChainInv == ~spoilt => Listed /\ HashInv /\ TornInv

(***************************************************************************)
(* A verification that nobody disturbed: the files it has still to read    *)
(* are those below the one it read last, and hold the events after the     *)
(* last hash it has seen.                                                  *)
(***************************************************************************)
ReaderInv ==
    ~spoilt /\ ~reader.raced /\ reader.todo # {} =>
      /\ proc.pc \in {"down", "idle", "append", "shift"}
      /\ 0 \in reader.todo
      /\ \A k \in reader.todo \ {0} : arch[k].here
      /\ \A k \in reader.todo : \A j \in Archives : j < k /\ arch[j].here => j \in reader.todo
      /\ ~reader.first =>
           /\ reader.last <= count
           /\ \A k \in reader.todo : \A i \in DOMAIN Lines(k) : reader.last < Lines(k)[i].id
           /\ \A n \in reader.last + 1..count :
                \E k \in reader.todo : \E i \in DOMAIN Lines(k) : Lines(k)[i].id = n

(***************************************************************************)
(* How old an archive is: the events of archive k came before k - 1        *)
(* archives' worth of others and those of the live file, less one archive  *)
(* for each interruption.  An archive the rotation under way has moved     *)
(* counts the live file as archived.                                       *)
(***************************************************************************)
Moved(k) ==
    \/ proc.pc \in {"copying", "truncate"}
    \/ proc.pc = "copy" /\ k >= 2
    \/ proc.pc = "shift" /\ k >= proc.k + 2

Newer(k) == IF Moved(k) THEN 0 ELSE Len(live)

HeldInv == \A k \in Files : \A i \in DOMAIN Lines(k) : Lines(k)[i].holds \subseteq 1..count

Age(k) == (k - 1 - faults) * MaxLines

AgeInv == \A k \in Archives : \A i \in DOMAIN arch[k].lines :
    \A n \in arch[k].lines[i].holds : n <= count - Newer(k) - Age(k)

HistoryInv == HeldInv /\ AgeInv /\ History

IInv == TypeOK /\ RotateInv /\ ChainInv /\ ReaderInv /\ VerdictTrue /\ HistoryInv

-----------------------------------------------------------------------------
LEMMA Bounds ==
    /\ RotateCount \in Nat /\ RotateCount >= 1 /\ 1 \in 1..RotateCount
    /\ MaxLines \in Nat /\ MaxLines >= 1
    /\ MaxEvents \in Nat /\ MaxFaults \in Nat
BY LogAssumption

USE Bounds

Archive == [here: BOOLEAN, lines: Seq(Line), torn: BOOLEAN]
Procs == [pc: {"down", "idle", "shift", "copy", "copying", "truncate", "append"},
          k: 0..RotateCount, hash: 0..MaxEvents]
Readers == [todo: SUBSET Files, last: 0..MaxEvents, first: BOOLEAN,
            bad: BOOLEAN, raced: BOOLEAN]

\* TypeOK in terms of these sets.
Types ==
    /\ live \in Seq(Line) /\ Len(live) <= MaxLines
    /\ arch \in [Archives -> Archive]
    /\ proc \in Procs /\ reader \in Readers
    /\ count \in 0..MaxEvents /\ faults \in 0..MaxFaults /\ spoilt \in BOOLEAN

LEMMA TypesAre == (TypeOK <=> Types) /\ (TypeOK' <=> Types')
BY DEF TypeOK, Types, Archives, Archive, Procs, Readers

\* What an append does to the live file: a line more, or the last one replaced.
LEMMA WrittenLines ==
    ASSUME TypeOK, NEW line \in Line
    PROVE  /\ Written(line) \in Seq(Line)
           /\ \/ /\ Len(Written(line)) = Len(live) + 1
                 /\ \A i \in DOMAIN live : i \in DOMAIN Written(line) /\ Written(line)[i] = live[i]
                 /\ Written(line)[Len(live) + 1] = line
              \/ /\ live # <<>> /\ Unfinished(Last(live))
                 /\ Len(Written(line)) = Len(live)
                 /\ \A i \in DOMAIN live : i # Len(live) => Written(line)[i] = live[i]
                 /\ Written(line)[Len(live)].holds = line.holds \cup Last(live).holds
<1>1. live \in Seq(Line) /\ DOMAIN live = 1..Len(live) /\ Len(live) \in Nat  BY DEF TypeOK
<1>2. CASE live # <<>> /\ Unfinished(Last(live))
  <2> DEFINE new == [line EXCEPT !.st = IF Unfinished(line) THEN "cut" ELSE "bad",
                                 !.holds = line.holds \cup Last(live).holds]
  <2>1. Len(live) \in DOMAIN live /\ Last(live) \in Line  BY <1>1, <1>2 DEF Last
  <2>2. new \in Line /\ new.holds = line.holds \cup Last(live).holds  BY <2>1 DEF Line
  <2>3. Written(line) = [live EXCEPT ![Len(live)] = new]  BY <1>2 DEF Written
  <2> HIDE DEF new
  <2>4. Written(line) \in [1..Len(live) -> Line]
    <3>1. live \in [1..Len(live) -> Line]  BY <1>1
    <3> QED  BY <1>1, <2>1, <2>2, <2>3, <3>1
  <2>5. Written(line) \in Seq(Line) /\ Len(Written(line)) = Len(live)  BY <1>1, <2>4
  <2>6. \A i \in DOMAIN live : i # Len(live) => Written(line)[i] = live[i]  BY <1>1, <2>3
  <2>7. Written(line)[Len(live)] = new  BY <1>1, <2>1, <2>3
  <2> QED  BY <1>2, <2>2, <2>5, <2>6, <2>7
<1>3. CASE ~(live # <<>> /\ Unfinished(Last(live)))
  <2>1. Written(line) = Append(live, line)  BY <1>3, Zenon DEF Written
  <2> DEFINE w == Append(live, line)
  <2>2. w \in Seq(Line) /\ Len(w) = Len(live) + 1 /\ w[Len(live) + 1] = line  BY <1>1
  <2>3. \A i \in DOMAIN live : i \in DOMAIN w /\ w[i] = live[i]  BY <1>1
  <2> HIDE DEF w
  <2>4. Written(line) = w  BY <2>1 DEF w
  <2> QED  BY <2>2, <2>3, <2>4
<1> QED  BY <1>2, <1>3

LEMMA NewLineIs ==
    ASSUME TypeOK, count < MaxEvents, NEW st \in {"ok", "open", "cut"}
    PROVE  /\ NewLine(st) \in Line /\ NewLine(st).holds = {count + 1} /\ NewLine(st).st = st
           /\ NewLine(st).id = count + 1 /\ NewLine(st).prev = proc.hash
BY DEF TypeOK, NewLine, Line, Events

LEMMA LastHashType == ASSUME TypeOK PROVE LastHash \in 0..MaxEvents
<1> DEFINE lines == IF live # <<>> THEN live
                    ELSE IF arch[1].torn THEN <<>> ELSE arch[1].lines
<1>1. lines \in Seq(Line)
  <2>1. live \in Seq(Line) /\ arch[1] \in Archive  BY DEF TypeOK, Archive
  <2> QED  BY <2>1 DEF Archive
<1>2. ASSUME lines # <<>> PROVE Last(lines).id \in 0..MaxEvents
  <2> HIDE DEF lines
  <2>1. Last(lines) \in Line  BY <1>1, <1>2 DEF Last
  <2> QED  BY <2>1 DEF Line, Events
<1>3. 0 \in 0..MaxEvents  OBVIOUS
<1> QED  BY <1>2, <1>3, Zenon DEF LastHash

\* Oldest names the highest file of a set.
LEMMA OldestIs ==
    ASSUME NEW S \in SUBSET Files, S # {}
    PROVE  Oldest(S) \in S /\ \A j \in S : j <= Oldest(S)
<1> DEFINE T == {RotateCount - k : k \in S}
<1>1. T \subseteq Nat /\ T # {}
  <2>1. \A k \in S : RotateCount - k \in Nat  BY DEF Files
  <2> QED  BY <2>1
<1> HIDE DEF T
<1>2. \E x \in T : \A y \in T : ~(<<y, x>> \in OpToRel(<, Nat))
  BY <1>1, NatLessThanWellFounded, WFMin
<1>3. PICK x \in T : \A y \in T : x <= y
  <2>1. PICK x \in T : \A y \in T : ~(y < x)  BY <1>1, <1>2 DEF OpToRel
  <2>2. \A y \in T : x <= y  BY <1>1, <2>1
  <2> QED  BY <2>2
<1>4. PICK k \in S : x = RotateCount - k  BY DEF T
<1>5. ASSUME NEW j \in S PROVE j <= k
  <2>1. x <= RotateCount - j  BY <1>3 DEF T
  <2> QED  BY <1>4, <2>1 DEF Files
<1> QED  BY <1>5 DEF Oldest

-----------------------------------------------------------------------------
(* Types and the rotation *)

Base == TypeOK /\ RotateInv

LEMMA BaseInit == Init => Base
<1> SUFFICES ASSUME Init PROVE Base  OBVIOUS
<1>1. NoFile \in Archive /\ live \in Seq(Line) /\ Len(live) = 0  BY DEF Init, NoFile, Archive
<1>2. proc \in Procs /\ reader \in Readers  BY DEF Init, Down, NoReader, Procs, Readers
<1>3. arch \in [Archives -> Archive]  BY <1>1 DEF Init, Archives
<1>4. TypeOK
  <2>1. Len(live) <= MaxLines  BY <1>1
  <2>2. count \in 0..MaxEvents /\ faults \in 0..MaxFaults  BY DEF Init
  <2>3. spoilt \in BOOLEAN  BY Zenon DEF Init
  <2>4. Types  BY <1>1, <1>2, <1>3, <2>1, <2>2, <2>3, Zenon DEF Types
  <2> QED  BY <2>4, TypesAre
<1>5. RotateInv
  BY DEF Init, RotateInv, FullInv, RoomInv, CopyInv, Down, Archives
<1> QED  BY <1>4, <1>5 DEF Base

LEMMA BaseStart == ASSUME Base, Start PROVE Base'
<1>1. LastHash \in 0..MaxEvents  BY LastHashType DEF Base
<1>2. TypeOK'  BY <1>1 DEF Base, Start, TypeOK
<1>3. RotateInv'  BY DEF Base, Start, TypeOK, RotateInv, FullInv, RoomInv, CopyInv
<1> QED  BY <1>2, <1>3 DEF Base

LEMMA BaseRecord == ASSUME Base, Record PROVE Base'
<1>1. Len(live) \in Nat  BY DEF Base, TypeOK
<1>2. /\ proc' \in Procs
      /\ \/ Len(live) >= MaxLines /\ proc'.pc = "shift" /\ proc'.k = RotateCount - 1
         \/ Len(live) < MaxLines /\ proc'.pc = "append"
  <2>1. proc \in Procs  BY TypesAre DEF Base, Types
  <2>2. CASE Len(live) >= MaxLines
    <3>1. proc' = [proc EXCEPT !.pc = "shift", !.k = RotateCount - 1]  BY <2>2 DEF Record
    <3>2. RotateCount - 1 \in 0..RotateCount  OBVIOUS
    <3> QED  BY <2>1, <2>2, <3>1, <3>2 DEF Procs
  <2>3. CASE ~(Len(live) >= MaxLines)
    <3>1. proc' = [proc EXCEPT !.pc = "append"]  BY <2>3 DEF Record, Goto
    <3> QED  BY <1>1, <2>1, <2>3, <3>1 DEF Procs
  <2> QED  BY <2>2, <2>3
<1>3. UNCHANGED <<live, arch, reader, count, faults, spoilt>>  BY DEF Record
<1>4. TypeOK'  BY <1>2, <1>3, TypesAre DEF Base, Types
<1>5. Len(live) <= MaxLines  BY DEF Base, TypeOK
<1>6. FullInv'  BY <1>1, <1>2, <1>3, <1>5 DEF FullInv
<1>7. RoomInv' /\ CopyInv'  BY <1>2, <1>3 DEF Base, RotateInv, RoomInv, CopyInv
<1> QED  BY <1>4, <1>6, <1>7 DEF Base, RotateInv

LEMMA BaseShift == ASSUME Base, Shift PROVE Base'
<1>1. proc.k \in 0..RotateCount /\ proc.pc = "shift" /\ proc.k < RotateCount
  BY DEF Base, TypeOK, Shift, RotateInv, RoomInv
<1>2. NoFile \in Archive  BY DEF NoFile, Archive
<1>3. arch' \in [Archives -> Archive]
  <2>1. arch \in [Archives -> Archive]  BY TypesAre DEF Base, Types
  <2>2. CASE arch' = arch  BY <2>1, <2>2
  <2>3. CASE /\ proc.k # 0
             /\ arch' = [arch EXCEPT ![proc.k + 1] = arch[proc.k], ![proc.k] = NoFile]
    <3>1. proc.k \in Archives  BY <1>1, <2>3 DEF Archives
    <3> QED  BY <1>2, <2>1, <2>3, <3>1
  <2> QED  BY <2>2, <2>3 DEF Shift
<1>4. /\ proc' \in [pc: {"shift", "copy"}, k: 0..RotateCount, hash: 0..MaxEvents]
      /\ proc.k = 0 => proc'.pc = "copy" /\ arch' = arch
      /\ proc.k # 0 => proc'.pc = "shift" /\ proc'.k = proc.k - 1
  BY <1>1 DEF Base, TypeOK, Shift, Goto
<1>5. reader' \in [todo: SUBSET Files, last: 0..MaxEvents, first: BOOLEAN,
                    bad: BOOLEAN, raced: BOOLEAN]
  BY DEF Base, TypeOK, Shift, Disturb
<1>6. UNCHANGED <<live, count, faults, spoilt>>  BY DEF Shift
<1>7. TypeOK'
  <2>1. proc' \in Procs /\ reader' \in Readers  BY <1>4, <1>5 DEF Procs, Readers
  <2> QED  BY <1>3, <1>6, <2>1, TypesAre DEF Base, Types
<1>8. FullInv'  BY <1>1, <1>4, <1>6 DEF Base, RotateInv, FullInv
<1>9. RoomInv'
  <2>1. CASE proc.k = 0
    BY <1>1, <1>4, <2>1 DEF Base, RotateInv, RoomInv
  <2>2. CASE proc.k # 0
    <3>1. proc.k \in Archives /\ proc.k + 1 \in Archives  BY <1>1, <2>2 DEF Archives
    <3>2. arch \in [Archives -> Archive]  BY DEF Base, TypeOK, Archive, Archives
    <3>3. arch'[proc.k] = NoFile
      BY <2>2, <3>1, <3>2 DEF Base, RotateInv, RoomInv, Shift
    <3>4. \A m \in Archives : ~arch'[m].here => arch'[m] = NoFile
      BY <2>2, <3>1, <3>2 DEF Base, RotateInv, RoomInv, Shift, NoFile
    <3>5. proc'.k + 1 = proc.k /\ proc'.k < RotateCount  BY <1>1, <1>4, <2>2
    <3> QED  BY <1>4, <2>2, <3>3, <3>4, <3>5 DEF RoomInv
  <2> QED  BY <2>1, <2>2
<1>10. CopyInv'  BY <1>4 DEF CopyInv
<1> QED  BY <1>7, <1>8, <1>9, <1>10 DEF Base, RotateInv

LEMMA BaseCompress == ASSUME Base, Compress PROVE Base'
<1>1. PICK n \in 0..Len(live) :
        arch' = [arch EXCEPT ![1] = [here |-> TRUE, lines |-> SubSeq(live, 1, n), torn |-> TRUE]]
  BY DEF Compress
<1> DEFINE part == SubSeq(live, 1, n)
<1>2. live \in Seq(Line) /\ Len(live) \in Nat /\ DOMAIN live = 1..Len(live)  BY DEF Base, TypeOK
<1>3. part \in Seq(Line) /\ \A i \in DOMAIN part : i \in DOMAIN live /\ part[i] = live[i]  BY <1>2
<1> HIDE DEF part
<1>4. arch \in [Archives -> Archive]  BY DEF Base, TypeOK, Archive, Archives
<1>5. arch' = [arch EXCEPT ![1] = [here |-> TRUE, lines |-> part, torn |-> TRUE]]  BY <1>1 DEF part
<1>6. arch' \in [Archives -> Archive]  BY <1>3, <1>4, <1>5 DEF Archive
<1>7. 1 \in Archives  BY DEF Archives
<1>8. arch'[1].lines = part /\ arch'[1].here /\ \A m \in Archives : m # 1 => arch'[m] = arch[m]
  BY <1>4, <1>5, <1>7
<1>9. proc' = [proc EXCEPT !.pc = "copying"] /\ proc'.pc = "copying" /\ proc.pc = "copy"
  BY DEF Base, TypeOK, Compress, Goto
<1>10. TypeOK'  BY <1>6, <1>9 DEF Base, TypeOK, Compress, Disturb, Archive, Archives
<1>11. FullInv'  BY <1>9 DEF Base, RotateInv, FullInv, Compress
<1>12. RoomInv'  BY <1>8, <1>9 DEF Base, RotateInv, RoomInv
<1>13. live' = live  BY DEF Compress
<1>14. CopyInv'  BY <1>3, <1>8, <1>9, <1>13 DEF CopyInv
<1> QED  BY <1>10, <1>11, <1>12, <1>14 DEF Base, RotateInv

LEMMA BaseCompressed == ASSUME Base, Compressed PROVE Base'
<1>1. live \in Seq(Line) /\ live' = live  BY DEF Base, TypeOK, Compressed
<1>2. arch \in [Archives -> Archive] /\ 1 \in Archives  BY DEF Base, TypeOK, Archive, Archives
<1>3. arch' = [arch EXCEPT ![1] = [here |-> TRUE, lines |-> live, torn |-> FALSE]]  BY DEF Compressed
<1>4. arch' \in [Archives -> Archive]  BY <1>1, <1>2, <1>3 DEF Archive
<1>5. /\ arch'[1] = [here |-> TRUE, lines |-> live, torn |-> FALSE]
      /\ \A m \in Archives : m # 1 => arch'[m] = arch[m]
  BY <1>2, <1>3
<1>6. proc' = [proc EXCEPT !.pc = "truncate"] /\ proc'.pc = "truncate" /\ proc.pc = "copying"
  BY DEF Base, TypeOK, Compressed, Goto
<1>7. TypeOK'  BY <1>4, <1>6 DEF Base, TypeOK, Compressed, Disturb, Archive, Archives
<1>8. FullInv'  BY <1>6 DEF Base, RotateInv, FullInv, Compressed
<1>9. RoomInv'  BY <1>5, <1>6 DEF Base, RotateInv, RoomInv
<1>10. CopyInv'  BY <1>1, <1>5, <1>6 DEF CopyInv
<1> QED  BY <1>7, <1>8, <1>9, <1>10 DEF Base, RotateInv

LEMMA BaseTruncate == ASSUME Base, Truncate PROVE Base'
<1>1. proc' = [proc EXCEPT !.pc = "append"] /\ proc'.pc = "append" /\ proc.pc = "truncate"
  BY DEF Base, TypeOK, Truncate, Goto
<1>2. live' \in Seq(Line) /\ Len(live') = 0  BY DEF Truncate
<1>3. TypeOK'
  <2>1. proc \in Procs /\ reader \in Readers  BY TypesAre DEF Base, Types
  <2>2. proc' \in Procs /\ reader' \in Readers  BY <1>1, <2>1 DEF Procs, Readers, Truncate, Disturb
  <2> QED  BY <1>2, <2>2, TypesAre DEF Base, Types, Truncate
<1>4. RotateInv'  BY <1>1, <1>2 DEF Base, RotateInv, FullInv, RoomInv, CopyInv, Truncate
<1> QED  BY <1>3, <1>4 DEF Base

LEMMA BaseAppend == ASSUME Base, AppendLine PROVE Base'
<1>1. NewLine("ok") \in Line  BY NewLineIs DEF Base, AppendLine
<1>2. live' = Written(NewLine("ok"))  BY DEF AppendLine
<1>3. Len(live) \in Nat /\ Len(live) < MaxLines  BY DEF Base, TypeOK, RotateInv, FullInv, AppendLine
<1>4. live' \in Seq(Line) /\ Len(live') <= MaxLines
  <2>1. live' \in Seq(Line) /\ (Len(live') = Len(live) + 1 \/ Len(live') = Len(live))
    BY <1>1, <1>2, WrittenLines, Zenon DEF Base
  <2> QED  BY <1>3, <2>1
<1>5. proc' \in Procs /\ proc'.pc = "idle" /\ count' \in 0..MaxEvents
  <2>1. proc \in Procs /\ count \in 0..MaxEvents  BY TypesAre DEF Base, Types
  <2>2. count' = count + 1 /\ count < MaxEvents  BY DEF AppendLine
  <2>3. count' \in 0..MaxEvents  BY <2>1, <2>2
  <2>4. proc' = [proc EXCEPT !.pc = "idle", !.hash = count']  BY DEF AppendLine
  <2> QED  BY <2>1, <2>3, <2>4 DEF Procs
<1>6. TypeOK'  BY <1>4, <1>5, TypesAre DEF Base, Types, AppendLine
<1>7. RotateInv'  BY <1>5 DEF Base, RotateInv, FullInv, RoomInv, CopyInv, AppendLine
<1> QED  BY <1>6, <1>7 DEF Base

LEMMA BaseInterrupt == ASSUME Base, Interrupt PROVE Base'
<1>1. proc' \in [pc: {"idle", "down"}, k: 0..RotateCount, hash: 0..MaxEvents]
  BY DEF Base, TypeOK, Interrupt, Goto, Down
<1>2. live' \in Seq(Line) /\ Len(live') <= MaxLines /\ count' \in 0..MaxEvents
  <2>1. CASE UNCHANGED <<live, count>>  BY <2>1 DEF Base, TypeOK
  <2>2. CASE ~UNCHANGED <<live, count>>
    <3>1. proc.pc = "append" /\ count < MaxEvents /\ count' = count + 1  BY <2>2 DEF Interrupt
    <3>2. PICK st \in {"ok", "open", "cut"} : live' = Written(NewLine(st))  BY <2>2 DEF Interrupt
    <3>3. NewLine(st) \in Line  BY <3>1, NewLineIs DEF Base
    <3>4. Len(live) \in Nat /\ Len(live) < MaxLines  BY <3>1 DEF Base, TypeOK, RotateInv, FullInv
    <3>5. live' \in Seq(Line) /\ Len(live') <= MaxLines
      <4>1. live' \in Seq(Line) /\ (Len(live') = Len(live) + 1 \/ Len(live') = Len(live))
        BY <3>2, <3>3, WrittenLines, Zenon DEF Base
      <4> QED  BY <3>4, <4>1
    <3> QED  BY <3>1, <3>5 DEF Base, TypeOK
  <2> QED  BY <2>1, <2>2
<1>3. faults' \in 0..MaxFaults /\ spoilt' \in BOOLEAN /\ arch' = arch /\ reader' = reader
  <2>1. faults' = faults + 1 /\ faults < MaxFaults /\ UNCHANGED <<arch, reader>>
    BY DEF Interrupt
  <2>2. faults' \in 0..MaxFaults
    <3>1. faults \in 0..MaxFaults /\ MaxFaults \in Nat  BY LogAssumption DEF Base, TypeOK
    <3> QED  BY <2>1, <3>1
  <2>3. spoilt' \in BOOLEAN  BY Zenon DEF Interrupt
  <2> QED  BY <2>1, <2>2, <2>3
<1>4. TypeOK'  BY <1>1, <1>2, <1>3 DEF Base, TypeOK
<1>5. RotateInv'  BY <1>1, <1>3 DEF Base, RotateInv, FullInv, RoomInv, CopyInv
<1> QED  BY <1>4, <1>5 DEF Base

LEMMA BaseRead == ASSUME Base, Verify \/ ReadFile \/ ReadPart PROVE Base'
<1>1. UNCHANGED <<live, arch, proc, count, faults, spoilt>>  BY DEF Verify, ReadFile, ReadPart
<1>2. reader' \in Readers
  <2>1. CASE Verify
    <3>1. Sources \in SUBSET Files  BY DEF Sources, Files
    <3>2. (~Quiet) \in BOOLEAN  BY DEF Quiet
    <3>3. reader' = [todo |-> Sources, last |-> 0, first |-> TRUE, bad |-> FALSE, raced |-> ~Quiet]
      BY <2>1 DEF Verify, NoReader
    <3> QED  BY <3>1, <3>2, <3>3 DEF Readers
  <2>2. CASE ReadFile
    <3> DEFINE k == Oldest(reader.todo)
               file == IF k = 0 THEN [here |-> TRUE, lines |-> live, torn |-> FALSE] ELSE arch[k]
    <3>1. k \in Files  BY <2>2, OldestIs DEF Base, TypeOK, ReadFile
    <3>2. file \in Archive  BY <3>1 DEF Base, TypeOK, Files, Archive
    <3>3. reader' = [todo |-> reader.todo \ {k},
                     last |-> IF file.lines = <<>> THEN reader.last ELSE Last(file.lines).id,
                     first |-> reader.first /\ file.lines = <<>>,
                     bad |-> \/ reader.bad
                             \/ ~file.here \/ file.torn
                             \/ BadAfter(file.lines, reader.last, reader.first),
                     raced |-> reader.raced]
      BY <2>2 DEF ReadFile
    <3> HIDE DEF k, file
    <3>4. ASSUME file.lines # <<>> PROVE Last(file.lines).id \in 0..MaxEvents
      <4>1. file.lines \in Seq(Line)  BY <3>2 DEF Archive
      <4>2. Last(file.lines) \in Line  BY <3>4, <4>1 DEF Last
      <4> QED  BY <4>2 DEF Line, Events
    <3>5. BadAfter(file.lines, reader.last, reader.first) \in BOOLEAN  BY DEF BadAfter
    <3>6. reader.todo \in SUBSET Files /\ reader.last \in 0..MaxEvents /\ reader.raced \in BOOLEAN
      BY DEF Base, TypeOK
    <3> QED  BY <3>3, <3>4, <3>5, <3>6 DEF Readers
  <2>3. CASE ReadPart
    <3>1. reader \in Readers  BY TypesAre DEF Base, Types
    <3>2. reader' = [reader EXCEPT !.todo = @ \ {0}, !.bad = TRUE, !.raced = TRUE]
      BY <2>3 DEF ReadPart
    <3> QED  BY <3>1, <3>2 DEF Readers
  <2> QED  BY <2>1, <2>2, <2>3
<1>3. TypeOK'  BY <1>1, <1>2, TypesAre DEF Base, Types
<1>4. RotateInv'  BY <1>1 DEF Base, RotateInv, FullInv, RoomInv, CopyInv
<1> QED  BY <1>3, <1>4 DEF Base

LEMMA BaseStep == ASSUME Base, [Next]_vars PROVE Base'
<1>1. CASE Start  BY <1>1, BaseStart
<1>2. CASE Record  BY <1>2, BaseRecord
<1>3. CASE Shift  BY <1>3, BaseShift
<1>4. CASE Compress  BY <1>4, BaseCompress
<1>5. CASE Compressed  BY <1>5, BaseCompressed
<1>6. CASE Truncate  BY <1>6, BaseTruncate
<1>7. CASE AppendLine  BY <1>7, BaseAppend
<1>8. CASE Interrupt  BY <1>8, BaseInterrupt
<1>9. CASE End
  BY <1>9 DEF End, Down, Base, TypeOK, RotateInv, FullInv, RoomInv, CopyInv
<1>10. CASE Verify \/ ReadFile \/ ReadPart  BY <1>10, BaseRead
<1>11. CASE UNCHANGED vars
  BY <1>11 DEF vars, Base, TypeOK, RotateInv, FullInv, RoomInv, CopyInv
<1> QED
  BY <1>1, <1>2, <1>3, <1>4, <1>5, <1>6, <1>7, <1>8, <1>9, <1>10, <1>11 DEF Next, Step

-----------------------------------------------------------------------------
(* History *)

OnDisk(n) == \E k \in Files : \E i \in DOMAIN Lines(k) : n \in Lines(k)[i].holds

LEMMA HistoryIs ==
    /\ History <=> \A n \in Events : n <= count /\ n > count - (RotateCount - faults) * MaxLines
                                      => OnDisk(n)
    /\ History' <=> \A n \in Events : n <= count' /\ n > count' - (RotateCount - faults') * MaxLines
                                       => OnDisk(n)'
BY DEF History, OnDisk

LEMMA Ages ==
    ASSUME TypeOK, NEW k \in Int
    PROVE  /\ Age(k) \in Int /\ Age(k + 1) = Age(k) + MaxLines
           /\ Age(1) <= 0
           /\ (RotateCount - faults) * MaxLines = Age(RotateCount) + MaxLines
           /\ (RotateCount - faults) * MaxLines \in Int
<1>1. faults \in Nat  BY DEF TypeOK
<1>2. Age(k) \in Int /\ Age(k + 1) = Age(k) + MaxLines  BY <1>1 DEF Age
<1>3. faults * MaxLines >= 0  BY <1>1
<1>4. Age(1) = 0 - faults * MaxLines  BY <1>1 DEF Age
<1>5. (RotateCount - faults) * MaxLines = Age(RotateCount) + MaxLines  BY <1>1 DEF Age
<1> QED  BY <1>1, <1>2, <1>3, <1>4, <1>5

LEMMA Aged ==
    ASSUME TypeOK, faults' = faults + 1, NEW k \in Int
    PROVE  /\ Age(k) \in Int /\ Age(k)' = Age(k) - MaxLines
           /\ (RotateCount - faults') * MaxLines = (RotateCount - faults) * MaxLines - MaxLines
BY DEF Age, TypeOK

\* Types of what the archives hold.
LEMMA HeldTypes ==
    ASSUME TypeOK
    PROVE  /\ \A k \in Files : Lines(k) \in Seq(Line)
           /\ \A k \in Archives : arch[k].lines = Lines(k) /\ k \in Files
           /\ \A k \in Files : \A i \in DOMAIN Lines(k) : Lines(k)[i].holds \subseteq Events
           /\ Len(live) \in Nat /\ Len(live) <= MaxLines /\ count \in Nat /\ count <= MaxEvents
<1>1. arch \in [Archives -> Archive] /\ live \in Seq(Line)  BY TypesAre DEF Types
<1>2. ASSUME NEW k \in Files PROVE Lines(k) \in Seq(Line)
  BY <1>1 DEF Files, Archives, Archive, Lines
<1>3. ASSUME NEW k \in Files, NEW i \in DOMAIN Lines(k) PROVE Lines(k)[i].holds \subseteq Events
  <2>1. Lines(k)[i] \in Line  BY <1>2
  <2> QED  BY <2>1 DEF Line
<1>4. \A k \in Archives : arch[k].lines = Lines(k) /\ k \in Files  BY DEF Archives, Files, Lines
<1> QED  BY <1>2, <1>3, <1>4 DEF TypeOK

LEMMA HistoryInit == Init => HistoryInv
<1> SUFFICES ASSUME Init PROVE HistoryInv  OBVIOUS
<1>1. \A k \in Files : Lines(k) = <<>>  BY DEF Init, Lines, Files, NoFile
<1>2. \A k \in Archives : arch[k].lines = <<>>  BY DEF Init, Archives, NoFile
<1>3. HeldInv /\ AgeInv  BY <1>1, <1>2 DEF HeldInv, AgeInv
<1>4. History  BY DEF Init, History, Events
<1> QED  BY <1>3, <1>4 DEF HistoryInv

\* Steps that leave the files and the counters alone.
LEMMA HistoryKept ==
    ASSUME Base, HistoryInv, UNCHANGED <<live, arch, count, faults>>,
           \A k \in Archives : Moved(k)' <=> Moved(k)
    PROVE  HistoryInv'
<1>1. \A k \in Files : Lines(k)' = Lines(k)  BY DEF Lines
<1>2. HeldInv' /\ History'  BY <1>1, HistoryIs DEF HistoryInv, HeldInv, OnDisk
<1>3. \A k \in Archives : Newer(k)' = Newer(k) /\ Age(k)' = Age(k)  BY DEF Newer, Age
<1>4. AgeInv'  BY <1>3 DEF HistoryInv, AgeInv
<1> QED  BY <1>2, <1>4 DEF HistoryInv

LEMMA HistoryShift == ASSUME Base, HistoryInv, Shift PROVE HistoryInv'
<1>0. PICK k \in Int : k = proc.k  BY DEF Base, TypeOK
<1>1. /\ k \in Int /\ 0 <= k /\ k < RotateCount /\ proc.pc = "shift" /\ Len(live) = MaxLines
      /\ k + 1 < RotateCount => arch[k + 1] = NoFile
  BY <1>0 DEF Base, TypeOK, Shift, RotateInv, RoomInv, FullInv
<1>2. UNCHANGED <<live, count, faults>>  BY DEF Shift
<1>3. CASE k = 0
  <2>1. arch' = arch /\ proc'.pc = "copy"  BY <1>0, <1>3 DEF Base, TypeOK, Shift, Goto
  <2>2. \A m \in Archives : Moved(m)' <=> Moved(m)  BY <1>0, <1>1, <1>3, <2>1 DEF Moved
  <2> QED  BY <1>2, <2>1, <2>2, HistoryKept
<1>4. CASE k # 0
  <2>1. proc'.pc = "shift" /\ proc'.k = k - 1  BY <1>0, <1>1, <1>4 DEF Base, TypeOK, Shift
  <2>2. k \in Archives /\ k + 1 \in Archives /\ k \in Files /\ k + 1 \in Files
    BY <1>1, <1>4 DEF Archives, Files
  <2>3. arch \in [Archives -> Archive]  BY TypesAre DEF Base, Types
  <2>4. /\ \A m \in Archives : m # k /\ m # k + 1 => arch'[m] = arch[m]
        /\ \/ arch'[k + 1] = arch[k] /\ arch'[k].lines = <<>>
           \/ arch'[k + 1] = arch[k + 1] /\ arch'[k] = arch[k] /\ arch[k].lines = <<>>
    <3>1. CASE arch[k].here
      <4>1. arch' = [arch EXCEPT ![k + 1] = arch[k], ![k] = NoFile]  BY <1>4, <1>0, <3>1 DEF Shift
      <4> QED  BY <1>1, <2>2, <2>3, <4>1 DEF NoFile
    <3>2. CASE ~arch[k].here
      <4>1. arch' = arch  BY <1>4, <1>0, <3>2 DEF Shift
      <4>2. arch[k].lines = <<>>  BY <2>2, <3>2 DEF Base, RotateInv, RoomInv, NoFile
      <4> QED  BY <4>1, <4>2
    <3> QED  BY <3>1, <3>2
  <2>5. /\ Lines(k + 1) = arch[k + 1].lines /\ Lines(k) = arch[k].lines
        /\ Lines(k + 1)' = arch'[k + 1].lines /\ Lines(k)' = arch'[k].lines
    BY <1>1, <1>4 DEF Lines
  <2>6. ASSUME NEW m \in Files, m # k, m # k + 1 PROVE Lines(m)' = Lines(m)
    BY <1>2, <2>4, <2>6 DEF Lines, Files, Archives
  <2>7. \/ Lines(k + 1)' = Lines(k) /\ Lines(k)' = <<>>
        \/ Lines(k + 1)' = Lines(k + 1) /\ Lines(k)' = <<>> /\ Lines(k) = <<>>
    BY <2>4, <2>5, Zenon
  <2>8. HeldInv'
    <3> SUFFICES ASSUME NEW m \in Files, NEW i \in DOMAIN Lines(m)'
                 PROVE  Lines(m)'[i].holds \subseteq 1..count
      BY <1>2 DEF HeldInv
    <3>1. \E j \in Files : Lines(m)' = Lines(j)  BY <2>2, <2>6, <2>7
    <3> QED  BY <3>1 DEF HistoryInv, HeldInv
  <2>9. AgeInv'
    <3> SUFFICES ASSUME NEW m \in Archives, NEW i \in DOMAIN Lines(m)', NEW n \in Lines(m)'[i].holds
                 PROVE  n <= count - Newer(m)' - Age(m)
      <4>1. \A m \in Archives : Age(m)' = Age(m) /\ Lines(m)' = arch'[m].lines
        BY <1>2 DEF Age, Lines, Archives
      <4> QED  BY <1>2, <4>1 DEF AgeInv
    <3>0. /\ m \in Int /\ count \in Int /\ Age(m) \in Int /\ Age(k) \in Int
          /\ Age(k + 1) = Age(k) + MaxLines
      <4>1. m \in Int /\ TypeOK  BY DEF Archives, Base
      <4>2. Age(m) \in Int  BY <4>1, Ages
      <4>3. Age(k) \in Int /\ Age(k + 1) = Age(k) + MaxLines  BY <1>0, <4>1, Ages
      <4> QED  BY <4>1, <4>2, <4>3, HeldTypes
    <3>1. CASE m = k + 1 /\ Lines(m)' = Lines(k)
      <4>1. n \in Events /\ n <= count - Newer(k) - Age(k)
        BY <2>2, <3>1, HeldTypes DEF Base, HistoryInv, AgeInv
      <4>2. Newer(k) = MaxLines  BY <1>0, <1>1, <2>2 DEF Newer, Moved, Archives
      <4>3. Newer(m)' = 0  BY <1>1, <2>1, <3>1 DEF Newer, Moved
      <4> QED  BY <3>0, <3>1, <4>1, <4>2, <4>3 DEF Events
    <3>2. CASE Lines(m)' = Lines(m) /\ m # k
      <4>1. n \in Events /\ n <= count - Newer(m) - Age(m)
        BY <3>2, HeldTypes DEF Base, HistoryInv, AgeInv
      <4>2. Newer(m)' = 0 \/ Newer(m)' = Newer(m)
        BY <1>0, <1>1, <1>2, <2>1, <3>2, <3>0 DEF Newer, Moved
      <4>3. Newer(m) \in Nat  BY HeldTypes DEF Base, Newer
      <4> QED  BY <3>0, <4>1, <4>2, <4>3 DEF Events
    <3>3. m # k  BY <2>7
    <3> QED  BY <2>6, <2>7, <3>1, <3>2, <3>3, HeldTypes DEF Base
  <2>10. History'
    <3> SUFFICES ASSUME NEW n \in Events, n <= count,
                        n > count - (RotateCount - faults) * MaxLines
                 PROVE  OnDisk(n)'
      BY <1>2, HistoryIs
    <3>0. PICK j \in Files : \E i \in DOMAIN Lines(j) : n \in Lines(j)[i].holds
      BY HistoryIs DEF HistoryInv, OnDisk
    <3>1. PICK i \in DOMAIN Lines(j) : n \in Lines(j)[i].holds  BY <3>0
    <3>2. CASE Lines(j)' = Lines(j)  BY <3>1, <3>2, Zenon DEF OnDisk
    <3>3. CASE j = k /\ Lines(k + 1)' = Lines(k)  BY <2>2, <3>1, <3>3, Zenon DEF OnDisk
    <3>4. CASE j = k + 1
      <4>1. k + 1 = RotateCount
        BY <1>1, <2>5, <3>1, <3>4 DEF NoFile
      <4>2. n <= count - Newer(k + 1) - Age(k + 1)
        BY <2>2, <2>5, <3>1, <3>4 DEF HistoryInv, AgeInv
      <4>3. Newer(k + 1) = MaxLines  BY <1>0, <1>1 DEF Newer, Moved
      <4>4. /\ Age(RotateCount) \in Int /\ count \in Int
            /\ (RotateCount - faults) * MaxLines = Age(RotateCount) + MaxLines
        BY Ages, HeldTypes DEF Base
      <4> QED  BY <4>1, <4>2, <4>3, <4>4 DEF Events
    <3> QED  BY <2>6, <2>7, <3>1, <3>2, <3>3, <3>4
  <2> QED  BY <2>8, <2>9, <2>10 DEF HistoryInv
<1> QED  BY <1>3, <1>4

LEMMA HistoryCompress == ASSUME Base, HistoryInv, Compress PROVE HistoryInv'
<1>1. /\ proc.pc = "copy" /\ proc'.pc = "copying" /\ Len(live) = MaxLines
      /\ RotateCount > 1 => arch[1] = NoFile
  BY DEF Base, TypeOK, Compress, Goto, RotateInv, FullInv, RoomInv
<1>2. UNCHANGED <<live, count, faults>>  BY DEF Compress
<1>3. arch \in [Archives -> Archive] /\ 1 \in Archives  BY TypesAre DEF Base, Types, Archives
<1>4. \A m \in Archives : m # 1 => arch'[m] = arch[m]  BY <1>3 DEF Compress
<1>5. \A i \in DOMAIN arch'[1].lines : i \in DOMAIN live /\ arch'[1].lines[i] = live[i]
  <2>1. Base'  BY BaseCompress
  <2> QED  BY <1>1, <1>2, <2>1 DEF Base, RotateInv, CopyInv
<1>6. Lines(0) = live /\ Lines(0)' = live /\ Lines(1)' = arch'[1].lines /\ Lines(1) = arch[1].lines
  BY <1>2 DEF Lines
<1>7. \A m \in Files : m # 1 => Lines(m)' = Lines(m)  BY <1>2, <1>4 DEF Lines, Files, Archives
<1>8. 0 \in Files /\ 1 \in Files  BY DEF Files
<1>9. HeldInv'
  <2> SUFFICES ASSUME NEW m \in Files, NEW i \in DOMAIN Lines(m)'
               PROVE  Lines(m)'[i].holds \subseteq 1..count
    BY <1>2 DEF HeldInv
  <2>1. \E j \in Files : i \in DOMAIN Lines(j) /\ Lines(m)'[i] = Lines(j)[i]
    BY <1>5, <1>6, <1>7, <1>8
  <2> QED  BY <2>1 DEF HistoryInv, HeldInv
<1>10. AgeInv'
  <2> SUFFICES ASSUME NEW m \in Archives, NEW i \in DOMAIN arch'[m].lines,
                      NEW n \in arch'[m].lines[i].holds
               PROVE  n <= count - Newer(m)' - Age(m)
    BY <1>2 DEF AgeInv, Age
  <2>1. Newer(m)' = 0  BY <1>1 DEF Newer, Moved
  <2>2. m \in Int /\ count \in Int  BY HeldTypes DEF Base, Archives
  <2>3. Age(m) \in Int /\ Age(1) \in Int /\ Age(1) <= 0  BY <2>2, Ages DEF Base, Age
  <2>4. CASE m = 1
    <3>1. n \in 1..count  BY <1>5, <1>6, <1>8, <2>4 DEF HistoryInv, HeldInv
    <3> QED  BY <2>1, <2>2, <2>3, <2>4, <3>1
  <2>5. CASE m # 1
    <3>1. n <= count - Newer(m) - Age(m)  BY <1>4, <2>5 DEF HistoryInv, AgeInv
    <3>2. Newer(m) = 0  BY <1>1, <2>5 DEF Newer, Moved, Archives
    <3> QED  BY <2>1, <3>1, <3>2
  <2> QED  BY <2>4, <2>5
<1>11. History'
  <2> SUFFICES ASSUME NEW n \in Events, n <= count,
                      n > count - (RotateCount - faults) * MaxLines
               PROVE  OnDisk(n)'
    BY <1>2, HistoryIs
  <2>1. PICK j \in Files : \E i \in DOMAIN Lines(j) : n \in Lines(j)[i].holds
    BY HistoryIs DEF HistoryInv, OnDisk
  <2>2. CASE j # 1  BY <1>7, <2>1, <2>2, Zenon DEF OnDisk
  <2>3. CASE j = 1
    <3>1. PICK i \in DOMAIN arch[1].lines : n \in arch[1].lines[i].holds  BY <1>6, <2>1, <2>3
    <3>2. RotateCount = 1  BY <1>1, <3>1 DEF NoFile
    <3>3. n <= count - Newer(1) - Age(1)  BY <1>3, <3>1 DEF HistoryInv, AgeInv
    <3>4. Newer(1) = MaxLines  BY <1>1 DEF Newer, Moved
    <3>5. /\ Age(RotateCount) \in Int /\ count \in Int
          /\ (RotateCount - faults) * MaxLines = Age(RotateCount) + MaxLines
      BY Ages, HeldTypes DEF Base
    <3> QED  BY <3>2, <3>3, <3>4, <3>5 DEF Events
  <2> QED  BY <2>2, <2>3
<1> QED  BY <1>9, <1>10, <1>11 DEF HistoryInv

LEMMA HistoryCompressed == ASSUME Base, HistoryInv, Compressed PROVE HistoryInv'
<1>1. proc.pc = "copying" /\ proc'.pc = "truncate"  BY DEF Base, TypeOK, Compressed, Goto
<1>2. UNCHANGED <<live, count, faults>>  BY DEF Compressed
<1>3. arch \in [Archives -> Archive] /\ 1 \in Archives  BY TypesAre DEF Base, Types, Archives
<1>4. arch'[1].lines = live /\ \A m \in Archives : m # 1 => arch'[m] = arch[m]
  BY <1>3 DEF Compressed
<1>5. \A i \in DOMAIN arch[1].lines : i \in DOMAIN live /\ arch[1].lines[i] = live[i]
  BY <1>1 DEF Base, RotateInv, CopyInv
<1>6. /\ Lines(0) = live /\ Lines(0)' = live /\ Lines(1) = arch[1].lines /\ Lines(1)' = live
      /\ 0 \in Files /\ 1 \in Files
  BY <1>2, <1>4 DEF Lines, Files
<1>7. \A m \in Files : m # 1 => Lines(m)' = Lines(m)  BY <1>2, <1>4 DEF Lines, Files, Archives
<1>8. HeldInv'
  <2>1. \A m \in Files : \E j \in Files : Lines(m)' = Lines(j)  BY <1>6, <1>7
  <2> QED  BY <1>2, <2>1 DEF HistoryInv, HeldInv
<1>9. AgeInv'
  <2> SUFFICES ASSUME NEW m \in Archives, NEW i \in DOMAIN arch'[m].lines,
                      NEW n \in arch'[m].lines[i].holds
               PROVE  n <= count - Newer(m)' - Age(m)
    BY <1>2 DEF AgeInv, Age
  <2>1. Newer(m)' = 0 /\ Newer(m) = 0  BY <1>1 DEF Newer, Moved
  <2>2. count \in Int /\ Age(1) \in Int /\ Age(1) <= 0  BY Ages, HeldTypes DEF Base, Age
  <2>3. CASE m = 1
    <3>1. n \in 1..count  BY <1>4, <1>6, <2>3 DEF HistoryInv, HeldInv
    <3> QED  BY <2>1, <2>2, <2>3, <3>1
  <2>4. CASE m # 1  BY <1>4, <2>1, <2>4 DEF HistoryInv, AgeInv
  <2> QED  BY <2>3, <2>4
<1>10. ASSUME NEW n, OnDisk(n) PROVE OnDisk(n)'
  <2>1. PICK j \in Files : \E i \in DOMAIN Lines(j) : n \in Lines(j)[i].holds  BY <1>10 DEF OnDisk
  <2>2. CASE j # 1  BY <1>7, <2>1, <2>2, Zenon DEF OnDisk
  <2>3. CASE j = 1
    <3>1. \E i \in DOMAIN live : n \in live[i].holds  BY <1>5, <1>6, <2>1, <2>3
    <3> QED  BY <1>6, <3>1, Zenon DEF OnDisk
  <2> QED  BY <2>2, <2>3
<1>11. History'  BY <1>2, <1>10, HistoryIs DEF HistoryInv
<1> QED  BY <1>8, <1>9, <1>11 DEF HistoryInv

LEMMA HistoryTruncate == ASSUME Base, HistoryInv, Truncate PROVE HistoryInv'
<1>1. /\ proc.pc = "truncate" /\ proc'.pc = "append" /\ live' = <<>> /\ Len(live') = 0
      /\ arch[1].lines = live /\ UNCHANGED <<arch, count, faults>>
  BY DEF Base, TypeOK, Truncate, Goto, RotateInv, CopyInv
<1>2. /\ Lines(0) = live /\ Lines(0)' = <<>> /\ Lines(1)' = live
      /\ 0 \in Files /\ 1 \in Files /\ \A m \in Files : m # 0 => Lines(m)' = Lines(m)
  BY <1>1 DEF Lines, Files
<1>3. HeldInv'
  <2> SUFFICES ASSUME NEW m \in Files, NEW i \in DOMAIN Lines(m)'
               PROVE  Lines(m)'[i].holds \subseteq 1..count
    BY <1>1 DEF HeldInv
  <2>1. m # 0  BY <1>2
  <2> QED  BY <1>2, <2>1 DEF HistoryInv, HeldInv
<1>4. \A m \in Archives : Newer(m)' = Newer(m) /\ Age(m)' = Age(m)  BY <1>1 DEF Newer, Moved, Age
<1>5. AgeInv'  BY <1>1, <1>4 DEF HistoryInv, AgeInv
<1>6. ASSUME NEW n, OnDisk(n) PROVE OnDisk(n)'
  <2>1. PICK j \in Files : \E i \in DOMAIN Lines(j) : n \in Lines(j)[i].holds  BY <1>6 DEF OnDisk
  <2>2. CASE j # 0  BY <1>2, <2>1, <2>2, Zenon DEF OnDisk
  <2>3. CASE j = 0  BY <1>2, <2>1, <2>3, Zenon DEF OnDisk
  <2> QED  BY <2>2, <2>3
<1>7. History'  BY <1>1, <1>6, HistoryIs DEF HistoryInv
<1> QED  BY <1>3, <1>5, <1>7 DEF HistoryInv

LEMMA Later ==
    ASSUME NEW n \in Int, NEW c \in Int, NEW l \in Int, NEW ll \in Int, NEW a \in Int, NEW aa \in Int,
           n <= c - l - a, ll = l + 1 \/ ll = l, aa = a \/ aa = a - MaxLines
    PROVE  n <= (c + 1) - ll - aa
OBVIOUS

\* A line written, whole or cut, with or without an interruption.
LEMMA HistoryWritten ==
    ASSUME Base, HistoryInv, proc.pc = "append", proc'.pc \in {"idle", "down"}, count < MaxEvents,
           NEW st \in {"ok", "open", "cut"}, live' = Written(NewLine(st)), count' = count + 1,
           arch' = arch, faults' = faults \/ faults' = faults + 1
    PROVE  HistoryInv'
<1> DEFINE line == NewLine(st)
<1>1. line \in Line /\ line.holds = {count + 1}  BY NewLineIs DEF Base
<1>2. /\ live \in Seq(Line) /\ live' \in Seq(Line) /\ Len(live) \in Nat /\ count \in Nat
      /\ DOMAIN live = 1..Len(live) /\ DOMAIN live' = 1..Len(live') /\ Len(live') \in Nat
      /\ Len(live) <= MaxLines
  BY <1>1, WrittenLines DEF Base, TypeOK
<1>3. /\ \/ Len(live') = Len(live) + 1 \/ Len(live') = Len(live)
      /\ Len(live') \in DOMAIN live' /\ count + 1 \in live'[Len(live')].holds
      /\ \A i \in DOMAIN live : i \in DOMAIN live' /\ live[i].holds \subseteq live'[i].holds
      /\ \A i \in DOMAIN live' : live'[i].holds \subseteq {count + 1} \cup
             (IF i \in DOMAIN live THEN live[i].holds ELSE {})
  <2>1. CASE /\ Len(live') = Len(live) + 1
             /\ \A i \in DOMAIN live : i \in DOMAIN live' /\ live'[i] = live[i]
             /\ live'[Len(live) + 1] = line
    BY <1>1, <1>2, <2>1
  <2>2. CASE /\ live # <<>>
             /\ Len(live') = Len(live)
             /\ \A i \in DOMAIN live : i # Len(live) => live'[i] = live[i]
             /\ live'[Len(live)].holds = line.holds \cup Last(live).holds
    <3>1. Len(live) \in DOMAIN live /\ Last(live) = live[Len(live)]  BY <1>2, <2>2 DEF Last
    <3> QED  BY <1>1, <1>2, <2>2, <3>1
  <2> QED  BY <1>1, <2>1, <2>2, WrittenLines, Zenon DEF Base
<1> HIDE DEF line
<1>4. /\ Lines(0) = live /\ Lines(0)' = live' /\ 0 \in Files
      /\ \A m \in Files : m # 0 => Lines(m)' = Lines(m)
  BY DEF Lines, Files
<1>5. HeldInv'
  <2> SUFFICES ASSUME NEW m \in Files, NEW i \in DOMAIN Lines(m)'
               PROVE  Lines(m)'[i].holds \subseteq 1..(count + 1)
    BY DEF HeldInv
  <2>1. 1..count \subseteq 1..(count + 1) /\ count + 1 \in 1..(count + 1)  BY <1>2
  <2>2. CASE m # 0  BY <1>4, <2>1, <2>2 DEF HistoryInv, HeldInv
  <2>3. CASE m = 0
    <3>1. i \in DOMAIN live => live[i].holds \subseteq 1..count  BY <1>4 DEF HistoryInv, HeldInv
    <3>2. live'[i].holds \subseteq {count + 1} \cup (IF i \in DOMAIN live THEN live[i].holds ELSE {})
      BY <1>3, <1>4, <2>3
    <3> QED  BY <1>4, <2>1, <2>3, <3>1, <3>2
  <2> QED  BY <2>2, <2>3
<1>6. AgeInv'
  <2> SUFFICES ASSUME NEW m \in Archives, NEW i \in DOMAIN arch'[m].lines,
                      NEW n \in arch'[m].lines[i].holds
               PROVE  n <= count' - Newer(m)' - Age(m)'
    BY DEF AgeInv
  <2>1. Newer(m) = Len(live) /\ Newer(m)' = Len(live')  BY DEF Newer, Moved
  <2>2. n <= count - Newer(m) - Age(m)  BY DEF HistoryInv, AgeInv
  <2>3. m \in Int /\ TypeOK  BY DEF Base, Archives
  <2>4. n \in Int  BY <2>3, HeldTypes DEF Events
  <2>5. Age(m) \in Int /\ (Age(m)' = Age(m) \/ Age(m)' = Age(m) - MaxLines)
    BY <2>3, Ages, Aged DEF Age
  <2>6. Len(live') = Len(live) + 1 \/ Len(live') = Len(live)  BY <1>3, Zenon
  <2>7. n <= count - Len(live) - Age(m)  BY <2>1, <2>2
  <2>8. PICK aa \in Int : aa = Age(m)'  BY <2>5
  <2>9. PICK ll \in Nat : ll = Newer(m)' /\ (ll = Len(live) + 1 \/ ll = Len(live))
    BY <1>2, <2>1, <2>6, Zenon
  <2>10. PICK a \in Int : a = Age(m)  BY <2>5
  <2>11. n <= (count + 1) - ll - aa
    <3>1. n <= count - Len(live) - a /\ (aa = a \/ aa = a - MaxLines)  BY <2>5, <2>7, <2>8, <2>10
    <3> QED  BY <1>2, <2>4, <2>9, <3>1, Later
  <2>12. n <= count' - ll - aa  BY <2>11, Zenon
  <2> QED  BY <2>8, <2>9, <2>12, Zenon
<1>7. History'
  <2> SUFFICES ASSUME NEW n \in Events, n <= count',
                      n > count' - (RotateCount - faults') * MaxLines
               PROVE  OnDisk(n)'
    BY HistoryIs
  <2>1. CASE n = count + 1  BY <1>3, <1>4, <2>1, Zenon DEF OnDisk
  <2>2. CASE n # count + 1
    <3>1. /\ (RotateCount - faults) * MaxLines \in Int
          /\ \/ (RotateCount - faults') * MaxLines = (RotateCount - faults) * MaxLines
             \/ (RotateCount - faults') * MaxLines = (RotateCount - faults) * MaxLines - MaxLines
      BY Ages, Aged DEF Base
    <3>2. n <= count /\ n > count - (RotateCount - faults) * MaxLines  BY <1>2, <2>2, <3>1 DEF Events
    <3>3. PICK j \in Files : \E i \in DOMAIN Lines(j) : n \in Lines(j)[i].holds
      BY <3>2, HistoryIs DEF HistoryInv, OnDisk
    <3>4. CASE j # 0  BY <1>4, <3>3, <3>4, Zenon DEF OnDisk
    <3>5. CASE j = 0
      <4>1. \E i \in DOMAIN live' : n \in live'[i].holds  BY <1>3, <1>4, <3>3, <3>5
      <4> QED  BY <1>4, <4>1, Zenon DEF OnDisk
    <3> QED  BY <3>4, <3>5
  <2> QED  BY <2>1, <2>2
<1> QED  BY <1>5, <1>6, <1>7 DEF HistoryInv

LEMMA HistoryInterrupt == ASSUME Base, HistoryInv, Interrupt PROVE HistoryInv'
<1>1. /\ faults' = faults + 1 /\ arch' = arch /\ proc'.pc \in {"idle", "down"}
  BY DEF Base, TypeOK, Interrupt, Goto, Down
<1>2. CASE ~UNCHANGED <<live, count>>
  <2>1. proc.pc = "append" /\ count < MaxEvents /\ count' = count + 1  BY <1>2 DEF Interrupt
  <2>2. PICK st \in {"ok", "open", "cut"} : live' = Written(NewLine(st))  BY <1>2 DEF Interrupt
  <2> QED  BY <1>1, <2>1, <2>2, HistoryWritten
<1>3. CASE UNCHANGED <<live, count>>
  <2>1. \A m \in Files : Lines(m)' = Lines(m)  BY <1>1, <1>3 DEF Lines
  <2>2. HeldInv'  BY <1>3, <2>1 DEF HistoryInv, HeldInv
  <2>3. AgeInv'
    <3> SUFFICES ASSUME NEW m \in Archives, NEW i \in DOMAIN arch[m].lines,
                        NEW n \in arch[m].lines[i].holds
                 PROVE  n <= count - Newer(m)' - Age(m)'
      BY <1>1, <1>3 DEF AgeInv
    <3>1. Newer(m)' = Len(live) /\ Newer(m) \in {0, Len(live)}  BY <1>1, <1>3 DEF Newer, Moved
    <3>2. n <= count - Newer(m) - Age(m)  BY DEF HistoryInv, AgeInv
    <3>3. m \in Int /\ TypeOK  BY DEF Base, Archives
    <3>4. n \in Int /\ Len(live) \in Nat /\ Len(live) <= MaxLines /\ count \in Int
      BY <3>3, HeldTypes DEF Events
    <3>5. Age(m) \in Int /\ Age(m)' = Age(m) - MaxLines  BY <1>1, <3>3, Aged
    <3> QED  BY <3>1, <3>2, <3>4, <3>5
  <2>4. History'
    <3> SUFFICES ASSUME NEW n \in Events, n <= count,
                        n > count - (RotateCount - faults') * MaxLines
                 PROVE  OnDisk(n)'
      BY <1>3, HistoryIs
    <3>1. /\ (RotateCount - faults) * MaxLines \in Int /\ count \in Int
          /\ (RotateCount - faults') * MaxLines = (RotateCount - faults) * MaxLines - MaxLines
      BY <1>1, Ages, Aged, HeldTypes DEF Base
    <3>2. n > count - (RotateCount - faults) * MaxLines  BY <3>1 DEF Events
    <3>3. OnDisk(n)  BY <3>2, HistoryIs DEF HistoryInv
    <3> QED  BY <2>1, <3>3 DEF OnDisk
  <2> QED  BY <2>2, <2>3, <2>4 DEF HistoryInv
<1> QED  BY <1>2, <1>3

LEMMA HistoryStep == ASSUME Base, HistoryInv, [Next]_vars PROVE HistoryInv'
<1>1. CASE Start \/ End
  <2>1. UNCHANGED <<live, arch, count, faults>> /\ proc.pc \in {"idle", "down"} /\ proc'.pc \in {"idle", "down"}
    BY <1>1 DEF Start, End, Down
  <2>2. \A k \in Archives : Moved(k)' <=> Moved(k)  BY <2>1 DEF Moved
  <2> QED  BY <2>1, <2>2, HistoryKept
<1>2. CASE Record
  <2>1. UNCHANGED <<live, arch, count, faults>> /\ proc.pc = "idle"  BY <1>2 DEF Record
  <2>2. proc'.pc = "append" \/ (proc'.pc = "shift" /\ proc'.k = RotateCount - 1)
    BY <1>2 DEF Base, TypeOK, Record, Goto
  <2>3. \A k \in Archives : Moved(k)' <=> Moved(k)  BY <2>1, <2>2 DEF Moved, Archives
  <2> QED  BY <2>1, <2>3, HistoryKept
<1>3. CASE Shift  BY <1>3, HistoryShift
<1>4. CASE Compress  BY <1>4, HistoryCompress
<1>5. CASE Compressed  BY <1>5, HistoryCompressed
<1>6. CASE Truncate  BY <1>6, HistoryTruncate
<1>7. CASE AppendLine
  <2>1. proc.pc = "append" /\ count < MaxEvents /\ proc'.pc = "idle"
    BY <1>7 DEF Base, TypeOK, AppendLine
  <2> QED  BY <1>7, <2>1, HistoryWritten DEF AppendLine
<1>8. CASE Interrupt  BY <1>8, HistoryInterrupt
<1>9. CASE Verify \/ ReadFile \/ ReadPart \/ UNCHANGED vars
  <2>1. UNCHANGED <<live, arch, proc, count, faults>>  BY <1>9 DEF Verify, ReadFile, ReadPart, vars
  <2>2. \A k \in Archives : Moved(k)' <=> Moved(k)  BY <2>1 DEF Moved
  <2> QED  BY <2>1, <2>2, HistoryKept
<1> QED
  BY <1>1, <1>2, <1>3, <1>4, <1>5, <1>6, <1>7, <1>8, <1>9 DEF Next, Step

-----------------------------------------------------------------------------
(* The chain *)

LEMMA KeptTypes ==
    ASSUME TypeOK, NEW k \in Files
    PROVE  /\ Kept(k) \in Seq(Line) /\ Len(Kept(k)) \in Nat /\ DOMAIN Kept(k) = 1..Len(Kept(k))
           /\ Kept(k) # <<>> => 1 \in DOMAIN Kept(k) /\ Len(Kept(k)) \in DOMAIN Kept(k)
           /\ \A i \in DOMAIN Kept(k) : i \in Nat /\ Kept(k)[i].id \in Nat /\ Kept(k)[i].id >= 1
           /\ k \in Int /\ count \in Nat
<1>1. Kept(k) \in Seq(Line)  BY HeldTypes DEF Kept
<1>2. /\ Len(Kept(k)) \in Nat /\ DOMAIN Kept(k) = 1..Len(Kept(k))
      /\ Kept(k) # <<>> => 1 \in DOMAIN Kept(k) /\ Len(Kept(k)) \in DOMAIN Kept(k)
  BY <1>1
<1>3. ASSUME NEW i \in DOMAIN Kept(k) PROVE i \in Nat /\ Kept(k)[i].id \in Nat /\ Kept(k)[i].id >= 1
  <2>1. Kept(k)[i] \in Line /\ i \in Nat  BY <1>1, <1>2
  <2> QED  BY <2>1 DEF Line, Events
<1> QED  BY <1>1, <1>2, <1>3, HeldTypes DEF Files

\* The last line of the newest file that has one is the last event.
LEMMA NewestEnds ==
    ASSUME TypeOK, Listed, NEW k \in Files, Kept(k) # <<>>, \A j \in Files : j < k => Kept(j) = <<>>
    PROVE  Kept(k)[Len(Kept(k))].id = count
<1> DEFINE s == Kept(k)  n == Len(Kept(k))
<1>1. /\ n \in Nat /\ DOMAIN s = 1..n /\ n \in DOMAIN s /\ 1 \in DOMAIN s /\ count \in Nat
      /\ \A i \in DOMAIN s : i \in Nat /\ s[i].id \in Nat /\ s[i].id >= 1
  BY KeptTypes
<1>2. s[n].id <= count /\ \A i \in DOMAIN s : s[i].id = s[1].id + i - 1  BY <1>1 DEF Listed, LineInv
<1>3. PICK j \in Files : \E h \in DOMAIN Kept(j) : Kept(j)[h].id = count
  BY <1>1, <1>2 DEF Listed, EventInv
<1>4. PICK h \in DOMAIN Kept(j) : Kept(j)[h].id = count  BY <1>3
<1>5. j = k
  <2>1. j \in Int /\ k \in Int  BY DEF Files
  <2>2. ~(j < k)  BY <1>4
  <2>3. ASSUME k < j PROVE FALSE
    <3>1. count < s[n].id  BY <1>1, <1>4, <2>3 DEF Listed, OrderInv
    <3> QED  BY <1>1, <1>2, <3>1
  <2> QED  BY <2>1, <2>2, <2>3
<1> HIDE DEF s, n
<1>6. h \in DOMAIN s /\ s[h].id = count  BY <1>4, <1>5 DEF s
<1>7. h \in Nat /\ h <= n /\ s[h].id = s[1].id + h - 1 /\ s[n].id = s[1].id + n - 1 /\ s[1].id \in Nat
  BY <1>1, <1>2, <1>6
<1>8. s[n].id = count  BY <1>1, <1>2, <1>6, <1>7
<1> QED  BY <1>8 DEF s, n

(***************************************************************************)
(* Files that change their numbers in order, none lost but the oldest: g   *)
(* says where the lines of a file were before.                             *)
(***************************************************************************)
LEMMA Renumbered ==
    ASSUME TypeOK, Listed, count' = count, NEW g \in [Files -> Files],
           \A m \in Files : Kept(m)' = <<>> \/ Kept(m)' = Kept(g[m]),
           \A j, m \in Files : j < m /\ Kept(j)' # <<>> /\ Kept(m)' # <<>> => g[j] < g[m],
           \A m \in Files : Kept(m) # <<>> =>
              \/ \E j \in Files : g[j] = m /\ Kept(j)' = Kept(m)
              \/ m # 0 /\ Kept(0) # <<>> /\ \A j \in Files : Kept(j) # <<>> => j <= m
    PROVE  Listed'
<1>1. ASSUME NEW m \in Files, NEW i \in DOMAIN Kept(m)'
      PROVE  g[m] \in Files /\ Kept(m)' = Kept(g[m]) /\ Kept(m)' # <<>> /\ i \in DOMAIN Kept(g[m])
  <2>1. Kept(m)' # <<>>  OBVIOUS
  <2> QED  BY <2>1
<1>2. LineInv'
  <2> SUFFICES ASSUME NEW m \in Files, NEW i \in DOMAIN Kept(m)'
               PROVE  /\ Kept(m)'[i].st = "ok" /\ Kept(m)'[i].id <= count'
                      /\ Kept(m)'[i].prev = Kept(m)'[i].id - 1
                      /\ Kept(m)'[i].id = Kept(m)'[1].id + i - 1
    BY DEF LineInv
  <2> QED  BY <1>1 DEF Listed, LineInv
<1>3. OrderInv'
  <2> SUFFICES ASSUME NEW j \in Files, NEW m \in Files, j < m,
                      NEW i \in DOMAIN Kept(j)', NEW h \in DOMAIN Kept(m)'
               PROVE  Kept(m)'[h].id < Kept(j)'[i].id
    BY DEF OrderInv
  <2>1. /\ g[j] \in Files /\ Kept(j)' = Kept(g[j]) /\ Kept(j)' # <<>> /\ i \in DOMAIN Kept(g[j])
        /\ g[m] \in Files /\ Kept(m)' = Kept(g[m]) /\ Kept(m)' # <<>> /\ h \in DOMAIN Kept(g[m])
    BY <1>1
  <2>2. g[j] < g[m]  BY <2>1
  <2> QED  BY <2>1, <2>2 DEF Listed, OrderInv
<1>4. ASSUME NEW n, NEW a \in Files, NEW x \in DOMAIN Kept(a), Kept(a)[x].id = n,
             NEW b \in Files, NEW y \in DOMAIN Kept(b), Kept(b)[y].id <= n,
             \E j \in Files : g[j] = b /\ Kept(j)' = Kept(b)
      PROVE  \E j \in Files : \E h \in DOMAIN Kept(j)' : Kept(j)'[h].id = n
  <2>1. Kept(a) # <<>> /\ Kept(b) # <<>>  OBVIOUS
  <2>2. ASSUME NEW j \in Files, g[j] = a, Kept(j)' = Kept(a)
        PROVE  \E q \in Files : \E h \in DOMAIN Kept(q)' : Kept(q)'[h].id = n
    <3>1. x \in DOMAIN Kept(j)' /\ Kept(j)'[x].id = n  BY <1>4, <2>2
    <3> QED  BY <3>1
  <2>3. CASE b = a  BY <1>4, <2>2, <2>3
  <2>4. CASE b # a /\ \A j \in Files : Kept(j) # <<>> => j <= a
    <3>1. b < a  BY <2>1, <2>4 DEF Files
    <3>2. Kept(a)[x].id < Kept(b)[y].id  BY <3>1 DEF Listed, OrderInv
    <3>3. Kept(a)[x].id \in Nat /\ Kept(b)[y].id \in Nat  BY KeptTypes
    <3> QED  BY <1>4, <3>2, <3>3
  <2> QED  BY <2>1, <2>2, <2>3, <2>4
<1>5. GaplessInv'
  <2> SUFFICES ASSUME NEW m \in Files, NEW i \in DOMAIN Kept(m)', NEW n \in Kept(m)'[i].id..count
               PROVE  \E j \in Files : \E h \in DOMAIN Kept(j)' : Kept(j)'[h].id = n
    BY DEF GaplessInv
  <2> DEFINE b == g[m]
  <2>1. b \in Files /\ Kept(m)' = Kept(b) /\ i \in DOMAIN Kept(b)  BY <1>1
  <2>2. Kept(b)[i].id \in Nat /\ n \in Int /\ Kept(b)[i].id <= n  BY <2>1, KeptTypes
  <2>3. PICK a \in Files : \E h \in DOMAIN Kept(a) : Kept(a)[h].id = n
    BY <2>1 DEF Listed, GaplessInv
  <2>4. PICK x \in DOMAIN Kept(a) : Kept(a)[x].id = n  BY <2>3
  <2>5. \E j \in Files : g[j] = b /\ Kept(j)' = Kept(b)  BY <2>1
  <2> HIDE DEF b
  <2> QED  BY <1>4, <2>1, <2>2, <2>4, <2>5
<1>6. EventInv'
  <2> SUFFICES ASSUME count > 0
               PROVE  \E j \in Files : \E h \in DOMAIN Kept(j)' : Kept(j)'[h].id = count
    BY DEF EventInv
  <2>1. PICK a \in Files : \E h \in DOMAIN Kept(a) : Kept(a)[h].id = count
    BY DEF Listed, EventInv
  <2>2. PICK x \in DOMAIN Kept(a) : Kept(a)[x].id = count  BY <2>1
  <2>3. CASE \E j \in Files : g[j] = a /\ Kept(j)' = Kept(a)
    <3>1. PICK j \in Files : g[j] = a /\ Kept(j)' = Kept(a)  BY <2>3
    <3>2. x \in DOMAIN Kept(j)' /\ Kept(j)'[x].id = count  BY <2>2, <3>1
    <3> QED  BY <3>2
  <2>4. CASE a # 0 /\ Kept(0) # <<>>
    <3>1. 0 \in Files /\ 0 < a  BY <2>4 DEF Files
    <3>2. 1 \in DOMAIN Kept(0) /\ Kept(0)[1].id \in Nat /\ count \in Nat  BY <2>4, <3>1, KeptTypes
    <3>3. Kept(0)[1].id <= count  BY <3>1, <3>2 DEF Listed, LineInv
    <3>4. count < Kept(0)[1].id  BY <2>2, <3>1, <3>2 DEF Listed, OrderInv
    <3> QED  BY <3>2, <3>3, <3>4
  <2>5. Kept(a) # <<>>  BY <2>2
  <2> QED  BY <2>3, <2>4, <2>5
<1> QED  BY <1>2, <1>3, <1>5, <1>6 DEF Listed

LEMMA SameKept ==
    ASSUME Listed, count' = count, \A m \in Files : Kept(m)' = Kept(m)
    PROVE  Listed'
BY DEF Listed, LineInv, OrderInv, GaplessInv, EventInv

Chained == Listed /\ HashInv /\ TornInv

LEMMA ChainInit == Init => Chained
<1> SUFFICES ASSUME Init PROVE Chained  OBVIOUS
<1>1. \A k \in Files : Kept(k) = <<>>  BY DEF Init, Down, Kept, Lines, Files, NoFile
<1>2. Listed  BY <1>1 DEF Init, Listed, LineInv, OrderInv, GaplessInv, EventInv
<1>3. HashInv /\ TornInv  BY DEF Init, Down, HashInv, TornInv, NoFile, Archives
<1> QED  BY <1>2, <1>3 DEF Chained

\* A whole log is one that _read_last_hash reads the last event of.
LEMMA LastHashIs ==
    ASSUME Base, Chained, proc.pc \notin {"copying", "truncate"}
    PROVE  LastHash = count
<1>1. /\ TypeOK /\ 0 \in Files /\ 1 \in Files
      /\ Kept(0) = live /\ Kept(1) = arch[1].lines /\ 1 \in Archives
  BY DEF Base, Files, Kept, Lines, Archives
<1>2. ASSUME NEW k \in {0, 1}, Kept(k) # <<>>, k = 1 => live = <<>>
      PROVE  Last(Kept(k)).id = count /\ Parses(Last(Kept(k)))
  <2>1. k \in Files /\ \A j \in Files : j < k => Kept(j) = <<>>  BY <1>1, <1>2 DEF Files
  <2>2. Kept(k)[Len(Kept(k))].id = count  BY <1>1, <1>2, <2>1, NewestEnds DEF Chained
  <2>3. Len(Kept(k)) \in DOMAIN Kept(k)  BY <1>1, <1>2, <2>1, KeptTypes
  <2>4. Kept(k)[Len(Kept(k))].st = "ok"  BY <2>1, <2>3 DEF Chained, Listed, LineInv
  <2> QED  BY <2>2, <2>4 DEF Last, Parses
<1>3. CASE live # <<>>
  <2>1. Last(live).id = count /\ Parses(Last(live))  BY <1>1, <1>2, <1>3
  <2> QED  BY <1>3, <2>1 DEF LastHash
<1>4. CASE live = <<>> /\ arch[1].lines # <<>>
  <2>1. Last(arch[1].lines).id = count /\ Parses(Last(arch[1].lines))  BY <1>1, <1>2, <1>4
  <2>2. ~arch[1].torn  BY <1>1 DEF Chained, TornInv
  <2> QED  BY <1>4, <2>1, <2>2 DEF LastHash
<1>5. CASE live = <<>> /\ arch[1].lines = <<>>
  <2>1. count = 0  BY <1>5, HeldTypes DEF Base, Chained, HashInv
  <2> QED  BY <1>5, <2>1 DEF LastHash
<1> QED  BY <1>3, <1>4, <1>5

LEMMA ChainStart == ASSUME Base, Chained, Start PROVE Chained'
<1>1. proc.pc = "down" /\ proc'.pc = "idle" /\ proc'.hash = LastHash /\ UNCHANGED <<live, arch, count>>
  BY DEF Start
<1>2. LastHash = count  BY <1>1, LastHashIs
<1>3. \A m \in Files : Kept(m)' = Kept(m)  BY <1>1 DEF Kept, Lines
<1>4. Listed'  BY <1>1, <1>3, SameKept DEF Chained
<1>5. HashInv' /\ TornInv'  BY <1>1, <1>2 DEF Chained, HashInv, TornInv
<1> QED  BY <1>4, <1>5 DEF Chained

\* Steps of the recorder that leave the files alone and archive nothing.
LEMMA ChainKept ==
    ASSUME Chained, UNCHANGED <<live, arch, count>>,
           proc.pc \notin {"copying", "truncate", "down"}, proc'.pc \notin {"copying", "truncate"},
           proc'.pc = "down" \/ proc'.hash = proc.hash
    PROVE  Chained'
<1>1. \A m \in Files : Kept(m)' = Kept(m)  BY DEF Kept, Lines
<1>2. Listed'  BY <1>1, SameKept DEF Chained
<1>3. HashInv' /\ TornInv'  BY DEF Chained, HashInv, TornInv
<1> QED  BY <1>2, <1>3 DEF Chained

LEMMA ChainShift == ASSUME Base, Chained, Shift PROVE Chained'
<1>0. PICK k \in Int : k = proc.k  BY DEF Base, TypeOK
<1>1. /\ 0 <= k /\ k < RotateCount /\ proc.pc = "shift" /\ Len(live) = MaxLines
      /\ k + 1 < RotateCount => arch[k + 1] = NoFile
      /\ UNCHANGED <<live, count>>
  BY <1>0 DEF Base, TypeOK, Shift, RotateInv, RoomInv, FullInv
<1>2. /\ proc'.pc \in {"shift", "copy"} /\ proc'.hash = proc.hash
      /\ k = 0 => arch' = arch
  BY <1>0 DEF Base, TypeOK, Shift, Goto
<1>3. CASE arch' = arch  BY <1>1, <1>2, <1>3, ChainKept
<1>4. CASE arch' # arch
  <2>1. k # 0 /\ arch' = [arch EXCEPT ![k + 1] = arch[k], ![k] = NoFile]
    BY <1>0, <1>2, <1>4 DEF Shift
  <2>2. /\ k \in Archives /\ k + 1 \in Archives /\ k \in Files /\ k + 1 \in Files /\ 0 \in Files
        /\ TypeOK
    BY <1>1, <2>1 DEF Archives, Files, Base
  <2>3. arch \in [Archives -> Archive]  BY TypesAre DEF Base, Types
  <2>4. /\ arch'[k + 1] = arch[k] /\ arch'[k] = NoFile
        /\ \A m \in Archives : m # k /\ m # k + 1 => arch'[m] = arch[m]
    BY <2>1, <2>2, <2>3
  <2>5. /\ \A m \in Files : Kept(m) = Lines(m) /\ Kept(m)' = Lines(m)'
        /\ Kept(k + 1)' = Kept(k) /\ Kept(k)' = <<>> /\ Kept(0) = live
        /\ \A m \in Files : m # k /\ m # k + 1 => Kept(m)' = Kept(m)
        /\ k + 1 < RotateCount => Kept(k + 1) = <<>>
    <3>1. \A m \in Files : Kept(m) = Lines(m) /\ Kept(m)' = Lines(m)'  BY <1>1, <1>2 DEF Kept
    <3>2. Lines(k + 1)' = Lines(k) /\ Lines(k)' = <<>> /\ Lines(0) = live
      BY <1>1, <2>1, <2>4 DEF Lines, NoFile
    <3>3. \A m \in Files : m # k /\ m # k + 1 => Lines(m)' = Lines(m)
      BY <1>1, <2>4 DEF Lines, Files, Archives
    <3>4. k + 1 < RotateCount => Lines(k + 1) = <<>>  BY <1>1 DEF Lines, NoFile
    <3> QED  BY <2>2, <3>1, <3>2, <3>3, <3>4
  <2>6. live # <<>>  BY <1>1
  <2>7. Listed'
    <3> DEFINE g == [m \in Files |-> IF m = k + 1 THEN k ELSE m]
    <3>1. g \in [Files -> Files]  BY <2>2
    <3>2. \A m \in Files : g[m] = IF m = k + 1 THEN k ELSE m  OBVIOUS
    <3> HIDE DEF g
    <3>3. \A m \in Files : Kept(m)' = <<>> \/ Kept(m)' = Kept(g[m])  BY <2>5, <3>2
    <3>4. ASSUME NEW j \in Files, NEW m \in Files, j < m, Kept(j)' # <<>>, Kept(m)' # <<>>
          PROVE  g[j] < g[m]
      <4>1. j # k /\ m # k /\ j \in Int /\ m \in Int  BY <2>5, <3>4 DEF Files
      <4> QED  BY <3>2, <3>4, <4>1
    <3>5. ASSUME NEW m \in Files, Kept(m) # <<>>
          PROVE  \/ \E j \in Files : g[j] = m /\ Kept(j)' = Kept(m)
                 \/ m # 0 /\ Kept(0) # <<>> /\ \A j \in Files : Kept(j) # <<>> => j <= m
      <4>1. CASE m = k + 1
        <5>1. m = RotateCount  BY <1>1, <2>5, <3>5, <4>1
        <5> QED  BY <2>5, <2>6, <5>1 DEF Files
      <4>2. CASE m = k  BY <2>2, <2>5, <3>2, <4>2
      <4>3. CASE m # k /\ m # k + 1  BY <2>5, <3>2, <4>3
      <4> QED  BY <4>1, <4>2, <4>3
    <3> QED  BY <1>1, <2>2, <3>1, <3>3, <3>4, <3>5, Renumbered DEF Chained
  <2>8. HashInv'  BY <1>1, <1>2, <2>6 DEF Chained, HashInv
  <2>9. TornInv'
    <3>1. \A m \in Archives : ~arch[m].torn  BY <1>1 DEF Chained, TornInv
    <3> QED  BY <2>2, <2>4, <3>1 DEF TornInv, NoFile
  <2> QED  BY <2>7, <2>8, <2>9 DEF Chained
<1> QED  BY <1>3, <1>4

LEMMA ChainCompress == ASSUME Base, Chained, Compress PROVE Chained'
<1>1. /\ proc.pc = "copy" /\ proc'.pc = "copying" /\ proc'.hash = proc.hash
      /\ Len(live) = MaxLines /\ UNCHANGED <<live, count>>
      /\ RotateCount > 1 => arch[1] = NoFile
  BY DEF Base, TypeOK, Compress, Goto, RotateInv, FullInv, RoomInv
<1>2. arch \in [Archives -> Archive] /\ 1 \in Archives  BY TypesAre DEF Base, Types, Archives
<1>3. \A m \in Archives : m # 1 => arch'[m] = arch[m]  BY <1>2 DEF Compress
<1>4. /\ \A m \in Files : m # 1 => Kept(m)' = Kept(m)
      /\ Kept(1)' = <<>> /\ Kept(0) = live
      /\ RotateCount > 1 => Kept(1) = <<>>
  BY <1>1, <1>3 DEF Kept, Lines, Files, Archives, NoFile
<1>5. live # <<>>  BY <1>1
<1>6. Listed'
  <2> DEFINE g == [m \in Files |-> m]
  <2>1. g \in [Files -> Files] /\ \A m \in Files : g[m] = m  OBVIOUS
  <2> HIDE DEF g
  <2>2. ASSUME NEW m \in Files, Kept(m) # <<>>
        PROVE  \/ \E j \in Files : g[j] = m /\ Kept(j)' = Kept(m)
               \/ m # 0 /\ Kept(0) # <<>> /\ \A j \in Files : Kept(j) # <<>> => j <= m
    <3>1. CASE m # 1  BY <1>4, <2>1, <3>1
    <3>2. CASE m = 1
      <4>1. RotateCount = 1  BY <1>4, <2>2, <3>2
      <4> QED  BY <1>4, <1>5, <3>2, <4>1 DEF Files
    <3> QED  BY <3>1, <3>2
  <2>3. \A m \in Files : Kept(m)' = <<>> \/ Kept(m)' = Kept(g[m])  BY <1>4, <2>1
  <2>4. \A j, m \in Files : j < m /\ Kept(j)' # <<>> /\ Kept(m)' # <<>> => g[j] < g[m]  BY <2>1
  <2> QED  BY <1>1, <2>1, <2>2, <2>3, <2>4, Renumbered DEF Chained, Base
<1>7. HashInv'  BY <1>1, <1>5 DEF Chained, HashInv
<1>8. TornInv'  BY <1>1, <1>3 DEF Chained, TornInv
<1> QED  BY <1>6, <1>7, <1>8 DEF Chained

LEMMA ChainCompressed == ASSUME Base, Chained, Compressed PROVE Chained'
<1>1. /\ proc.pc = "copying" /\ proc'.pc = "truncate" /\ proc'.hash = proc.hash
      /\ Len(live) = MaxLines /\ UNCHANGED <<live, count>>
  BY DEF Base, TypeOK, Compressed, Goto, RotateInv, FullInv
<1>2. arch \in [Archives -> Archive] /\ 1 \in Archives  BY TypesAre DEF Base, Types, Archives
<1>3. ~arch'[1].torn /\ \A m \in Archives : m # 1 => arch'[m] = arch[m]  BY <1>2 DEF Compressed
<1>4. \A m \in Files : Kept(m)' = Kept(m)  BY <1>1, <1>3 DEF Kept, Lines, Files, Archives
<1>5. Listed'  BY <1>1, <1>4, SameKept DEF Chained
<1>6. live # <<>>  BY <1>1
<1>7. HashInv'  BY <1>1, <1>6 DEF Chained, HashInv
<1>8. TornInv'  BY <1>1, <1>3 DEF Chained, TornInv
<1> QED  BY <1>5, <1>7, <1>8 DEF Chained

LEMMA ChainTruncate == ASSUME Base, Chained, Truncate PROVE Chained'
<1>1. /\ proc.pc = "truncate" /\ proc'.pc = "append" /\ proc'.hash = proc.hash
      /\ Len(live) = MaxLines /\ live' = <<>> /\ UNCHANGED <<arch, count>> /\ arch[1].lines = live
  BY DEF Base, TypeOK, Truncate, Goto, RotateInv, FullInv, CopyInv
<1>2. /\ 0 \in Files /\ 1 \in Files /\ Kept(0) = live /\ Kept(1) = <<>> /\ Kept(0)' = <<>> /\ Kept(1)' = live
      /\ \A m \in Files : m # 0 /\ m # 1 => Kept(m)' = Kept(m)
  BY <1>1 DEF Kept, Lines, Files
<1>3. live # <<>>  BY <1>1
<1>4. Listed'
  <2> DEFINE g == [m \in Files |-> IF m = 1 THEN 0 ELSE m]
  <2>1. g \in [Files -> Files] /\ \A m \in Files : g[m] = IF m = 1 THEN 0 ELSE m  BY <1>2
  <2> HIDE DEF g
  <2>2. \A m \in Files : Kept(m)' = <<>> \/ Kept(m)' = Kept(g[m])  BY <1>2, <2>1
  <2>3. ASSUME NEW j \in Files, NEW m \in Files, j < m, Kept(j)' # <<>>, Kept(m)' # <<>>
        PROVE  g[j] < g[m]
    <3>1. j # 0 /\ m # 0  BY <1>2, <2>3
    <3> QED  BY <2>1, <2>3, <3>1 DEF Files
  <2>4. ASSUME NEW m \in Files, Kept(m) # <<>>
        PROVE  \E j \in Files : g[j] = m /\ Kept(j)' = Kept(m)
    <3>1. CASE m = 0  BY <1>2, <2>1, <3>1
    <3>2. CASE m # 0  BY <1>2, <2>1, <2>4, <3>2
    <3> QED  BY <3>1, <3>2
  <2> QED  BY <1>1, <2>1, <2>2, <2>3, <2>4, Renumbered DEF Chained, Base
<1>5. HashInv'  BY <1>1, <1>3 DEF Chained, HashInv
<1>6. TornInv'  BY <1>1 DEF Chained, TornInv
<1> QED  BY <1>4, <1>5, <1>6 DEF Chained

\* Appending to a whole log.
LEMMA WholeAppend ==
    ASSUME Base, Chained, proc.pc = "append", NEW line
    PROVE  Written(line) = Append(live, line)
<1>1. TypeOK /\ 0 \in Files /\ Kept(0) = live  BY DEF Base, Files, Kept, Lines
<1>2. ASSUME live # <<>> PROVE ~Unfinished(Last(live))
  <2>1. Len(live) \in DOMAIN live  BY <1>1, <1>2, KeptTypes
  <2>2. live[Len(live)].st = "ok"  BY <1>1, <2>1 DEF Chained, Listed, LineInv
  <2> QED  BY <2>2 DEF Last, Unfinished
<1> QED  BY <1>2, Zenon DEF Written

LEMMA ChainAppend ==
    ASSUME Base, Chained, proc.pc = "append", count < MaxEvents, count' = count + 1,
           arch' = arch, live' = Written(NewLine("ok")),
           proc'.pc = "down" \/ (proc'.pc = "idle" /\ proc'.hash = count')
    PROVE  Chained'
<1> DEFINE line == NewLine("ok")
<1>1. /\ proc.pc = "append" /\ count' = count + 1 /\ count < MaxEvents /\ arch' = arch
      /\ live' = Written(line) /\ proc'.pc \in {"idle", "down"}
      /\ proc'.pc # "down" => proc'.hash = count'
  OBVIOUS
<1>2. /\ line \in Line /\ line.id = count + 1 /\ line.prev = count /\ line.st = "ok"
  BY <1>1, NewLineIs DEF Base, Chained, HashInv
<1>3. live' = Append(live, line)  BY <1>1, WholeAppend
<1> HIDE DEF line
<1>4. TypeOK /\ 0 \in Files /\ Kept(0) = live /\ Kept(0)' = live'
  BY <1>1 DEF Base, Files, Kept, Lines
<1>5. \A m \in Files : m # 0 => Kept(m)' = Kept(m)  BY <1>1 DEF Kept, Lines
<1>6. live \in Seq(Line) /\ Len(live) \in Nat /\ DOMAIN live = 1..Len(live) /\ count \in Nat
  BY <1>4, HeldTypes DEF TypeOK
<1>7. PICK l \in Nat : l = Len(live)  BY <1>6
<1>8. /\ DOMAIN live' = 1..(l + 1) /\ live' # <<>> /\ l + 1 \in DOMAIN live'
      /\ live'[l + 1] = line /\ \A i \in 1..l : live'[i] = live[i] /\ i \in DOMAIN live'
      /\ \A i \in DOMAIN live' : i = l + 1 \/ i \in 1..l
  BY <1>2, <1>3, <1>6, <1>7
<1>9. DOMAIN live = 1..l  BY <1>6, <1>7
<1>10. /\ \A i \in 1..l : live[i].st = "ok" /\ live[i].id <= count /\ live[i].prev = live[i].id - 1
       /\ \A i \in 1..l : live[i].id = live[1].id + i - 1 /\ live[i].id \in Nat
  BY <1>4, <1>9, KeptTypes DEF Chained, Listed, LineInv
<1>11. ASSUME l # 0 PROVE live[l].id = count /\ 1 \in 1..l /\ l \in 1..l
  <2>1. live # <<>> /\ 1 \in 1..l /\ l \in 1..l  BY <1>6, <1>7, <1>11
  <2>2. \A j \in Files : j < 0 => Kept(j) = <<>>  BY DEF Files
  <2> QED  BY <1>4, <1>7, <2>1, <2>2, NewestEnds DEF Chained
<1>12. LineInv'
  <2> SUFFICES ASSUME NEW m \in Files, NEW i \in DOMAIN Kept(m)'
               PROVE  /\ Kept(m)'[i].st = "ok" /\ Kept(m)'[i].id <= count + 1
                      /\ Kept(m)'[i].prev = Kept(m)'[i].id - 1
                      /\ Kept(m)'[i].id = Kept(m)'[1].id + i - 1
    BY <1>1 DEF LineInv
  <2>1. CASE m # 0
    <3>1. Kept(m)' = Kept(m) /\ i \in DOMAIN Kept(m)  BY <1>5, <2>1
    <3>2. Kept(m)[i].id \in Nat  BY <1>4, <3>1, KeptTypes
    <3>3. /\ Kept(m)[i].st = "ok" /\ Kept(m)[i].id <= count /\ Kept(m)[i].prev = Kept(m)[i].id - 1
          /\ Kept(m)[i].id = Kept(m)[1].id + i - 1
      BY <3>1 DEF Chained, Listed, LineInv
    <3>4. Kept(m)[i].id <= count + 1  BY <1>6, <3>2, <3>3
    <3> QED  BY <3>1, <3>3, <3>4
  <2>2. CASE m = 0
    <3>1. Kept(m)' = live' /\ i \in DOMAIN live'  BY <1>4, <2>2
    <3>2. CASE i \in 1..l
      <4>1. 1 \in 1..l /\ live'[i] = live[i] /\ live'[1] = live[1]  BY <1>8, <3>2
      <4>2. live[i].id <= count + 1  BY <1>6, <1>10, <3>2
      <4> QED  BY <1>10, <3>1, <3>2, <4>1, <4>2
    <3>3. CASE i = l + 1
      <4>1. live'[i] = line  BY <1>8, <3>3
      <4>2. line.id = live'[1].id + i - 1
        <5>1. CASE l = 0  BY <1>2, <1>6, <3>3, <4>1, <5>1
        <5>2. CASE l # 0
          <6>1. live'[1] = live[1] /\ live[l].id = live[1].id + l - 1 /\ live[1].id \in Nat /\ live[l].id = count
            BY <1>8, <1>10, <1>11, <5>2
          <6>2. PICK b \in Nat : b = live[1].id  BY <6>1
          <6>3. live'[1].id = b /\ b + l - 1 = count  BY <6>1, <6>2
          <6> QED  BY <1>2, <1>6, <3>3, <6>3
        <5> QED  BY <5>1, <5>2
      <4> QED  BY <1>2, <1>6, <3>1, <4>1, <4>2
    <3> QED  BY <1>8, <3>1, <3>2, <3>3
  <2> QED  BY <2>1, <2>2
<1>13. OrderInv'
  <2> SUFFICES ASSUME NEW j \in Files, NEW m \in Files, j < m,
                      NEW i \in DOMAIN Kept(j)', NEW h \in DOMAIN Kept(m)'
               PROVE  Kept(m)'[h].id < Kept(j)'[i].id
    BY DEF OrderInv
  <2>1. m # 0  BY DEF Files
  <2>2. Kept(m)' = Kept(m) /\ h \in DOMAIN Kept(m)  BY <1>5, <2>1
  <2>3. Kept(m)[h].id \in Nat /\ Kept(m)[h].id <= count
    BY <1>4, <2>2, KeptTypes DEF Chained, Listed, LineInv
  <2>4. CASE j # 0  BY <1>5, <2>2, <2>4 DEF Chained, Listed, OrderInv
  <2>5. CASE j = 0
    <3>1. CASE i = l + 1
      <4>1. Kept(j)'[i].id = count + 1  BY <1>2, <1>4, <1>8, <2>5, <3>1
      <4> QED  BY <1>6, <2>2, <2>3, <4>1
    <3>2. CASE i \in 1..l
      <4>1. i \in DOMAIN Kept(j) /\ Kept(j)'[i] = Kept(j)[i]  BY <1>4, <1>8, <1>9, <2>5, <3>2
      <4> QED  BY <2>2, <4>1 DEF Chained, Listed, OrderInv
    <3> QED  BY <1>4, <1>8, <2>5, <3>1, <3>2
  <2> QED  BY <2>4, <2>5
<1>14. \E j \in Files : \E h \in DOMAIN Kept(j)' : Kept(j)'[h].id = count + 1
  <2>1. l + 1 \in DOMAIN Kept(0)' /\ Kept(0)'[l + 1].id = count + 1  BY <1>2, <1>4, <1>8
  <2> QED  BY <1>4, <2>1
<1>15. GaplessInv'
  <2> SUFFICES ASSUME NEW m \in Files, NEW i \in DOMAIN Kept(m)', NEW n \in Kept(m)'[i].id..(count + 1)
               PROVE  \E j \in Files : \E h \in DOMAIN Kept(j)' : Kept(j)'[h].id = n
    BY <1>1 DEF GaplessInv
  <2>1. CASE n = count + 1  BY <1>14, <2>1
  <2>2. CASE n # count + 1
    <3>1. i \in DOMAIN Kept(m) /\ Kept(m)'[i] = Kept(m)[i]
      <4>1. CASE m # 0  BY <1>5, <4>1
      <4>2. CASE m = 0 /\ i \in 1..l  BY <1>4, <1>8, <1>9, <4>2
      <4>3. CASE m = 0 /\ i = l + 1
        <5>1. Kept(m)'[i].id = count + 1  BY <1>2, <1>4, <1>8, <4>3
        <5> QED  BY <1>6, <2>2, <5>1
      <4> QED  BY <1>4, <1>8, <4>1, <4>2, <4>3
    <3>2. Kept(m)[i].id \in Nat  BY <1>4, <3>1, KeptTypes
    <3>3. n \in Kept(m)[i].id..count  BY <1>6, <2>2, <3>1, <3>2
    <3>4. PICK j \in Files : \E h \in DOMAIN Kept(j) : Kept(j)[h].id = n
      BY <3>1, <3>3 DEF Chained, Listed, GaplessInv
    <3>5. PICK h \in DOMAIN Kept(j) : Kept(j)[h].id = n  BY <3>4
    <3>6. h \in DOMAIN Kept(j)' /\ Kept(j)'[h] = Kept(j)[h]
      <4>1. CASE j # 0  BY <1>5, <4>1
      <4>2. CASE j = 0  BY <1>4, <1>8, <1>9, <4>2
      <4> QED  BY <4>1, <4>2
    <3> QED  BY <3>5, <3>6
  <2> QED  BY <2>1, <2>2
<1>16. EventInv'  BY <1>1, <1>14 DEF EventInv
<1>17. HashInv'  BY <1>1, <1>8 DEF HashInv
<1>18. TornInv'  BY <1>1 DEF Chained, TornInv
<1> QED  BY <1>12, <1>13, <1>15, <1>16, <1>17, <1>18 DEF Chained, Listed

\* What an interruption that spoils nothing leaves: the log as it was, or a whole
\* line and no process.
LEMMA HarmlessInterrupt ==
    ASSUME Base, Interrupt, ~spoilt'
    PROVE  /\ UNCHANGED <<arch, reader>> /\ ~spoilt
           /\ proc.pc \in {"shift", "copy", "append"} /\ proc'.pc \in {"idle", "down"}
           /\ proc'.pc = "down" \/ proc'.hash = proc.hash
           /\ \/ UNCHANGED <<live, count>>
              \/ /\ proc.pc = "append" /\ count < MaxEvents /\ count' = count + 1
                 /\ live' = Written(NewLine("ok")) /\ proc'.pc = "down"
<1>1. PICK dies \in BOOLEAN :
        /\ IF dies THEN proc' = Down ELSE Goto("idle")
        /\ \/ /\ spoilt' = (spoilt \/ proc.pc \in {"copying", "truncate"})
              /\ UNCHANGED <<live, count>>
           \/ /\ proc.pc = "append" /\ count < MaxEvents
              /\ count' = count + 1
              /\ \E st \in {"ok", "open", "cut"} :
                   /\ live' = Written(NewLine(st))
                   /\ spoilt' = (spoilt \/ st # "ok" \/ ~dies)
  BY DEF Interrupt
<1>2. UNCHANGED <<arch, reader>> /\ proc.pc \notin {"down", "idle"}  BY DEF Interrupt
<1>3. ~spoilt /\ proc.pc \in {"shift", "copy", "append"}  BY <1>1, <1>2 DEF Base, TypeOK
<1>4. /\ proc'.pc \in {"idle", "down"} /\ (proc'.pc = "down" \/ proc'.hash = proc.hash)
      /\ dies => proc'.pc = "down"
  BY <1>1 DEF Base, TypeOK, Goto, Down
<1>5. \/ UNCHANGED <<live, count>>
      \/ /\ proc.pc = "append" /\ count < MaxEvents /\ count' = count + 1
         /\ live' = Written(NewLine("ok")) /\ dies
  BY <1>1
<1> QED  BY <1>2, <1>3, <1>4, <1>5

LEMMA ChainStep == ASSUME Base, ChainInv, [Next]_vars PROVE ChainInv'
<1> SUFFICES ASSUME ~spoilt' PROVE Chained'  BY DEF ChainInv, Chained
<1>1. ~spoilt
  BY DEF Next, Step, Start, Record, Shift, Compress, Compressed, Truncate, AppendLine, Interrupt,
         End, Verify, ReadFile, ReadPart, vars
<1>2. Chained  BY <1>1 DEF ChainInv, Chained
<1>3. CASE Start  BY <1>2, <1>3, ChainStart
<1>4. CASE Record \/ End
  <2>1. /\ UNCHANGED <<live, arch, count>> /\ proc.pc = "idle"
        /\ proc'.pc \in {"shift", "append", "down"} /\ (proc'.pc = "down" \/ proc'.hash = proc.hash)
    <3>1. CASE Record  BY <3>1 DEF Base, TypeOK, Record, Goto
    <3>2. CASE End  BY <3>2 DEF End, Down
    <3> QED  BY <1>4, <3>1, <3>2
  <2> QED  BY <1>2, <2>1, ChainKept
<1>5. CASE Shift  BY <1>2, <1>5, ChainShift
<1>6. CASE Compress  BY <1>2, <1>6, ChainCompress
<1>7. CASE Compressed  BY <1>2, <1>7, ChainCompressed
<1>8. CASE Truncate  BY <1>2, <1>8, ChainTruncate
<1>9. CASE AppendLine
  <2>1. proc'.pc = "idle" /\ proc'.hash = count'  BY <1>9 DEF AppendLine, Base, TypeOK
  <2> QED  BY <1>2, <1>9, <2>1, ChainAppend DEF AppendLine
<1>10. CASE Interrupt
  <2>1. CASE UNCHANGED <<live, count>>  BY <1>2, <1>10, <2>1, HarmlessInterrupt, ChainKept
  <2>2. CASE ~UNCHANGED <<live, count>>
    <3>1. /\ proc.pc = "append" /\ count < MaxEvents /\ count' = count + 1 /\ arch' = arch
          /\ live' = Written(NewLine("ok")) /\ proc'.pc = "down"
      BY <1>2, <1>10, <2>2, HarmlessInterrupt
    <3>2. proc'.pc = "down" \/ (proc'.pc = "idle" /\ proc'.hash = count')  BY <3>1, Zenon
    <3> QED  BY <1>2, <3>1, <3>2, ChainAppend
  <2> QED  BY <2>1, <2>2
<1>11. CASE Verify \/ ReadFile \/ ReadPart \/ UNCHANGED vars
  <2>1. UNCHANGED <<live, arch, proc, count>>  BY <1>11 DEF Verify, ReadFile, ReadPart, vars
  <2>2. \A m \in Files : Kept(m)' = Kept(m)  BY <2>1 DEF Kept, Lines
  <2>3. Listed'  BY <1>2, <2>1, <2>2, SameKept DEF Chained
  <2>4. HashInv' /\ TornInv'  BY <1>2, <2>1 DEF Chained, HashInv, TornInv
  <2> QED  BY <2>3, <2>4 DEF Chained
<1> QED
  BY <1>3, <1>4, <1>5, <1>6, <1>7, <1>8, <1>9, <1>10, <1>11 DEF Next, Step

-----------------------------------------------------------------------------
(* The verification *)

LEMMA ReaderInit == Init => ReaderInv /\ VerdictTrue
BY DEF Init, NoReader, ReaderInv, VerdictTrue

\* Steps that leave the reader and the files alone.
LEMMA ReaderKept ==
    ASSUME ReaderInv, VerdictTrue, UNCHANGED <<live, arch, reader, count>>, spoilt' = spoilt,
           proc'.pc \in {"down", "idle", "append", "shift"}
    PROVE  ReaderInv' /\ VerdictTrue'
<1>1. \A m \in Files : Lines(m)' = Lines(m)  BY DEF Lines
<1>2. reader.todo # {} => \A m \in reader.todo : Lines(m)' = Lines(m)  BY DEF Lines
<1> QED  BY <1>1, <1>2 DEF ReaderInv, VerdictTrue

LEMMA ReaderAppend ==
    ASSUME Base, Chained, ReaderInv, VerdictTrue, ~spoilt, spoilt' = spoilt,
           proc.pc = "append", count < MaxEvents, count' = count + 1, UNCHANGED <<arch, reader>>,
           live' = Written(NewLine("ok")), proc'.pc \in {"idle", "down"}
    PROVE  ReaderInv' /\ VerdictTrue'
<1>1. /\ proc.pc = "append" /\ proc'.pc \in {"idle", "down"}
      /\ count' = count + 1 /\ count < MaxEvents
      /\ UNCHANGED <<arch, reader, spoilt>> /\ live' = Written(NewLine("ok"))
  OBVIOUS
<1>2. NewLine("ok") \in Line /\ NewLine("ok").id = count + 1  BY <1>1, NewLineIs DEF Base
<1>3. live \in Seq(Line) /\ live' = Append(live, NewLine("ok")) /\ count \in Nat
  BY <1>1, WholeAppend DEF Base, TypeOK
<1>4. PICK l \in Nat : l = Len(live) /\ DOMAIN live = 1..l  BY <1>3
<1>5. /\ DOMAIN live' = 1..(l + 1) /\ l + 1 \in DOMAIN live' /\ live'[l + 1].id = count + 1
      /\ \A i \in 1..l : live'[i] = live[i] /\ i \in DOMAIN live'
      /\ \A i \in DOMAIN live' : i = l + 1 \/ i \in 1..l
  BY <1>2, <1>3, <1>4
<1>6. Lines(0) = live /\ Lines(0)' = live' /\ \A m : m # 0 => Lines(m)' = Lines(m)
  BY <1>1 DEF Lines
<1>7. VerdictTrue'  BY <1>1 DEF VerdictTrue
<1>8. ReaderInv'
  <2> SUFFICES ASSUME ~reader.raced, reader.todo # {}
               PROVE  /\ 0 \in reader.todo
                      /\ \A k \in reader.todo \ {0} : arch[k].here
                      /\ \A k \in reader.todo : \A j \in Archives :
                           j < k /\ arch[j].here => j \in reader.todo
                      /\ ~reader.first =>
                           /\ reader.last <= count + 1
                           /\ \A k \in reader.todo : \A i \in DOMAIN Lines(k)' :
                                reader.last < Lines(k)'[i].id
                           /\ \A n \in reader.last + 1..(count + 1) : \E k \in reader.todo :
                                \E i \in DOMAIN Lines(k)' : Lines(k)'[i].id = n
    BY <1>1 DEF ReaderInv
  <2>1. /\ 0 \in reader.todo
        /\ \A k \in reader.todo \ {0} : arch[k].here
        /\ \A k \in reader.todo : \A j \in Archives : j < k /\ arch[j].here => j \in reader.todo
    BY DEF ReaderInv
  <2>2. reader.last \in Nat  BY DEF Base, TypeOK
  <2>3. ASSUME ~reader.first
        PROVE  /\ reader.last <= count + 1
               /\ \A k \in reader.todo : \A i \in DOMAIN Lines(k)' : reader.last < Lines(k)'[i].id
               /\ \A n \in reader.last + 1..(count + 1) :
                    \E k \in reader.todo : \E i \in DOMAIN Lines(k)' : Lines(k)'[i].id = n
    <3>1. /\ reader.last <= count
          /\ \A k \in reader.todo : \A i \in DOMAIN Lines(k) : reader.last < Lines(k)[i].id
          /\ \A n \in reader.last + 1..count :
               \E k \in reader.todo : \E i \in DOMAIN Lines(k) : Lines(k)[i].id = n
      BY <2>3 DEF ReaderInv
    <3>2. reader.last < count + 1  BY <1>3, <2>2, <3>1
    <3>3. ASSUME NEW k \in reader.todo, NEW i \in DOMAIN Lines(k)'
          PROVE  reader.last < Lines(k)'[i].id
      <4>1. CASE k # 0  BY <1>6, <3>1, <4>1
      <4>2. CASE k = 0 /\ i \in 1..l  BY <1>4, <1>5, <1>6, <3>1, <4>2
      <4>3. CASE k = 0 /\ i = l + 1  BY <1>5, <1>6, <3>2, <4>3
      <4> QED  BY <1>5, <1>6, <4>1, <4>2, <4>3
    <3>4. ASSUME NEW n \in reader.last + 1..(count + 1)
          PROVE  \E k \in reader.todo : \E i \in DOMAIN Lines(k)' : Lines(k)'[i].id = n
      <4>1. CASE n = count + 1  BY <1>5, <1>6, <2>1, <4>1
      <4>2. CASE n # count + 1
        <5>1. n \in reader.last + 1..count  BY <1>3, <2>2, <4>2
        <5>2. PICK k \in reader.todo : \E i \in DOMAIN Lines(k) : Lines(k)[i].id = n  BY <3>1, <5>1
        <5>3. CASE k # 0  BY <1>6, <5>2, <5>3
        <5>4. CASE k = 0  BY <1>4, <1>5, <1>6, <2>1, <5>2, <5>4
        <5> QED  BY <5>3, <5>4
      <4> QED  BY <4>1, <4>2
    <3>5. reader.last <= count + 1  BY <1>3, <2>2, <3>2
    <3> QED  BY <3>3, <3>4, <3>5
  <2> QED  BY <2>1, <2>3
<1> QED  BY <1>7, <1>8

LEMMA ReaderVerify == ASSUME Base, Verify PROVE ReaderInv' /\ VerdictTrue'
<1>1. /\ UNCHANGED <<live, arch, proc, count, spoilt>>
      /\ reader' = [todo |-> Sources, last |-> 0, first |-> TRUE, bad |-> FALSE, raced |-> ~Quiet]
  BY DEF Verify, NoReader
<1>2. /\ reader'.todo = Sources /\ reader'.first = TRUE /\ reader'.bad = FALSE
      /\ reader'.raced = ~Quiet
  BY <1>1
<1>3. VerdictTrue'  BY <1>2, Zenon DEF VerdictTrue
<1>4. ASSUME ~reader'.raced PROVE proc'.pc \in {"down", "idle"}
  <2>1. Quiet  BY <1>2, <1>4
  <2> QED  BY <1>1, <2>1 DEF Quiet
<1>5. /\ 0 \in Sources
      /\ \A k \in Sources \ {0} : arch[k].here
      /\ \A j \in Archives : arch[j].here => j \in Sources
  BY DEF Sources, Archives
<1>6. ReaderInv'  BY <1>1, <1>2, <1>4, <1>5 DEF ReaderInv
<1> QED  BY <1>3, <1>6

LEMMA ReaderRead ==
    ASSUME Base, Chained, ReaderInv, VerdictTrue, ReadFile, ~spoilt, ~reader.raced
    PROVE  ReaderInv' /\ VerdictTrue'
<1>0. TypeOK /\ reader.todo \in SUBSET Files /\ reader.todo # {} /\ ~reader.bad
  BY DEF Base, TypeOK, ReadFile, VerdictTrue
<1>1. PICK k \in reader.todo : k = Oldest(reader.todo) /\ \A j \in reader.todo : j <= k
  BY <1>0, OldestIs
<1>2. UNCHANGED <<live, arch, proc, count, spoilt>>  BY DEF ReadFile
<1>3. /\ proc.pc \in {"down", "idle", "append", "shift"}
      /\ 0 \in reader.todo
      /\ \A m \in reader.todo \ {0} : arch[m].here
      /\ \A m \in reader.todo : \A j \in Archives : j < m /\ arch[j].here => j \in reader.todo
      /\ ~reader.first =>
           /\ reader.last <= count
           /\ \A m \in reader.todo : \A i \in DOMAIN Lines(m) : reader.last < Lines(m)[i].id
           /\ \A n \in reader.last + 1..count :
                \E m \in reader.todo : \E i \in DOMAIN Lines(m) : Lines(m)[i].id = n
  BY <1>0 DEF ReaderInv
<1>4. \A m \in Files : Kept(m) = Lines(m) /\ Lines(m)' = Lines(m)  BY <1>2, <1>3 DEF Kept, Lines
<1>5. k \in Files /\ k \in Int /\ Kept(k) = Lines(k)  BY <1>0, <1>4 DEF Files
<1> DEFINE file == IF k = 0 THEN [here |-> TRUE, lines |-> live, torn |-> FALSE] ELSE arch[k]
           s == Lines(k)
<1>6. file.lines = s /\ file.here /\ ~file.torn
  <2>1. CASE k = 0  BY <2>1 DEF Lines
  <2>2. CASE k # 0
    <3>1. k \in Archives  BY <1>5, <2>2 DEF Files, Archives
    <3>2. ~arch[k].torn  BY <1>3, <3>1 DEF Chained, TornInv
    <3> QED  BY <1>3, <2>2, <3>2 DEF Lines
  <2> QED  BY <2>1, <2>2
<1>7. reader' = [todo |-> reader.todo \ {k},
                 last |-> IF file.lines = <<>> THEN reader.last ELSE Last(file.lines).id,
                 first |-> reader.first /\ file.lines = <<>>,
                 bad |-> \/ reader.bad
                         \/ ~file.here \/ file.torn
                         \/ BadAfter(file.lines, reader.last, reader.first),
                 raced |-> reader.raced]
  BY <1>1 DEF ReadFile
<1> HIDE DEF file
<1>8. /\ s \in Seq(Line) /\ Len(s) \in Nat /\ DOMAIN s = 1..Len(s) /\ count \in Nat
      /\ s # <<>> => 1 \in DOMAIN s /\ Len(s) \in DOMAIN s
      /\ \A i \in DOMAIN s : i \in Nat /\ s[i].id \in Nat
  BY <1>0, <1>5, KeptTypes
<1>9. \A i \in DOMAIN s : /\ s[i].st = "ok" /\ s[i].id <= count /\ s[i].prev = s[i].id - 1
                          /\ s[i].id = s[1].id + i - 1
  BY <1>5 DEF Chained, Listed, LineInv
<1>10. reader.last \in Nat  BY <1>0 DEF TypeOK
<1>11. ASSUME ~reader.first, s # <<>> PROVE s[1].id = reader.last + 1
  <2> DEFINE n == reader.last + 1
  <2>1. 1 \in DOMAIN s /\ s[1].id \in Nat /\ s[1].id <= count /\ reader.last < s[1].id
    BY <1>3, <1>8, <1>9, <1>11
  <2>2. n \in reader.last + 1..count  BY <1>8, <1>10, <2>1
  <2>3. PICK m \in reader.todo : \E i \in DOMAIN Lines(m) : Lines(m)[i].id = n
    BY <1>3, <1>11, <2>2
  <2>4. PICK i \in DOMAIN Lines(m) : Lines(m)[i].id = n  BY <2>3
  <2>5. m \in Files /\ m \in Int /\ m <= k  BY <1>0, <1>1 DEF Files
  <2>6. CASE m < k
    <3>1. s[1].id < n
      BY <1>4, <1>5, <2>1, <2>4, <2>5, <2>6 DEF Chained, Listed, OrderInv
    <3> QED  BY <1>10, <2>1, <3>1
  <2>7. CASE m = k
    <3>1. i \in DOMAIN s /\ s[i].id = n  BY <2>4, <2>7
    <3>2. i \in Nat /\ i >= 1 /\ n = s[1].id + i - 1  BY <1>8, <1>9, <3>1
    <3> QED  BY <1>10, <2>1, <3>2
  <2> QED  BY <1>5, <2>5, <2>6, <2>7
<1>12. ~BadAfter(s, reader.last, reader.first)
  <2> SUFFICES ASSUME NEW i \in DOMAIN s
               PROVE  /\ Parses(s[i])
                      /\ i > 1 => s[i].prev = s[i - 1].id
                      /\ ~(i > 1) /\ ~reader.first => s[1].prev = reader.last
    BY DEF BadAfter
  <2>1. Parses(s[i])  BY <1>9 DEF Parses
  <2>2. ASSUME i > 1 PROVE s[i].prev = s[i - 1].id
    <3>1. i - 1 \in DOMAIN s /\ 1 \in DOMAIN s  BY <1>8, <2>2
    <3>2. s[i].prev = s[i].id - 1 /\ s[i].id = s[1].id + i - 1 /\ s[1].id \in Nat /\ i \in Nat
      BY <1>8, <1>9, <3>1
    <3>3. s[i - 1].id = s[1].id + (i - 1) - 1  BY <1>9, <3>1
    <3> QED  BY <3>2, <3>3
  <2>3. ASSUME ~reader.first PROVE s[1].prev = reader.last
    <3>1. s # <<>> /\ 1 \in DOMAIN s  BY <1>8
    <3>2. s[1].id = reader.last + 1 /\ s[1].prev = s[1].id - 1  BY <1>9, <1>11, <2>3, <3>1
    <3> QED  BY <1>10, <3>2
  <2> QED  BY <2>1, <2>2, <2>3
<1>13. /\ reader'.todo = reader.todo \ {k} /\ ~reader'.bad /\ ~reader'.raced
       /\ s = <<>> => reader'.last = reader.last /\ reader'.first = reader.first
       /\ s # <<>> => reader'.last = s[Len(s)].id /\ reader'.first = FALSE
  <2>1. reader.first \in BOOLEAN  BY <1>0 DEF TypeOK
  <2> HIDE DEF s
  <2> QED  BY <1>0, <1>6, <1>7, <1>12, <2>1 DEF Last
<1>14. VerdictTrue'  BY <1>13 DEF VerdictTrue
<1>15. ASSUME s = <<>>, ~reader.first
       PROVE  /\ reader.last <= count
              /\ \A m \in reader.todo \ {k} : \A i \in DOMAIN Lines(m) : reader.last < Lines(m)[i].id
              /\ \A n \in reader.last + 1..count :
                   \E m \in reader.todo \ {k} : \E i \in DOMAIN Lines(m) : Lines(m)[i].id = n
  <2>1. ASSUME NEW n \in reader.last + 1..count
        PROVE  \E m \in reader.todo \ {k} : \E i \in DOMAIN Lines(m) : Lines(m)[i].id = n
    <3>1. PICK m \in reader.todo : \E i \in DOMAIN Lines(m) : Lines(m)[i].id = n  BY <1>3, <1>15
    <3>2. m # k  BY <1>15, <3>1
    <3> QED  BY <3>1, <3>2
  <2> QED  BY <1>3, <1>15, <2>1
<1>16. ASSUME s # <<>>
       PROVE  LET last == s[Len(s)].id IN
              /\ last <= count
              /\ \A m \in reader.todo \ {k} : \A i \in DOMAIN Lines(m) : last < Lines(m)[i].id
              /\ \A n \in last + 1..count :
                   \E m \in reader.todo \ {k} : \E i \in DOMAIN Lines(m) : Lines(m)[i].id = n
  <2>1. Len(s) \in DOMAIN s /\ 1 \in DOMAIN s /\ s[1].id \in Nat  BY <1>8, <1>16
  <2>2. PICK last \in Nat : last = s[Len(s)].id /\ last = s[1].id + Len(s) - 1 /\ last <= count
    BY <1>8, <1>9, <2>1
  <2>3. ASSUME NEW m \in reader.todo \ {k}, NEW i \in DOMAIN Lines(m) PROVE last < Lines(m)[i].id
    <3>1. m \in Files /\ m < k  BY <1>0, <1>1, <1>5 DEF Files
    <3> QED  BY <1>4, <1>5, <2>1, <2>2, <3>1 DEF Chained, Listed, OrderInv
  <2>4. ASSUME NEW n \in last + 1..count
        PROVE  \E m \in reader.todo \ {k} : \E i \in DOMAIN Lines(m) : Lines(m)[i].id = n
    <3>1. n \in last..count /\ n \in Nat /\ n > last  BY <1>8, <2>2
    <3>2. PICK m \in Files : \E i \in DOMAIN Lines(m) : Lines(m)[i].id = n
      BY <1>4, <1>5, <2>1, <2>2, <3>1 DEF Chained, Listed, GaplessInv
    <3>3. PICK i \in DOMAIN Lines(m) : Lines(m)[i].id = n  BY <3>2
    <3>4. m < k
      <4> SUFFICES ASSUME ~(m < k) PROVE FALSE  OBVIOUS
      <4>1. m = k \/ k < m  BY <1>5 DEF Files
      <4>2. CASE m = k
        <5>1. i \in Nat /\ i <= Len(s) /\ n = s[1].id + i - 1  BY <1>8, <1>9, <3>3, <4>2
        <5> QED  BY <1>8, <2>1, <2>2, <3>1, <5>1
      <4>3. CASE k < m
        <5>1. n < last  BY <1>4, <1>5, <2>1, <2>2, <3>3, <4>3 DEF Chained, Listed, OrderInv
        <5> QED  BY <2>2, <3>1, <5>1
      <4> QED  BY <4>1, <4>2, <4>3
    <3>5. m \in reader.todo
      <4>1. CASE m = 0  BY <1>3, <4>1
      <4>2. CASE m # 0
        <5>1. m \in Archives  BY <4>2 DEF Files, Archives
        <5>2. arch[m].here
          BY <3>3, <4>2, <5>1 DEF Base, RotateInv, RoomInv, Lines, NoFile
        <5> QED  BY <1>3, <3>4, <5>1, <5>2
      <4> QED  BY <4>1, <4>2
    <3>6. m # k  BY <1>5, <3>4
    <3> QED  BY <3>3, <3>5, <3>6
  <2> QED  BY <2>2, <2>3, <2>4
<1>17. ReaderInv'
  <2> HIDE DEF s
  <2> SUFFICES ASSUME reader.todo \ {k} # {}
               PROVE  /\ 0 \in reader.todo \ {k}
                      /\ \A m \in (reader.todo \ {k}) \ {0} : arch[m].here
                      /\ \A m \in reader.todo \ {k} : \A j \in Archives :
                           j < m /\ arch[j].here => j \in reader.todo \ {k}
                      /\ ~reader'.first =>
                           /\ reader'.last <= count
                           /\ \A m \in reader.todo \ {k} : \A i \in DOMAIN Lines(m) :
                                reader'.last < Lines(m)[i].id
                           /\ \A n \in reader'.last + 1..count : \E m \in reader.todo \ {k} :
                                \E i \in DOMAIN Lines(m) : Lines(m)[i].id = n
    <3>1. \A m \in reader.todo \ {k} : Lines(m)' = Lines(m)  BY <1>0, <1>4
    <3> QED  BY <1>2, <1>3, <1>13, <3>1 DEF ReaderInv
  <2>1. \A m \in reader.todo \ {k} : m < k /\ m \in Int /\ m >= 0  BY <1>0, <1>1, <1>5 DEF Files
  <2>2. 0 \in reader.todo \ {k}  BY <1>3, <1>5, <2>1
  <2>3. \A m \in reader.todo \ {k} : \A j \in Archives : j < m /\ arch[j].here => j \in reader.todo \ {k}
    BY <1>3, <1>5, <2>1 DEF Archives
  <2>4. ASSUME ~reader'.first
        PROVE  /\ reader'.last <= count
               /\ \A m \in reader.todo \ {k} : \A i \in DOMAIN Lines(m) : reader'.last < Lines(m)[i].id
               /\ \A n \in reader'.last + 1..count : \E m \in reader.todo \ {k} :
                    \E i \in DOMAIN Lines(m) : Lines(m)[i].id = n
    <3>1. CASE s = <<>>  BY <1>13, <1>15, <2>4, <3>1
    <3>2. CASE s # <<>>  BY <1>13, <1>16, <3>2
    <3> QED  BY <3>1, <3>2
  <2>5. ASSUME NEW m \in (reader.todo \ {k}) \ {0} PROVE arch[m].here
    <3>1. m \in reader.todo \ {0}  OBVIOUS
    <3> QED  BY <1>3, <3>1, Zenon
  <2> QED  BY <2>2, <2>3, <2>4, <2>5
<1> QED  BY <1>14, <1>17

LEMMA ReaderStep ==
    ASSUME Base, ChainInv, ReaderInv, VerdictTrue, [Next]_vars
    PROVE  ReaderInv' /\ VerdictTrue'
<1>1. CASE Shift \/ Compress \/ Compressed \/ Truncate
  <2>1. reader' = [reader EXCEPT !.raced = TRUE] /\ reader \in Readers
    BY <1>1, TypesAre DEF Shift, Compress, Compressed, Truncate, Disturb, Base, Types
  <2>2. reader'.raced  BY <2>1 DEF Readers
  <2> QED  BY <2>2 DEF ReaderInv, VerdictTrue
<1>2. CASE spoilt'
  BY <1>2 DEF ReaderInv, VerdictTrue
<1>3. CASE ~spoilt' /\ ~(Shift \/ Compress \/ Compressed \/ Truncate)
  <2>1. ~spoilt
    BY <1>3 DEF Next, Step, Start, Record, Shift, Compress, Compressed, Truncate, AppendLine, Interrupt,
           End, Verify, ReadFile, ReadPart, vars
  <2>2. Chained  BY <2>1 DEF ChainInv, Chained
  <2>3. CASE Start \/ Record \/ End
    <3>1. UNCHANGED <<live, arch, reader, count>> /\ spoilt' = spoilt
      BY <2>3 DEF Start, Record, End
    <3>2. proc'.pc \in {"down", "idle", "append", "shift"}
      <4>1. CASE Start \/ End  BY <4>1 DEF Start, End, Down
      <4>2. CASE Record  BY <4>2 DEF Base, TypeOK, Record, Goto
      <4> QED  BY <2>3, <4>1, <4>2
    <3> QED  BY <3>1, <3>2, ReaderKept
  <2>4. CASE AppendLine
    <3>1. proc'.pc = "idle"  BY <2>4 DEF AppendLine, Base, TypeOK
    <3>2. UNCHANGED <<arch, reader, spoilt>>  BY <2>4 DEF AppendLine
    <3> QED  BY <2>1, <2>2, <2>4, <3>1, <3>2, ReaderAppend DEF AppendLine
  <2>5. CASE Interrupt
    <3>1. UNCHANGED <<arch, reader>> /\ proc'.pc \in {"idle", "down"}
      BY <1>3, <2>5, HarmlessInterrupt
    <3>2. spoilt' = spoilt  BY <1>3, <2>1, TypesAre, BaseStep, Zenon DEF Base, Types
    <3>3. CASE UNCHANGED <<live, count>>  BY <3>1, <3>2, <3>3, ReaderKept
    <3>4. CASE ~UNCHANGED <<live, count>>
      <4>1. /\ proc.pc = "append" /\ count < MaxEvents /\ count' = count + 1
            /\ live' = Written(NewLine("ok"))
        BY <1>3, <2>5, <3>4, HarmlessInterrupt
      <4> QED  BY <2>1, <2>2, <3>1, <3>2, <4>1, ReaderAppend
    <3> QED  BY <3>3, <3>4
  <2>6. CASE Verify  BY <2>6, ReaderVerify
  <2>7. CASE ReadFile
    <3>1. CASE reader.raced
      <4>1. reader'.raced  BY <2>7, <3>1 DEF ReadFile
      <4> QED  BY <4>1 DEF ReaderInv, VerdictTrue
    <3>2. CASE ~reader.raced  BY <2>1, <2>2, <2>7, <3>2, ReaderRead
    <3> QED  BY <3>1, <3>2
  <2>8. CASE ReadPart
    <3>1. reader' = [reader EXCEPT !.todo = @ \ {0}, !.bad = TRUE, !.raced = TRUE] /\ reader \in Readers
      BY <2>8, TypesAre DEF ReadPart, Base, Types
    <3>2. reader'.raced  BY <3>1 DEF Readers
    <3> QED  BY <3>2 DEF ReaderInv, VerdictTrue
  <2>9. CASE UNCHANGED vars
    <3>1. \A m : Lines(m)' = Lines(m)  BY <2>9 DEF vars, Lines
    <3> QED  BY <2>9, <3>1 DEF vars, ReaderInv, VerdictTrue
  <2> QED  BY <1>3, <2>3, <2>4, <2>5, <2>6, <2>7, <2>8, <2>9 DEF Next, Step
<1> QED  BY <1>1, <1>2, <1>3

-----------------------------------------------------------------------------
(* The results *)

\* Consecutive events in order are a chain whose links name the line before.
LEMMA WholeChain == ASSUME Base, ChainInv PROVE UnbrokenChain
<1> SUFFICES ASSUME Quiet, ~spoilt
             PROVE  /\ \A k \in Files : \A h \in DOMAIN Lines(k) :
                         /\ Parses(Lines(k)[h])
                         /\ \A j \in Files : \A i \in DOMAIN Lines(j) :
                              Follows(k, h, j, i) => Lines(k)[h].prev = Lines(j)[i].id
                    /\ \A k \in Archives : ~arch[k].torn
  BY DEF UnbrokenChain, Archives
<1>1. Listed /\ TornInv /\ TypeOK /\ proc.pc \in {"down", "idle"}  BY DEF ChainInv, Quiet, Base
<1>2. \A k \in Files : Kept(k) = Lines(k)  BY <1>1 DEF Kept
<1>3. \A k \in Archives : ~arch[k].torn  BY <1>1 DEF TornInv
<1>4. \A k \in Files : \A i \in DOMAIN Lines(k) :
        /\ Lines(k)[i].st = "ok" /\ Lines(k)[i].id <= count
        /\ Lines(k)[i].prev = Lines(k)[i].id - 1
        /\ Lines(k)[i].id = Lines(k)[1].id + i - 1
  BY <1>1, <1>2 DEF Listed, LineInv
<1>5. \A k \in Files : /\ k \in Int /\ Len(Lines(k)) \in Nat /\ DOMAIN Lines(k) = 1..Len(Lines(k))
                       /\ Lines(k) # <<>> => 1 \in DOMAIN Lines(k)
                       /\ \A i \in DOMAIN Lines(k) : i \in Nat /\ Lines(k)[i].id \in Nat
  BY <1>1, <1>2, KeptTypes
<1>6. \A j, k \in Files : j < k =>
        \A i \in DOMAIN Lines(j) : \A h \in DOMAIN Lines(k) : Lines(k)[h].id < Lines(j)[i].id
  BY <1>1, <1>2 DEF Listed, OrderInv
<1>7. ASSUME NEW k \in Files, NEW h \in DOMAIN Lines(k) PROVE Parses(Lines(k)[h])
  BY <1>4 DEF Parses
<1>8. ASSUME NEW k \in Files, NEW h \in DOMAIN Lines(k), NEW j \in Files, NEW i \in DOMAIN Lines(j),
             Follows(k, h, j, i)
      PROVE  Lines(k)[h].prev = Lines(j)[i].id
  <2>1. PICK a \in Nat : a = Lines(j)[i].id /\ a = Lines(j)[1].id + i - 1  BY <1>4, <1>5
  <2>2. PICK b \in Nat : b = Lines(k)[h].id /\ b = Lines(k)[1].id + h - 1 /\ b <= count
    BY <1>4, <1>5
  <2>3. Lines(k)[h].prev = b - 1 /\ count \in Nat  BY <1>1, <1>4, <2>2, HeldTypes
  <2>4. Lines(j)[1].id \in Nat /\ Lines(k)[1].id \in Nat /\ i \in Nat /\ h \in Nat /\ i >= 1 /\ h >= 1
    <3>1. Lines(j) # <<>> /\ Lines(k) # <<>>  OBVIOUS
    <3>2. 1 \in DOMAIN Lines(j) /\ 1 \in DOMAIN Lines(k)  BY <1>5, <3>1
    <3> QED  BY <1>5, <3>2
  <2>5. CASE j = k /\ h = i + 1  BY <2>1, <2>2, <2>3, <2>4, <2>5
  <2>6. CASE /\ k < j /\ h = 1 /\ i = Len(Lines(j))
             /\ \A m \in k + 1..j - 1 : Lines(m) = <<>>
    <3>1. a < b  BY <1>6, <2>1, <2>2, <2>6
    <3>2. a + 1 \in a..count  BY <2>1, <2>2, <2>3, <3>1
    <3>11. a + 1 \in Kept(j)[i].id..count /\ i \in DOMAIN Kept(j)  BY <1>2, <2>1, <3>2
    <3>3. PICK m \in Files : \E x \in DOMAIN Lines(m) : Lines(m)[x].id = a + 1
      <4>1. \E m \in Files : \E x \in DOMAIN Kept(m) : Kept(m)[x].id = a + 1
        BY <1>1, <3>11, Zenon DEF Listed, GaplessInv
      <4> QED  BY <1>2, <4>1, Zenon
    <3>4. PICK x \in DOMAIN Lines(m) : Lines(m)[x].id = a + 1  BY <3>3
    <3>5. x \in Nat /\ x >= 1 /\ x <= Len(Lines(m)) /\ m \in Int /\ a + 1 = Lines(m)[1].id + x - 1
          /\ j \in Int /\ k \in Int
      <4>1. a + 1 = Lines(m)[1].id + x - 1  BY <1>4, <3>4
      <4>2. x \in 1..Len(Lines(m)) /\ Len(Lines(m)) \in Nat /\ m \in Int /\ j \in Int /\ k \in Int
        BY <1>5
      <4> QED  BY <4>1, <4>2
    <3>6. CASE m = k
      <4>1. a + 1 = b + x - 1  BY <2>2, <2>4, <2>6, <3>5, <3>6
      <4>2. a + 1 = b  BY <2>1, <2>2, <3>1, <3>5, <4>1
      <4> QED  BY <2>1, <2>2, <2>3, <4>2
    <3>7. CASE m < k
      <4>1. b < a + 1  BY <1>6, <2>2, <3>4, <3>7
      <4> QED  BY <2>1, <2>2, <3>1, <4>1
    <3>8. CASE k < m /\ m < j
      <4>1. Lines(m) = <<>>  BY <2>6, <3>5, <3>8
      <4> QED  BY <3>4, <4>1
    <3>9. CASE m = j
      <4>1. x <= i  BY <2>6, <3>5, <3>9
      <4> QED  BY <2>1, <2>4, <3>5, <3>9, <4>1
    <3>10. CASE j < m
      <4>1. a + 1 < a  BY <1>6, <2>1, <3>4, <3>10
      <4> QED  BY <2>1, <4>1
    <3> QED  BY <3>5, <3>6, <3>7, <3>8, <3>9, <3>10
  <2> QED  BY <1>8, <2>5, <2>6 DEF Follows
<1> QED  BY <1>3, <1>7, <1>8

\* The invariant of the whole module is inductive.
THEOREM Inductive == Spec => []IInv
<1>1. Init => IInv
  BY BaseInit, HistoryInit, ChainInit, ReaderInit DEF IInv, Base, ChainInv, Chained
<1>2. IInv /\ [Next]_vars => IInv'
  <2> SUFFICES ASSUME IInv, [Next]_vars PROVE IInv'  OBVIOUS
  <2>1. Base /\ HistoryInv /\ ChainInv /\ ReaderInv /\ VerdictTrue  BY DEF IInv, Base
  <2>2. Base'  BY <2>1, BaseStep
  <2>3. HistoryInv'  BY <2>1, HistoryStep
  <2>4. ChainInv'  BY <2>1, ChainStep
  <2>5. ReaderInv' /\ VerdictTrue'  BY <2>1, ReaderStep
  <2> QED  BY <2>2, <2>3, <2>4, <2>5 DEF IInv, Base
<1> QED  BY <1>1, <1>2, PTL DEF Spec

\* The variables keep their types and the live file never has more than MaxLines
\* lines (_append_line rotates first, also after an interrupted rotation).
THEOREM TypeCorrect == Spec => []TypeOK
<1>1. IInv => TypeOK  BY DEF IInv
<1> QED  BY <1>1, Inductive, PTL

\* The log of a recorder that was restarted, rotated and interrupted verifies,
\* unless an interruption fell between the opening of the archive and the
\* truncation, cut a line or left the process unaware of a whole one (record, _rotate, _read_last_hash).
THEOREM ChainUnbroken == Spec => []UnbrokenChain
<1>1. IInv => UnbrokenChain  BY WholeChain DEF IInv, Base
<1> QED  BY <1>1, Inductive, PTL

\* A verification nobody disturbed reports a violation only of a log that has one
\* (verify_chain, which takes no lock).
THEOREM VerdictIsTrue == Spec => []VerdictTrue
<1>1. IInv => VerdictTrue  BY DEF IInv
<1> QED  BY <1>1, Inductive, PTL

\* Rotation, however interrupted, drops no event of the newest RotateCount - faults
\* archives' worth of lines (_rotate).
THEOREM HistoryKeptOnDisk == Spec => []History
<1>1. IInv => History  BY DEF IInv, HistoryInv
<1> QED  BY <1>1, Inductive, PTL
=============================================================================
