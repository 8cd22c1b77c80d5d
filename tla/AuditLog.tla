------------------------------ MODULE AuditLog ------------------------------
(***************************************************************************)
(* The audit log of the PicoDome sandbox: a hash-chained jsonl file with   *)
(* gzip archives (sandbox/audit/logger.py).  The recording process keeps   *)
(* the last hash in memory and record() holds a lock; verify_chain() takes *)
(* no lock and may run in another process.                                 *)
(*                                                                         *)
(* A line's hash is named by the number of its event, 0 being the empty    *)
(* string.  A write cut short leaves a line without its newline ("cut", or *)
(* "open" when only that is missing), which the next line is appended to   *)
(* and spoilt with it ("bad"); a line holds the events whose bytes are in  *)
(* it.                                                                     *)
(***************************************************************************)
EXTENDS Integers, Sequences, FiniteSets

CONSTANTS RotateCount,   \* rotate_count
          MaxLines,      \* max_bytes, in lines
          MaxEvents,     \* bound: events recorded
          MaxFaults      \* bound: interrupted operations

ASSUME LogAssumption ==
    /\ RotateCount \in Nat \ {0} /\ MaxLines \in Nat \ {0}
    /\ MaxEvents \in Nat /\ MaxFaults \in Nat

VARIABLES live,      \* lines of the live file
          arch,      \* the archives, 1 the newest
          proc,      \* the recording process: where record() is, its _prev_hash
          reader,    \* the verification under way
          count,     \* events recorded
          faults,    \* interrupted operations
          spoilt     \* ghost: an interruption left lines cut, twice on disk or
                     \* unknown to the process that wrote them

vars == <<live, arch, proc, reader, count, faults, spoilt>>

Events == 1..MaxEvents
Files == 0..RotateCount     \* the live file is number 0
Line == [id: Events, prev: 0..MaxEvents, st: {"ok", "open", "cut", "bad"}, holds: SUBSET Events]
NoFile == [here |-> FALSE, lines |-> <<>>, torn |-> FALSE]
Down == [pc |-> "down", k |-> 0, hash |-> 0]

Quiet == proc.pc \in {"down", "idle"}

Last(s) == s[Len(s)]
Parses(line) == line.st \in {"ok", "open"}
Unfinished(line) == line.st \in {"open", "cut"}

\* A mutant of LastHash: the archive is not looked at.
LastHashLiveOnly == IF live = <<>> \/ ~Parses(Last(live)) THEN 0 ELSE Last(live).id

\* _read_last_hash: the live file, or the newest archive when that is empty.
LastHash ==
    LET lines == IF live # <<>> THEN live
                 ELSE IF arch[1].torn THEN <<>> ELSE arch[1].lines
    IN IF lines = <<>> \/ ~Parses(Last(lines)) THEN 0 ELSE Last(lines).id

Start ==
    /\ proc.pc = "down"
    /\ proc' = [pc |-> "idle", k |-> 0, hash |-> LastHash]
    /\ UNCHANGED <<live, arch, reader, count, faults, spoilt>>

\* The files a verification under way is reading change names or contents.
Disturb == reader' = [reader EXCEPT !.raced = TRUE]

Goto(pc) == proc' = [proc EXCEPT !.pc = pc]

\* A mutant of Record: > for >=.
RecordLate ==
    /\ proc.pc = "idle" /\ count < MaxEvents
    /\ IF Len(live) > MaxLines
       THEN proc' = [proc EXCEPT !.pc = "shift", !.k = RotateCount - 1]
       ELSE Goto("append")
    /\ UNCHANGED <<live, arch, reader, count, faults, spoilt>>

\* record, up to the size check of _append_line.
Record ==
    /\ proc.pc = "idle" /\ count < MaxEvents
    /\ IF Len(live) >= MaxLines
       THEN proc' = [proc EXCEPT !.pc = "shift", !.k = RotateCount - 1]
       ELSE Goto("append")
    /\ UNCHANGED <<live, arch, reader, count, faults, spoilt>>

\* A mutant of Shift: the lowest number first.
ShiftUp ==
    /\ proc.pc = "shift"
    /\ LET k == proc.k
           j == RotateCount - k IN
       IF k = 0
       THEN Goto("copy") /\ UNCHANGED arch
       ELSE /\ arch' = IF arch[j].here
                       THEN [arch EXCEPT ![j + 1] = arch[j], ![j] = NoFile]
                       ELSE arch
            /\ proc' = [proc EXCEPT !.k = k - 1]
    /\ Disturb
    /\ UNCHANGED <<live, count, faults, spoilt>>

\* _rotate: one rename of the shift, the highest number first.
Shift ==
    /\ proc.pc = "shift"
    /\ LET k == proc.k IN
       IF k = 0
       THEN Goto("copy") /\ UNCHANGED arch
       ELSE /\ arch' = IF arch[k].here
                       THEN [arch EXCEPT ![k + 1] = arch[k], ![k] = NoFile]
                       ELSE arch
            /\ proc' = [proc EXCEPT !.k = k - 1]
    /\ Disturb
    /\ UNCHANGED <<live, count, faults, spoilt>>

\* The gzip stream is open: readers see some lines and no end of stream.
Compress ==
    /\ proc.pc = "copy"
    /\ \E n \in 0..Len(live) :
         arch' = [arch EXCEPT ![1] = [here |-> TRUE, lines |-> SubSeq(live, 1, n), torn |-> TRUE]]
    /\ Goto("copying")
    /\ Disturb
    /\ UNCHANGED <<live, count, faults, spoilt>>

Compressed ==
    /\ proc.pc = "copying"
    /\ arch' = [arch EXCEPT ![1] = [here |-> TRUE, lines |-> live, torn |-> FALSE]]
    /\ Goto("truncate")
    /\ Disturb
    /\ UNCHANGED <<live, count, faults, spoilt>>

Truncate ==
    /\ proc.pc = "truncate"
    /\ live' = <<>>
    /\ Goto("append")
    /\ Disturb
    /\ UNCHANGED <<arch, count, faults, spoilt>>

\* f.write(line): a line that follows a cut one becomes part of it.
Written(line) ==
    IF live # <<>> /\ Unfinished(Last(live))
    THEN [live EXCEPT ![Len(live)] =
            [line EXCEPT !.st = IF Unfinished(line) THEN "cut" ELSE "bad",
                         !.holds = line.holds \cup Last(live).holds]]
    ELSE Append(live, line)

\* The line of the next event.
NewLine(st) == [id |-> count + 1, prev |-> proc.hash, st |-> st, holds |-> {count + 1}]

\* A mutant of AppendLine: the hash is not moved.
AppendOldHash ==
    /\ proc.pc = "append" /\ count < MaxEvents
    /\ count' = count + 1
    /\ live' = Written(NewLine("ok"))
    /\ Goto("idle")
    /\ UNCHANGED <<arch, reader, faults, spoilt>>

AppendLine ==
    /\ proc.pc = "append" /\ count < MaxEvents
    /\ count' = count + 1
    /\ live' = Written(NewLine("ok"))
    /\ proc' = [proc EXCEPT !.pc = "idle", !.hash = count']
    /\ UNCHANGED <<arch, reader, faults, spoilt>>

\* An OSError leaves record() and the process goes on with its old hash, or it
\* dies.  The line may be on disk in part, or whole: the flush or the fsync that
\* follows fails, and a process that goes on links its next event past it.
Interrupt ==
    /\ proc.pc \notin {"down", "idle"} /\ faults < MaxFaults
    /\ faults' = faults + 1
    /\ \E dies \in BOOLEAN :
         /\ IF dies THEN proc' = Down ELSE Goto("idle")
         /\ \/ /\ spoilt' = (spoilt \/ proc.pc \in {"copying", "truncate"})
               /\ UNCHANGED <<live, count>>
            \/ /\ proc.pc = "append" /\ count < MaxEvents
               /\ count' = count + 1
               /\ \E st \in {"ok", "open", "cut"} :
                    /\ live' = Written(NewLine(st))
                    /\ spoilt' = (spoilt \/ st # "ok" \/ ~dies)
    /\ UNCHANGED <<arch, reader>>

End ==
    /\ proc.pc = "idle"
    /\ proc' = Down
    /\ UNCHANGED <<live, arch, reader, count, faults, spoilt>>

-----------------------------------------------------------------------------
(***************************************************************************)
(* verify_chain: the archives that exist are listed, then they and the     *)
(* live file (0) are opened one after the other.                           *)
(***************************************************************************)
NoReader == [todo |-> {}, last |-> 0, first |-> TRUE, bad |-> FALSE, raced |-> TRUE]

\* The files of verify_chain: the archives that exist and the live file.
Sources == {k \in 1..RotateCount : arch[k].here} \cup {0}

\* A mutant of Oldest: the newest archive first.
OldestReversed(files) ==
    CHOOSE k \in files : IF files = {0} THEN k = 0
                         ELSE k # 0 /\ \A j \in files \ {0} : k <= j

\* _rotated_archive_paths goes from the highest number down, the live file is last.
Oldest(files) == CHOOSE k \in files : \A j \in files : j <= k

BadAfter(lines, last, first) ==
    \E i \in DOMAIN lines :
        \/ ~Parses(lines[i])
        \/ IF i > 1 THEN lines[i].prev # lines[i - 1].id ELSE ~first /\ lines[1].prev # last

Verify ==
    /\ reader.todo = {} /\ count > 0
    /\ reader' = [NoReader EXCEPT !.todo = Sources, !.raced = ~Quiet]
    /\ UNCHANGED <<live, arch, proc, count, faults, spoilt>>

ReadFile ==
    /\ reader.todo # {}
    /\ LET k == Oldest(reader.todo)
           file == IF k = 0 THEN [here |-> TRUE, lines |-> live, torn |-> FALSE] ELSE arch[k]
       IN reader' = [todo |-> reader.todo \ {k},
                     last |-> IF file.lines = <<>> THEN reader.last ELSE Last(file.lines).id,
                     first |-> reader.first /\ file.lines = <<>>,
                     bad |-> \/ reader.bad
                             \/ ~file.here \/ file.torn
                             \/ BadAfter(file.lines, reader.last, reader.first),
                     raced |-> reader.raced]
    /\ UNCHANGED <<live, arch, proc, count, faults, spoilt>>

\* A line longer than the write buffer may be read before all of it is there.
ReadPart ==
    /\ reader.todo # {} /\ Oldest(reader.todo) = 0 /\ proc.pc = "append"
    /\ reader' = [reader EXCEPT !.todo = @ \ {0}, !.bad = TRUE, !.raced = TRUE]
    /\ UNCHANGED <<live, arch, proc, count, faults, spoilt>>

-----------------------------------------------------------------------------
Init ==
    /\ live = <<>>
    /\ arch = [k \in 1..RotateCount |-> NoFile]
    /\ proc = Down
    /\ reader = NoReader
    /\ count = 0 /\ faults = 0 /\ spoilt = FALSE

Step == \/ Start \/ Record \/ Shift \/ Compress \/ Compressed
           \/ Truncate \/ AppendLine \/ Interrupt \/ End

Next == Step \/ Verify \/ ReadFile \/ ReadPart

Spec == Init /\ [][Next]_vars

-----------------------------------------------------------------------------
\* Every variable has its type; the live file has at most MaxLines lines.
TypeOK ==
    /\ live \in Seq(Line) /\ Len(live) <= MaxLines
    /\ arch \in [1..RotateCount -> [here: BOOLEAN, lines: Seq(Line), torn: BOOLEAN]]
    /\ proc \in [pc: {"down", "idle", "shift", "copy", "copying", "truncate", "append"},
                k: 0..RotateCount, hash: 0..MaxEvents]
    /\ reader \in [todo: SUBSET Files, last: 0..MaxEvents, first: BOOLEAN,
                   bad: BOOLEAN, raced: BOOLEAN]
    /\ count \in 0..MaxEvents /\ faults \in 0..MaxFaults
    /\ spoilt \in BOOLEAN

Lines(k) == IF k = 0 THEN live ELSE arch[k].lines

\* A reader of the whole log gets line h of file k right after line i of file j.
Follows(k, h, j, i) ==
    \/ j = k /\ h = i + 1
    \/ k < j /\ h = 1 /\ i = Len(Lines(j)) /\ \A m \in k + 1..j - 1 : Lines(m) = <<>>

(***************************************************************************)
(* However often the logger is restarted, rotated or interrupted, its own  *)
(* chain verifies, unless an interruption fell between the opening of the  *)
(* archive and the truncation of the live file, cut a line, or came after  *)
(* a whole line was written and left the process running, which does not   *)
(* know of that line.                                                      *)
(***************************************************************************)
UnbrokenChain ==
    Quiet /\ ~spoilt =>
        /\ \A k \in Files : \A h \in DOMAIN Lines(k) :
             /\ Parses(Lines(k)[h])
             /\ \A j \in Files : \A i \in DOMAIN Lines(j) :
                  Follows(k, h, j, i) => Lines(k)[h].prev = Lines(j)[i].id
        /\ \A k \in 1..RotateCount : ~arch[k].torn

\* The lines at which a reader of the whole log finds something wrong.
Breaks == {p \in Files \X (1..MaxLines) :
    LET k == p[1]
        h == p[2] IN
    /\ h \in DOMAIN Lines(k)
    /\ \/ ~Parses(Lines(k)[h])
       \/ \E j \in Files : \E i \in DOMAIN Lines(j) :
            Follows(k, h, j, i) /\ Lines(k)[h].prev # Lines(j)[i].id}

(***************************************************************************)
(* The damage an interruption does is local: whatever one left behind (a   *)
(* cut line, an archive copied twice, a line the process does not know     *)
(* of), at most that line and the one after it fail, and the events that   *)
(* follow link up again through restarts and rotations.                    *)
(***************************************************************************)
LocalDamage == Quiet /\ faults <= 1 => Cardinality(Breaks) <= 2

(***************************************************************************)
(* verify_chain takes no lock: a verification that no rotation disturbed   *)
(* and that saw no half-written line reports a violation only of a log     *)
(* that has one.                                                           *)
(***************************************************************************)
VerdictTrue == reader.bad => spoilt \/ reader.raced

(***************************************************************************)
(* An interruption costs at most one archive of history: the events of the *)
(* newest RotateCount - faults archives' worth of lines are on disk (an    *)
(* event spoilt with a cut line, as that line).                            *)
(***************************************************************************)
History ==
    \A n \in Events :
    n <= count /\ n > count - (RotateCount - faults) * MaxLines =>
        \E k \in Files : \E i \in DOMAIN Lines(k) : n \in Lines(k)[i].holds
=============================================================================
