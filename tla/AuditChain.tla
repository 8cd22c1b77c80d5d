----------------------------- MODULE AuditChain -----------------------------
(***************************************************************************)
(* The audit log of picosentry serve as a hash chain in the database       *)
(* (serve/services/audit_chain.py) and the retention purge that cuts holes *)
(* in it and records them (serve/services/audit_cleanup.py).               *)
(*                                                                         *)
(* A row's hash stands for its predecessor's hash and its own fields; the  *)
(* fields of two rows always differ (a request row holds its request id),  *)
(* so the model names a hash by the id of the row that has it, 0 being the *)
(* empty string.  No field changes once written, so the recomputation of a *)
(* row's own hash always succeeds.                                         *)
(***************************************************************************)
EXTENDS Integers, FiniteSets

CONSTANTS Orgs,       \* organisations
          NoOrg,      \* NULL in the column, None as an argument
          Purgers,    \* threads of control that may run purge_audit_logs
          MaxId,      \* bound: ids the table hands out
          Legacy,     \* rows written before the chain columns existed
          Postgres,   \* the database: PostgreSQL, or SQLite with one writer
          MaxFaults   \* bound: ids burned and rows removed behind the code's back

ASSUME ChainAssumption ==
    /\ MaxId \in Nat
    /\ Legacy \in 0..MaxId
    /\ Postgres \in BOOLEAN
    /\ MaxFaults \in Nat
    /\ NoOrg \notin Orgs

VARIABLES live,     \* ids of the rows in the table
          row,      \* contents of the rows; Blank where there is none
          seq,      \* the last id handed out
          purge,    \* per purger: where it is and the ids it works on
          check,    \* the verification under way
          purged,   \* ghost: ids the purges deleted
          stolen,   \* ghost: ids deleted by anything else
          raced,    \* ghost: those of stolen a purge had just read again
          burned,   \* ghost: ids of rolled-back inserts
          unmarked  \* ghost: ids purges deleted whose marker is not in the table

chain == <<live, row, seq, purge, check, purged, stolen, raced, burned, unmarked>>

Ids == 1..MaxId
Owners == Orgs \cup {NoOrg}
Row == [prev: 0..MaxId, hash: 0..MaxId, org: Owners,
        marker: BOOLEAN, gaps: SUBSET Ids]
Blank == [prev |-> 0, hash |-> 0, org |-> NoOrg,
          marker |-> FALSE, gaps |-> {}]

Idle == [pc |-> "idle", ids |-> {}, org |-> NoOrg]
NoCheck == [pc |-> "valid", breaks |-> {}]

\* q is the row the id order puts just before i: p.id of the verifier's join.
IsPred(q, i) == q \in live /\ q < i /\ \A x \in live : x < i => x <= q
IsFirst(i) == \A x \in live : ~(x < i)

\* append_audit_row: h is the hash of the last row, or "" in an empty table.
IsLastHash(h) == \/ live = {} /\ h = 0
                 \/ \E q \in live : h = row[q].hash /\ \A x \in live : x <= q

\* One row, linked to the last committed hash in the same transaction.
Insert(fields) ==
    /\ seq < MaxId
    /\ \E h \in 0..MaxId :
         /\ IsLastHash(h)
         /\ row' = [row EXCEPT ![seq + 1] =
                      [prev |-> h, hash |-> seq + 1,
                       org |-> fields.org, marker |-> fields.marker,
                       gaps |-> fields.gaps]]
    /\ live' = live \cup {seq + 1}
    /\ seq' = seq + 1

AppendRow(o) ==
    /\ Insert([org |-> o, marker |-> FALSE, gaps |-> {}])
    /\ UNCHANGED <<purge, check, purged, stolen, raced, burned, unmarked>>

\* PostgreSQL: a rolled-back insert burns its id.
RollBack ==
    /\ Postgres /\ seq < MaxId /\ Cardinality(stolen \cup burned) < MaxFaults
    /\ seq' = seq + 1
    /\ burned' = burned \cup {seq + 1}
    /\ UNCHANGED <<live, row, purge, check, purged, stolen, raced, unmarked>>

(***************************************************************************)
(* purge_audit_logs.  created_at follows the ids, so a cutoff is the id of *)
(* the last row it reaches.                                                *)
(* Markers are the critical rows and have the longest retention; a flat    *)
(* retention_days has one cutoff for all.                                  *)
(***************************************************************************)
Expired(o, cut, critical) ==
    {i \in live : /\ i <= (IF row[i].marker THEN critical ELSE cut)
                  /\ o = NoOrg \/ row[i].org = o}

Select(p, o, cut, critical) ==
    /\ purge[p].pc = "idle"
    /\ critical <= cut
    /\ Expired(o, cut, critical) # {}
    /\ purge' = [purge EXCEPT ![p] =
                   [pc |-> "selected", ids |-> Expired(o, cut, critical), org |-> o]]
    /\ UNCHANGED <<live, row, seq, check, purged, stolen, raced, burned, unmarked>>

\* _delete_ids: what the write transaction still finds.
Found(p) == purge[p].ids \cap live

Erase(ids) ==
    /\ live' = live \ ids
    /\ row' = [i \in Ids |-> IF i \in ids THEN Blank ELSE row[i]]

\* What the markers among ids say.
Listed(ids) == UNION {row[i].gaps : i \in {j \in ids : row[j].marker}}

\* A mutant of Reread: the marker will list the ids selected, found or not.
RereadNot(p) ==
    /\ Postgres /\ purge[p].pc = "selected"
    /\ purge' = [purge EXCEPT ![p].pc = "reread"]
    /\ UNCHANGED <<live, row, seq, check, purged, stolen, raced, burned, unmarked>>

\* The transaction's SELECT takes no lock on PostgreSQL: others may still delete
\* what it found.
Reread(p) ==
    /\ Postgres /\ purge[p].pc = "selected"
    /\ purge' = [purge EXCEPT ![p].pc = "reread", ![p].ids = Found(p)]
    /\ UNCHANGED <<live, row, seq, check, purged, stolen, raced, burned, unmarked>>

\* The DELETE, on SQLite in one step with the SELECT: the transaction holds the
\* write lock from its start.
Delete(p) ==
    /\ purge[p].pc = IF Postgres THEN "reread" ELSE "selected"
    /\ Erase(Found(p))
    /\ purged' = purged \cup Found(p)
    /\ unmarked' = unmarked \cup Found(p) \cup Listed(Found(p))
    /\ purge' = [purge EXCEPT ![p].pc = "deleted",
                              ![p].ids = IF Postgres THEN purge[p].ids ELSE Found(p)]
    /\ UNCHANGED <<seq, check, stolen, raced, burned>>

\* A mutant of Mark: the runs start one id late.
MarkShort(p) ==
    /\ purge[p].pc = "deleted"
    /\ Insert([org |-> purge[p].org, marker |-> TRUE,
               gaps |-> {i \in purge[p].ids : \E a \in purge[p].ids : a < i}])
    /\ unmarked' = unmarked \ purge[p].ids
    /\ purge' = [purge EXCEPT ![p] = Idle]
    /\ UNCHANGED <<check, purged, stolen, raced, burned>>

\* _contiguous_runs lists exactly the ids; load_purged_ids reads them back.
Mark(p) ==
    /\ purge[p].pc = "deleted"
    /\ Insert([org |-> purge[p].org, marker |-> TRUE, gaps |-> purge[p].ids])
    /\ unmarked' = unmarked \ purge[p].ids
    /\ purge' = [purge EXCEPT ![p] = Idle]
    /\ UNCHANGED <<check, purged, stolen, raced, burned>>

\* The process dies, or the marker's insert fails: the hole stays unrecorded.
Abandon(p) ==
    /\ purge[p].pc # "idle"
    /\ purge' = [purge EXCEPT ![p] = Idle]
    /\ UNCHANGED <<live, row, seq, check, purged, stolen, raced, burned, unmarked>>

(***************************************************************************)
(* verify_audit_chain: one query reads the rows with their predecessors, a *)
(* second one the markers.                                                 *)
(***************************************************************************)
Recorded == Listed(live)

Chained(i) == row[i].prev # 0 \/ row[i].hash # 0
Linked(i) == \/ IsFirst(i) /\ row[i].prev = 0
             \/ \E q \in live : IsPred(q, i) /\ row[i].prev = row[q].hash

\* The ids between row i and the row before it, or all ids below a first row.
Gap(i) == {x \in 1..(i - 1) : \A y \in live : ~(x <= y /\ y < i)}

\* _gap_explains
Explained(gap, marked) == gap # {} /\ gap \subseteq marked

\* What a verification of the rows of S finds.
Breaks(S) == {Gap(i) : i \in {j \in S : Chained(j) /\ ~Linked(j)}}
Valid(breaks) == \A g \in breaks : Explained(g, Recorded)

Slice(o, lo) == {i \in live : lo <= i /\ (o = NoOrg \/ row[i].org = o)}

\* With every link intact the markers make no difference and the log is valid.
VerifyRead(o, lo) ==
    /\ check.pc # "rows"
    /\ check' = IF Breaks(Slice(o, lo)) = {} THEN NoCheck
                ELSE [pc |-> "rows", breaks |-> Breaks(Slice(o, lo))]
    /\ UNCHANGED <<live, row, seq, purge, purged, stolen, raced, burned, unmarked>>

\* A mutant of VerifyMarkers: the markers are not looked at.
VerifyMarkersNone ==
    /\ check.pc = "rows"
    /\ check' = [NoCheck EXCEPT !.pc = "violation"]
    /\ UNCHANGED <<live, row, seq, purge, purged, stolen, raced, burned, unmarked>>

VerifyMarkers ==
    /\ check.pc = "rows"
    /\ check' = [NoCheck EXCEPT !.pc = IF Valid(check.breaks)
                                       THEN "valid" ELSE "violation"]
    /\ UNCHANGED <<live, row, seq, purge, purged, stolen, raced, burned, unmarked>>

\* load_purged_ids cannot read the markers: every gap is unexplained.
VerifyUnread ==
    /\ check.pc = "rows"
    /\ check' = [NoCheck EXCEPT !.pc = "unread"]
    /\ UNCHANGED <<live, row, seq, purge, purged, stolen, raced, burned, unmarked>>

(***************************************************************************)
(* A row removed by something other than this code.                        *)
(***************************************************************************)
Steal(i) ==
    /\ Cardinality(stolen \cup burned) < MaxFaults
    /\ i \in live
    /\ Erase({i})
    /\ stolen' = stolen \cup {i}
    /\ raced' = IF \E p \in Purgers : purge[p].pc = "reread" /\ i \in purge[p].ids
                THEN raced \cup {i} ELSE raced
    /\ unmarked' = unmarked \cup Listed({i})
    /\ UNCHANGED <<seq, purge, check, purged, burned>>

-----------------------------------------------------------------------------
ChainInit ==
    /\ live = 1..Legacy
    /\ row = [i \in Ids |-> Blank]
    /\ seq = Legacy
    /\ purge = [p \in Purgers |-> Idle]
    /\ check = NoCheck
    /\ purged = {} /\ stolen = {} /\ raced = {} /\ burned = {} /\ unmarked = {}

Purging(p) == \/ \E o \in Owners, cut \in live, critical \in live \cup {0} :
                    Select(p, o, cut, critical)
              \/ Reread(p) \/ Delete(p) \/ Mark(p) \/ Abandon(p)
Verifying == \/ \E o \in Owners, lo \in live : VerifyRead(o, lo)
             \/ VerifyMarkers \/ VerifyUnread
Interference == \E i \in Ids : Steal(i)
Maintenance == \/ RollBack
               \/ \E p \in Purgers : Purging(p)
               \/ Verifying
               \/ Interference

ChainNext == (\E o \in Owners : AppendRow(o)) \/ Maintenance
ChainSpec == ChainInit /\ [][ChainNext]_chain

-----------------------------------------------------------------------------
\* Every variable has its type and only rows of the table have contents.
ChainTypeOK ==
    /\ live \subseteq 1..seq
    /\ row \in [Ids -> Row]
    /\ \A i \in Ids \ live : row[i] = Blank
    /\ seq \in 0..MaxId
    /\ purge \in [Purgers -> [pc: {"idle", "selected", "reread", "deleted"},
                              ids: SUBSET Ids, org: Owners]]
    /\ check.pc \in {"rows", "valid", "violation", "unread"}
    /\ check.breaks \subseteq SUBSET Ids
    /\ purged \subseteq 1..seq /\ stolen \subseteq 1..seq /\ burned \subseteq 1..seq
    /\ raced \subseteq stolen /\ unmarked \subseteq 1..seq

\* Ids whose absence nothing in the table explains: rows removed by others, ids
\* the database burned, and ids of purges whose marker is missing.
Suspect == stolen \cup burned \cup unmarked

(***************************************************************************)
(* However appends, purges of several threads and their markers            *)
(* interleave, every gap the verifier meets is explained by the markers in *)
(* the table, or has a suspect id in it: verify_audit_chain takes recorded *)
(* retention gaps for what they are (audit_chain.py:121-124), and what is  *)
(* wrong elsewhere in the log does not spoil them.                         *)
(***************************************************************************)
HonestLogVerifies ==
    \A g \in Breaks(live) : Explained(g, Recorded) \/ g \cap Suspect # {}

(***************************************************************************)
(* The verdict reached in two reads is as good: a verification that ran    *)
(* while rows were appended and purged, and could read the markers,        *)
(* reports a violation only over a gap that has, at the second read, a     *)
(* suspect id in it.                                                       *)
(***************************************************************************)
HonestVerdict ==
    [][check.pc = "rows" /\ check'.pc = "violation"
        => \E g \in check.breaks : g \cap Suspect # {}]_chain

(***************************************************************************)
(* No purge marker, whenever it was written, covers up for a row that a    *)
(* purge did not delete: as long as a row linked after the missing one     *)
(* survives, the first survivor above the hole fails verification.  On     *)
(* PostgreSQL a row removed between the SELECT and the DELETE of a purge   *)
(* that is to delete it is the one exception, and the marker lists it      *)
(* (audit_cleanup.py:48-57).                                               *)
(***************************************************************************)
RemovalDetected ==
    \A d \in stolen \ raced, r \in live :
        /\ r > d /\ row[r].prev >= d
        /\ \A x \in live : ~(d < x /\ x < r)
        => ~Valid(Breaks({r}))
=============================================================================
