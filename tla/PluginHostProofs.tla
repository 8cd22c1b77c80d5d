-------------------------- MODULE PluginHostProofs ---------------------------
(***************************************************************************)
(* Proofs about PluginHost for any threads and any number of calls: type   *)
(* correctness with as many messages under way as threads wait, no process *)
(* left behind, no answer given twice or to a later burst of calls, and    *)
(* nobody blocked in readline, where select() works, whom no other call    *)
(* overlapped.                                                             *)
(***************************************************************************)
EXTENDS PluginHost, FiniteSetTheorems, SequenceTheorems, TLAPS

-----------------------------------------------------------------------------
(* The inductive invariant *)

Recs == [pc: {"idle", "write", "select", "read", "terminate", "ok", "failed"},
         kind: {"hook", "ready", "init", "shutdown"}, id: 0..MaxCalls]

\* The types; a burst begins with a call.
Types ==
    /\ worker \in [st: {"none", "boot", "up", "busy", "dead"}, req: 0..MaxCalls]
    /\ inp \in Seq(Calls) /\ out \in Seq(Answer) /\ buf \in Seq(Answer)
    /\ proc \in BOOLEAN /\ crowd \in BOOLEAN /\ blind \in BOOLEAN
    /\ entry \in {"none", "loading", "in", "out"}
    /\ th \in [Threads -> Recs]
    /\ calls \in 0..MaxCalls /\ era \in 0..calls
    /\ got \in [Calls -> 0..MaxCalls] /\ burst \in [Calls -> 0..MaxCalls]

\* Before the plugin is loaded there is nothing; without a handle, no process.
Unborn ==
    /\ entry = "none" =>
         /\ calls = 0 /\ inp = <<>> /\ out = <<>> /\ buf = <<>> /\ Busy = {}
    /\ Alive => proc

Seen(s) == {s[i] : i \in DOMAIN s}
Ids(s) == {s[i].id : i \in DOMAIN s}
NoTwice(s) == \A i, j \in DOMAIN s : s[i] = s[j] => i = j
NoTwiceId(s) == \A i, j \in DOMAIN s : s[i].id = s[j].id => i = j

\* The request the worker has read; its ready message counts as the answer to call 1.
Hand == {c \in Calls : \/ worker.st = "busy" /\ c = worker.req
                       \/ worker.st = "boot" /\ c = 1}
Tokens == Ids(buf) \cup Ids(out) \cup Hand \cup Seen(inp)
\* What a reader may still be given.
Live == {c \in Tokens : c \in Ids(buf) \/ c \in Ids(out) \/ Alive}

\* Every message under way is that of one call, and is in one place.
Mail ==
    /\ Tokens \subseteq 1..calls
    /\ NoTwice(inp) /\ NoTwiceId(out) /\ NoTwiceId(buf)
    /\ Ids(buf) \cap Ids(out) = {} /\ Ids(buf) \cap Hand = {} /\ Ids(buf) \cap Seen(inp) = {}
    /\ Ids(out) \cap Hand = {} /\ Ids(out) \cap Seen(inp) = {} /\ Hand \cap Seen(inp) = {}
    /\ worker.st = "busy" => worker.req # 0

\* Threads in a call belong to the open burst, each with a call of its own, and
\* the call of a thread about to write has left no trace.
Callers ==
    /\ \A t \in Busy : th[t].id \in 1..calls /\ burst[th[t].id] = era
    /\ \A t, u \in Busy : th[t].id = th[u].id => t = u
    /\ \A t \in Threads : th[t].pc = "write" =>
         th[t].id \notin Tokens /\ \A c \in Calls : got[c] # th[t].id

\* What a thread may still read is of the open burst.
Current ==
    proc \/ (\E t \in Threads : th[t].pc = "read") => \A c \in Live : burst[c] = era

\* Answers given are gone, were given once and within their burst.
Given ==
    \A c \in Calls : got[c] # 0 =>
        /\ c <= calls /\ got[c] <= calls /\ got[c] \notin Tokens
        /\ burst[got[c]] = burst[c]
        /\ \A d \in Calls : got[d] = got[c] => d = c

Waiting == {t \in Threads : th[t].pc \in {"select", "read", "terminate"}}
Unread == Len(out) + Len(buf)
Owed == IF worker.st \in {"boot", "busy"} THEN 1 + Len(inp)
        ELSE IF worker.st = "up" THEN Len(inp) ELSE 0

\* No more answers are under way or owed than threads wait.
Count ==
    /\ proc => Unread + Owed <= Cardinality(Waiting)
    /\ Unread + Len(inp) <= Cardinality(Threads)

IInv == Types /\ Unborn /\ Mail /\ Callers /\ Current /\ Given /\ Count

-----------------------------------------------------------------------------
(* The operators *)

\* The positions of a sequence that grows at its end.
LEMMA Appended ==
    ASSUME NEW S, NEW s \in Seq(S), NEW e \in S
    PROVE  /\ Append(s, e) \in Seq(S) /\ Len(Append(s, e)) = Len(s) + 1 /\ Len(s) \in Nat
           /\ DOMAIN s = 1..Len(s) /\ DOMAIN Append(s, e) = 1..(Len(s) + 1)
           /\ \A k \in 1..Len(s) : Append(s, e)[k] = s[k]
           /\ Append(s, e)[Len(s) + 1] = e
           /\ \A k \in 1..(Len(s) + 1) : k \in 1..Len(s) \/ k = Len(s) + 1
<1>1. Len(s) \in Nat /\ DOMAIN s = 1..Len(s)  BY LenProperties
<1>2. Append(s, e) \in Seq(S) /\ Len(Append(s, e)) = Len(s) + 1  OBVIOUS
<1>3. DOMAIN Append(s, e) = 1..(Len(s) + 1)  BY <1>2, LenProperties
<1>4. \A k \in 1..Len(s) : Append(s, e)[k] = s[k]  OBVIOUS
<1>5. Append(s, e)[Len(s) + 1] = e  OBVIOUS
<1>6. \A k \in 1..(Len(s) + 1) : k \in 1..Len(s) \/ k = Len(s) + 1  BY <1>1
<1> QED  BY <1>1, <1>2, <1>3, <1>4, <1>5, <1>6

\* The positions of a sequence that loses its head.
LEMMA Shortened ==
    ASSUME NEW S, NEW s \in Seq(S), s # <<>>
    PROVE  /\ Tail(s) \in Seq(S) /\ Len(Tail(s)) = Len(s) - 1
           /\ Len(s) \in Nat /\ Len(s) >= 1 /\ DOMAIN s = 1..Len(s)
           /\ DOMAIN Tail(s) = 1..(Len(s) - 1)
           /\ \A k \in 1..(Len(s) - 1) : Tail(s)[k] = s[k + 1] /\ k + 1 \in 1..Len(s)
           /\ Head(s) = s[1] /\ Head(s) \in S
<1>1. Len(s) \in Nat /\ DOMAIN s = 1..Len(s)  BY LenProperties
<1>2. Tail(s) \in Seq(S) /\ Len(Tail(s)) = Len(s) - 1 /\ Head(s) \in S  BY HeadTailProperties
<1>3. Len(s) >= 1  BY <1>1, EmptySeq
<1>4. DOMAIN Tail(s) = 1..(Len(s) - 1)  BY <1>2, LenProperties
<1>5. \A k \in 1..(Len(s) - 1) : Tail(s)[k] = s[k + 1] /\ k + 1 \in 1..Len(s)  BY <1>1, <1>3
<1>6. Head(s) = s[1]  OBVIOUS
<1> QED  BY <1>1, <1>2, <1>3, <1>4, <1>5, <1>6

LEMMA AppendSeen ==
    ASSUME NEW s \in Seq(Calls), NEW e \in Calls
    PROVE  /\ Seen(Append(s, e)) = Seen(s) \cup {e}
           /\ NoTwice(s) /\ e \notin Seen(s) => NoTwice(Append(s, e))
<1> DEFINE a == Append(s, e)  n == Len(s)
<1>1. /\ n \in Nat /\ DOMAIN s = 1..n /\ DOMAIN a = 1..(n + 1)
      /\ \A k \in 1..n : a[k] = s[k]
      /\ a[n + 1] = e /\ \A k \in 1..(n + 1) : k \in 1..n \/ k = n + 1
  BY Appended
<1> HIDE DEF a, n
<1>2. 1..n \subseteq 1..(n + 1) /\ n + 1 \in 1..(n + 1)  BY <1>1
<1>3. Seen(a) = Seen(s) \cup {e}  BY <1>1, <1>2 DEF Seen
<1>4. NoTwice(s) /\ e \notin Seen(s) => NoTwice(a)  BY <1>1, <1>2 DEF Seen, NoTwice
<1> QED  BY <1>3, <1>4 DEF a

LEMMA AppendIds ==
    ASSUME NEW s \in Seq(Answer), NEW e \in Answer
    PROVE  /\ Ids(Append(s, e)) = Ids(s) \cup {e.id}
           /\ NoTwiceId(s) /\ e.id \notin Ids(s) => NoTwiceId(Append(s, e))
<1> DEFINE a == Append(s, e)  n == Len(s)
<1>1. /\ n \in Nat /\ DOMAIN s = 1..n /\ DOMAIN a = 1..(n + 1)
      /\ \A k \in 1..n : a[k] = s[k]
      /\ a[n + 1] = e /\ \A k \in 1..(n + 1) : k \in 1..n \/ k = n + 1
  BY Appended
<1> HIDE DEF a, n
<1>2. 1..n \subseteq 1..(n + 1) /\ n + 1 \in 1..(n + 1)  BY <1>1
<1>3. Ids(a) = Ids(s) \cup {e.id}  BY <1>1, <1>2 DEF Ids
<1>4. NoTwiceId(s) /\ e.id \notin Ids(s) => NoTwiceId(a)  BY <1>1, <1>2 DEF Ids, NoTwiceId
<1> QED  BY <1>3, <1>4 DEF a

LEMMA TailSeen ==
    ASSUME NEW s \in Seq(Calls), s # <<>>, NoTwice(s)
    PROVE  /\ Head(s) \in Seen(s) /\ Seen(Tail(s)) \subseteq Seen(s) \ {Head(s)}
           /\ NoTwice(Tail(s))
<1> DEFINE u == Tail(s)  n == Len(s)
<1>1. /\ n \in Nat /\ n >= 1 /\ DOMAIN s = 1..n /\ DOMAIN u = 1..(n - 1)
      /\ \A k \in 1..(n - 1) : u[k] = s[k + 1] /\ k + 1 \in 1..n
      /\ Head(s) = s[1] /\ Head(s) \in Calls
  BY Shortened
<1> HIDE DEF u, n
<1>2. 1 \in 1..n  BY <1>1
<1>3. Head(s) \in Seen(s)  BY <1>1, <1>2 DEF Seen
<1>4. ASSUME NEW k \in 1..(n - 1) PROVE u[k] \in Seen(s) /\ u[k] # Head(s)
  BY <1>1, <1>2 DEF Seen, NoTwice
<1>5. ASSUME NEW i \in 1..(n - 1), NEW j \in 1..(n - 1), u[i] = u[j] PROVE i = j
  <2>1. i + 1 = j + 1  BY <1>1, <1>5 DEF NoTwice
  <2> QED  BY <2>1
<1>6. Seen(u) \subseteq Seen(s) \ {Head(s)} /\ NoTwice(u)  BY <1>1, <1>4, <1>5 DEF Seen, NoTwice
<1> QED  BY <1>3, <1>6 DEF u

LEMMA TailIds ==
    ASSUME NEW s \in Seq(Answer), s # <<>>, NoTwiceId(s)
    PROVE  /\ Head(s).id \in Ids(s) /\ Ids(Tail(s)) \subseteq Ids(s) \ {Head(s).id}
           /\ NoTwiceId(Tail(s))
<1> DEFINE u == Tail(s)  n == Len(s)
<1>1. /\ n \in Nat /\ n >= 1 /\ DOMAIN s = 1..n /\ DOMAIN u = 1..(n - 1)
      /\ \A k \in 1..(n - 1) : u[k] = s[k + 1] /\ k + 1 \in 1..n
      /\ Head(s) = s[1] /\ Head(s) \in Answer
  BY Shortened
<1> HIDE DEF u, n
<1>2. 1 \in 1..n  BY <1>1
<1>3. Head(s).id \in Ids(s)  BY <1>1, <1>2 DEF Ids
<1>4. ASSUME NEW k \in 1..(n - 1) PROVE u[k].id \in Ids(s) /\ u[k].id # Head(s).id
  <2>1. /\ k + 1 \in DOMAIN s /\ 1 \in DOMAIN s /\ k + 1 # 1
        /\ u[k].id = s[k + 1].id /\ Head(s).id = s[1].id
    BY <1>1, <1>2
  <2>2. s[k + 1].id \in Ids(s)  BY <2>1, Zenon DEF Ids
  <2>3. s[k + 1].id # s[1].id  BY <2>1, Zenon DEF NoTwiceId
  <2> QED  BY <2>1, <2>2, <2>3, Zenon
<1>5. ASSUME NEW i \in 1..(n - 1), NEW j \in 1..(n - 1), u[i].id = u[j].id PROVE i = j
  <2>1. /\ i + 1 \in DOMAIN s /\ j + 1 \in DOMAIN s /\ i \in Int /\ j \in Int
        /\ s[i + 1].id = s[j + 1].id
    BY <1>1, <1>5
  <2>2. i + 1 = j + 1  BY <2>1, Zenon DEF NoTwiceId
  <2> QED  BY <2>1, <2>2
<1>6. Ids(u) \subseteq Ids(s) \ {Head(s).id} /\ NoTwiceId(u)
  <2>1. ASSUME NEW k \in DOMAIN u PROVE u[k].id \in Ids(s) \ {Head(s).id}  BY <1>1, <1>4, Zenon
  <2>2. Ids(u) \subseteq Ids(s) \ {Head(s).id}  BY <2>1, Zenon DEF Ids
  <2>3. NoTwiceId(u)  BY <1>1, <1>5, Zenon DEF NoTwiceId
  <2> QED  BY <2>2, <2>3
<1> QED  BY <1>3, <1>6 DEF u

LEMMA NoMail ==
    Seen(<<>>) = {} /\ Ids(<<>>) = {} /\ NoTwice(<<>>) /\ NoTwiceId(<<>>) /\ Len(<<>>) = 0
BY DEF Seen, Ids, NoTwice, NoTwiceId

\* A thread that begins or ends to wait changes the count by one.
LEMMA WaitingIs ==
    ASSUME Types, NEW t \in Threads, NEW r \in Recs, th' = [th EXCEPT ![t] = r]
    PROVE  /\ IsFiniteSet(Waiting) /\ Cardinality(Waiting) \in Nat
           /\ Cardinality(Waiting') \in Nat /\ Cardinality(Waiting') <= Cardinality(Threads)
           /\ Cardinality(Threads) \in Nat
           /\ LET was == th[t].pc \in {"select", "read", "terminate"}
                  is == r.pc \in {"select", "read", "terminate"}
              IN  Cardinality(Waiting') = IF is /\ ~was THEN Cardinality(Waiting) + 1
                                          ELSE IF was /\ ~is THEN Cardinality(Waiting) - 1
                                          ELSE Cardinality(Waiting)
<1>0. IsFiniteSet(Threads) /\ Cardinality(Threads) \in Nat  BY HostAssumption, FS_CardinalityType
<1>1. Waiting \subseteq Threads /\ Waiting' \subseteq Threads  BY DEF Waiting
<1>2. IsFiniteSet(Waiting) /\ IsFiniteSet(Waiting') /\ Cardinality(Waiting') <= Cardinality(Threads)
  BY <1>0, <1>1, FS_Subset
<1>3. Cardinality(Waiting) \in Nat /\ Cardinality(Waiting') \in Nat  BY <1>2, FS_CardinalityType
<1>4. \A u \in Threads : th'[u] = IF u = t THEN r ELSE th[u]  BY DEF Types
<1> DEFINE Set == {"select", "read", "terminate"}
<1>5. CASE r.pc \in Set /\ th[t].pc \notin Set
  <2>1. Waiting' = Waiting \cup {t} /\ t \notin Waiting  BY <1>4, <1>5 DEF Waiting
  <2>2. Cardinality(Waiting \cup {t}) = Cardinality(Waiting) + 1  BY <1>2, <2>1, FS_AddElement
  <2> QED  BY <1>0, <1>2, <1>3, <1>5, <2>1, <2>2
<1>6. CASE r.pc \notin Set /\ th[t].pc \in Set
  <2>1. Waiting' = Waiting \ {t} /\ t \in Waiting  BY <1>4, <1>6 DEF Waiting
  <2>2. Cardinality(Waiting \ {t}) = Cardinality(Waiting) - 1  BY <1>2, <2>1, FS_RemoveElement
  <2> QED  BY <1>0, <1>2, <1>3, <1>6, <2>1, <2>2
<1>7. CASE r.pc \in Set <=> th[t].pc \in Set
  <2>1. Waiting' = Waiting  BY <1>4, <1>7 DEF Waiting
  <2> QED  BY <1>0, <1>2, <1>3, <1>7, <2>1
<1> QED  BY <1>5, <1>6, <1>7

-----------------------------------------------------------------------------
(* The invariant is preserved *)

USE DEF kept

LEMMA InitInv == Init => IInv
<1> SUFFICES ASSUME Init PROVE IInv  OBVIOUS
<1> USE HostAssumption DEF Init
<1>1. Types
  <2>1. inp \in Seq(Calls) /\ out \in Seq(Answer) /\ buf \in Seq(Answer)  BY EmptySeq
  <2>2. 0 \in 0..MaxCalls /\ Idle \in Recs  BY DEF Idle, Recs
  <2>3. th \in [Threads -> Recs]  BY <2>2
  <2>4. got \in [Calls -> 0..MaxCalls] /\ burst \in [Calls -> 0..MaxCalls]  BY <2>2
  <2>5. worker \in [st: {"none", "boot", "up", "busy", "dead"}, req: 0..MaxCalls]  BY <2>2
  <2>6. calls \in 0..MaxCalls /\ era \in 0..calls  BY <2>2
  <2> QED  BY <2>1, <2>3, <2>4, <2>5, <2>6 DEF Types
<1>2. Busy = {} /\ Waiting = {} /\ ~Alive /\ Hand = {}  BY DEF Busy, Waiting, Idle, Alive, Hand
<1>3. Unborn  BY <1>2 DEF Unborn
<1>4. Tokens = {} /\ Live = {}  BY <1>2, NoMail DEF Tokens, Live
<1>5. Mail  BY <1>2, <1>4, NoMail DEF Mail
<1>6. Callers /\ Current  BY <1>2, <1>4 DEF Callers, Current, Busy, Idle
<1>7. Given  BY DEF Given
<1>8. Count
  <2>1. Cardinality(Threads) \in Nat  BY FS_CardinalityType
  <2>2. proc = FALSE /\ Unread = 0 /\ Len(inp) = 0  BY NoMail DEF Unread
  <2> QED  BY <2>1, <2>2 DEF Count
<1> QED  BY <1>1, <1>3, <1>5, <1>6, <1>7, <1>8 DEF IInv

\* While no thread moves, messages that only vanish leave the threads in order.
LEMMA ThreadsKept ==
    ASSUME IInv, UNCHANGED <<th, got, calls, burst, era, proc>>,
           Tokens' \subseteq Tokens, Live' \subseteq Live
    PROVE  Callers' /\ Current' /\ Given'
<1> USE DEF IInv
<1>1. Busy' = Busy  BY DEF Busy
<1>2. Callers'  BY <1>1 DEF Callers
<1>3. Current'  BY DEF Current
<1>4. Given'  BY DEF Given
<1> QED  BY <1>2, <1>3, <1>4

\* The numbers the counting argument adds.
LEMMA CountTypes ==
    ASSUME Types
    PROVE  /\ Len(inp) \in Nat /\ Len(out) \in Nat /\ Len(buf) \in Nat
           /\ IsFiniteSet(Waiting) /\ Cardinality(Waiting) \in Nat
           /\ Cardinality(Threads) \in Nat /\ Cardinality(Waiting) <= Cardinality(Threads)
<1>1. Waiting \subseteq Threads  BY DEF Waiting
<1>2. IsFiniteSet(Waiting) /\ Cardinality(Waiting) <= Cardinality(Threads)
  BY <1>1, HostAssumption, FS_Subset
<1>3. Cardinality(Waiting) \in Nat /\ Cardinality(Threads) \in Nat
  BY <1>2, HostAssumption, FS_CardinalityType
<1>4. Len(inp) \in Nat /\ Len(out) \in Nat /\ Len(buf) \in Nat  BY LenProperties DEF Types
<1> QED  BY <1>2, <1>3, <1>4

\* The worker turns the request it holds, or its start, into one answer.
LEMMA AnswerInv ==
    ASSUME IInv, NEW c \in Calls, Hand = {c}, NEW ok \in BOOLEAN,
           worker.st \in {"boot", "busy"}, worker' = [st |-> "up", req |-> 0] \/ worker' = Dead,
           out' = Append(out, [id |-> c, ok |-> ok]), UNCHANGED inp, Quiet
    PROVE  IInv'
<1> USE HostAssumption DEF IInv, Quiet
<1> DEFINE a == [id |-> c, ok |-> ok]
<1>0. a \in Answer /\ a.id = c  BY DEF Answer
<1>1. /\ Ids(out') = Ids(out) \cup {c} /\ (NoTwiceId(out) /\ c \notin Ids(out) => NoTwiceId(out'))
      /\ out' \in Seq(Answer) /\ Len(out') = Len(out) + 1
  BY <1>0, AppendIds, Appended DEF Types
<1>2. Types'  BY <1>1 DEF Types, Dead
<1>3. Hand' = {}  BY DEF Hand, Dead
<1>4. Alive  BY DEF Alive
<1>5. Tokens' = Tokens  BY <1>1, <1>3 DEF Tokens
<1>6. Live' \subseteq Live  BY <1>1, <1>4, <1>5 DEF Live
<1>7. Mail'  BY <1>1, <1>3, <1>5 DEF Mail, Dead
<1>8. Unborn'
  <2>1. c \in 1..calls  BY DEF Mail, Tokens
  <2>2. calls # 0 /\ calls' = calls /\ entry' = entry /\ proc' = proc  BY <2>1 DEF Calls
  <2> QED  BY <1>4, <2>2 DEF Unborn
<1>9. Count'
  <2>1. /\ Len(inp) \in Nat /\ Len(out) \in Nat /\ Len(buf) \in Nat
        /\ Cardinality(Waiting) \in Nat /\ Cardinality(Threads) \in Nat
        /\ Cardinality(Waiting) <= Cardinality(Threads)
    BY CountTypes
  <2>2. proc  BY <1>4 DEF Unborn
  <2>3. Owed = 1 + Len(inp) /\ Owed' \in {0, Len(inp)}  BY DEF Owed, Dead
  <2>4. Waiting' = Waiting /\ Unread' = Unread + 1 /\ Unread \in Nat
    BY <1>1, <2>1 DEF Waiting, Unread
  <2>5. Unread + 1 + Len(inp) <= Cardinality(Waiting)  BY <2>1, <2>2, <2>3, <2>4 DEF Count
  <2> QED  BY <2>1, <2>3, <2>4, <2>5 DEF Count
<1> QED  BY <1>2, <1>5, <1>6, <1>7, <1>8, <1>9, ThreadsKept

LEMMA RecvInv ==
    ASSUME IInv, Recv
    PROVE  IInv'
<1> USE HostAssumption DEF IInv, Quiet, Recv
<1>1. /\ Head(inp) \in Seen(inp) /\ Seen(inp') \subseteq Seen(inp) \ {Head(inp)} /\ NoTwice(inp')
      /\ inp' \in Seq(Calls) /\ Len(inp') = Len(inp) - 1 /\ Head(inp) \in Calls
  BY TailSeen, Shortened DEF Types, Mail
<1>2. Types'
  <2>1. worker' \in [st: {"none", "boot", "up", "busy", "dead"}, req: 0..MaxCalls]
    <3>1. Head(inp) \in 0..MaxCalls  BY <1>1 DEF Calls
    <3> QED  BY <3>1
  <2> QED  BY <1>1, <2>1 DEF Types
<1>3. Hand = {} /\ Hand' = {Head(inp)}  BY <1>1 DEF Hand, Calls
<1>4. Alive /\ Alive'  BY DEF Alive
<1>5. Tokens' \subseteq Tokens  BY <1>1, <1>3 DEF Tokens
<1>6. Live' \subseteq Live  BY <1>4, <1>5 DEF Live
<1>7. Mail'  BY <1>1, <1>3, <1>5 DEF Mail, Calls
<1>8. Unborn'  BY <1>4 DEF Unborn, Busy
<1>9. Count'
  <2>1. Len(inp) \in Nat /\ Len(out) \in Nat /\ Len(buf) \in Nat /\ Cardinality(Threads) \in Nat
    BY CountTypes
  <2>2. Owed = Len(inp) /\ Owed' = 1 + (Len(inp) - 1)  BY <1>1 DEF Owed
  <2>3. Waiting' = Waiting /\ Unread' = Unread /\ Unread \in Nat  BY <2>1 DEF Waiting, Unread
  <2> QED  BY <1>1, <2>1, <2>2, <2>3 DEF Count
<1> QED  BY <1>2, <1>5, <1>6, <1>7, <1>8, <1>9, ThreadsKept

LEMMA CrashInv ==
    ASSUME IInv, Crash
    PROVE  IInv'
<1> USE HostAssumption DEF IInv, Quiet, Crash
<1>1. inp' = <<>> /\ Seen(inp') = {} /\ NoTwice(inp') /\ Len(inp') = 0  BY NoMail
<1>2. Types'
  <2>1. inp' \in Seq(Calls)  BY <1>1, EmptySeq
  <2> QED  BY <2>1 DEF Types, Dead
<1>3. Hand' = {} /\ ~Alive'  BY DEF Hand, Alive, Dead
<1>4. Tokens' \subseteq Tokens  BY <1>1, <1>3 DEF Tokens
<1>5. Live' \subseteq Live  BY <1>3, <1>4 DEF Live
<1>6. Mail'  BY <1>1, <1>3, <1>4 DEF Mail, Dead
<1>7. Unborn'  BY <1>1, <1>3 DEF Unborn, Busy
<1>8. Count'
  <2>1. Len(inp) \in Nat /\ Len(out) \in Nat /\ Len(buf) \in Nat /\ Cardinality(Threads) \in Nat
        /\ Cardinality(Waiting) \in Nat
    BY CountTypes
  <2>2. Owed \in Nat /\ Owed' = 0  BY <2>1 DEF Owed, Dead
  <2>3. Waiting' = Waiting /\ Unread' = Unread /\ Unread \in Nat  BY <2>1 DEF Waiting, Unread
  <2> QED  BY <1>1, <2>1, <2>2, <2>3 DEF Count
<1> QED  BY <1>2, <1>4, <1>5, <1>6, <1>7, <1>8, ThreadsKept

LEMMA WorkerInv ==
    ASSUME IInv, Worker
    PROVE  IInv'
<1> USE HostAssumption
<1>1. CASE Boot
  <2>1. Hand = {1} /\ 1 \in Calls  BY <1>1 DEF Boot, Hand, Calls
  <2> QED  BY <1>1, <2>1, AnswerInv DEF Boot
<1>2. CASE Reply
  <2>1. Hand = {worker.req} /\ worker.req \in Calls
    BY <1>2 DEF Reply, Hand, Calls, IInv, Types, Mail
  <2> QED  BY <1>2, <2>1, AnswerInv DEF Reply
<1> QED  BY <1>1, <1>2, RecvInv, CrashInv DEF Worker

\* With a process and no thread waiting, nothing is under way.
LEMMA NothingOwed ==
    ASSUME IInv, proc, Waiting = {}
    PROVE  Live = {}
<1> USE DEF IInv
<1>1. /\ Len(inp) \in Nat /\ Len(out) \in Nat /\ Len(buf) \in Nat  BY CountTypes
<1>2. Unread + Owed <= 0  BY FS_EmptySet DEF Count
<1>3. Unread = Len(out) + Len(buf) /\ Owed \in Nat  BY <1>1 DEF Unread, Owed
<1>4. Len(out) = 0 /\ Len(buf) = 0 /\ Owed = 0  BY <1>1, <1>2, <1>3
<1>5. out = <<>> /\ buf = <<>>  BY <1>4, EmptySeq DEF Types
<1>6. Ids(out) = {} /\ Ids(buf) = {}  BY <1>5, NoMail
<1>7. Alive => Hand = {} /\ Seen(inp) = {}
  <2> SUFFICES ASSUME Alive PROVE Hand = {} /\ Seen(inp) = {}  OBVIOUS
  <2>1. worker.st = "up" /\ Len(inp) = 0  BY <1>1, <1>4 DEF Owed, Alive, Types
  <2>2. inp = <<>>  BY <2>1, EmptySeq DEF Types
  <2> QED  BY <2>1, <2>2, NoMail DEF Hand
<1> QED  BY <1>6, <1>7 DEF Live, Tokens

\* A call takes a number nobody has and opens a burst if none is open.
LEMMA CallInv ==
    ASSUME IInv, NEW t \in Threads, th[t].pc \in {"idle", "ok"}, entry # "none",
           NEW kind \in {"hook", "ready", "init", "shutdown"}, Call(t, kind, "write"),
           UNCHANGED <<worker, inp, out, buf, proc, entry, got>>
    PROVE  IInv'
<1> USE HostAssumption DEF IInv
<1> DEFINE n == calls + 1  r == [pc |-> "write", kind |-> kind, id |-> n]
<1>0. /\ calls < MaxCalls /\ calls' = n /\ th' = [th EXCEPT ![t] = r]
      /\ era' = IF Others(t) = {} THEN era + 1 ELSE era
      /\ burst' = [burst EXCEPT ![n] = era'] /\ crowd' \in BOOLEAN /\ blind' = blind
  BY DEF Call
<1>1. /\ calls \in Nat /\ n \in Calls /\ n > calls /\ 1..calls \subseteq 1..n /\ n \notin 1..calls
      /\ 1..calls \subseteq Calls
  BY <1>0 DEF Types, Calls
<1>2. r \in Recs /\ r.pc = "write" /\ r.id = n  BY <1>1 DEF Recs, Calls
<1> HIDE DEF r, n
<1>3. \A u \in Threads : th'[u] = IF u = t THEN r ELSE th[u]  BY <1>0 DEF Types
<1>4. era' \in 0..calls' /\ era' \in 0..MaxCalls  BY <1>0, <1>1 DEF Types, Calls, n
<1>5. Types'
  <2>1. burst' \in [Calls -> 0..MaxCalls]  BY <1>0, <1>1, <1>4 DEF Types
  <2>2. th' \in [Threads -> Recs]  BY <1>0, <1>2 DEF Types
  <2>3. calls' \in 0..MaxCalls  BY <1>0, <1>1 DEF Calls
  <2> QED  BY <1>0, <1>4, <2>1, <2>2, <2>3 DEF Types
<1>6. Unborn'  BY DEF Unborn, Alive
<1>7. Hand' = Hand /\ Tokens' = Tokens /\ Live' = Live /\ Live \subseteq Tokens
  BY DEF Tokens, Live, Hand, Alive
<1>8. Mail'
  <2>1. Tokens' \subseteq 1..calls'  BY <1>0, <1>1, <1>7 DEF Mail
  <2> QED  BY <1>7, <2>1 DEF Mail
<1>9. \A c \in 1..calls : burst'[c] = burst[c]  BY <1>0, <1>1 DEF Types
<1>10. \A c \in 1..calls : n # c  BY <1>1
<1>11. burst'[n] = era'  BY <1>0, <1>1 DEF Types
<1>12. \A u \in Threads : u \in Busy' <=> u = t \/ u \in Others(t)
  BY <1>2, <1>3 DEF Busy, Others
<1>13. \A u \in Others(t) : /\ u # t /\ u \in Busy /\ th'[u] = th[u] /\ u \in Threads
                            /\ era' = era /\ th[u].id \in 1..calls /\ burst[th[u].id] = era
  BY <1>0, <1>3 DEF Others, Busy, Callers
<1>14. Callers'
  <2>1. \A u \in Busy' : th'[u].id \in 1..calls' /\ burst'[th'[u].id] = era'
    <3> SUFFICES ASSUME NEW u \in Busy' PROVE th'[u].id \in 1..calls' /\ burst'[th'[u].id] = era'
      OBVIOUS
    <3>0. u \in Threads  BY DEF Busy
    <3>1. CASE u = t
      <4>1. n \in 1..n  BY <1>1 DEF Calls
      <4> QED  BY <1>0, <1>2, <1>3, <1>11, <3>1, <4>1
    <3>2. CASE u \in Others(t)  BY <1>0, <1>1, <1>9, <1>13, <3>2
    <3> QED  BY <1>12, <3>0, <3>1, <3>2
  <2>2. \A u, v \in Busy' : th'[u].id = th'[v].id => u = v
    <3> SUFFICES ASSUME NEW u \in Busy', NEW v \in Busy', th'[u].id = th'[v].id PROVE u = v
      OBVIOUS
    <3>0. u \in Threads /\ v \in Threads  BY DEF Busy
    <3>1. th'[t].id = n  BY <1>2, <1>3
    <3> QED  BY <1>10, <1>12, <1>13, <3>0, <3>1 DEF Callers
  <2>3. \A u \in Threads : th'[u].pc = "write" =>
          th'[u].id \notin Tokens' /\ \A c \in Calls : got'[c] # th'[u].id
    <3> SUFFICES ASSUME NEW u \in Threads, th'[u].pc = "write"
                 PROVE  th'[u].id \notin Tokens /\ \A c \in Calls : got[c] # th'[u].id
      BY <1>7
    <3>1. CASE u = t
      <4>1. th'[u].id = n  BY <1>2, <1>3, <3>1
      <4>2. n \notin Tokens  BY <1>1 DEF Mail
      <4>3. \A c \in Calls : got[c] # n
        <5>1. \A c \in Calls : got[c] \in Nat /\ got[c] <= calls
          BY <1>1 DEF Given, Types
        <5> QED  BY <1>1, <5>1 DEF Calls
      <4> QED  BY <4>1, <4>2, <4>3
    <3>2. CASE u # t  BY <1>3, <3>2 DEF Callers
    <3> QED  BY <3>1, <3>2
  <2> QED  BY <2>1, <2>2, <2>3 DEF Callers
<1>15. Current'
  <2> SUFFICES ASSUME proc \/ (\E u \in Threads : th'[u].pc = "read"), NEW c \in Live
               PROVE  burst'[c] = era'
    BY <1>7 DEF Current
  <2>1. c \in 1..calls  BY <1>7 DEF Mail
  <2>2. CASE Others(t) = {}
    <3>1. \A u \in Threads : u # t => th[u].pc = "idle"  BY <2>2 DEF Others, Busy
    <3>2. Waiting = {}  BY <3>1 DEF Waiting
    <3>3. ~\E u \in Threads : th'[u].pc = "read"  BY <1>2, <1>3, <3>1
    <3> QED  BY <3>2, <3>3, NothingOwed
  <2>3. CASE Others(t) # {}
    <3>1. era' = era  BY <1>0, <2>3
    <3>2. proc \/ \E u \in Threads : th[u].pc = "read"  BY <1>2, <1>3
    <3> QED  BY <1>9, <2>1, <3>1, <3>2 DEF Current
  <2> QED  BY <2>2, <2>3
<1>16. Given'
  <2> SUFFICES ASSUME NEW c \in Calls, got[c] # 0
               PROVE  /\ c <= calls' /\ got[c] <= calls' /\ got[c] \notin Tokens
                      /\ burst'[got[c]] = burst'[c]
                      /\ \A d \in Calls : got[d] = got[c] => d = c
    BY <1>7 DEF Given
  <2>1. /\ c <= calls /\ got[c] <= calls /\ got[c] \notin Tokens /\ burst[got[c]] = burst[c]
        /\ \A d \in Calls : got[d] = got[c] => d = c
    BY DEF Given
  <2>2. c \in 1..calls /\ got[c] \in 1..calls  BY <2>1 DEF Types, Calls
  <2>3. c <= n /\ got[c] <= n  BY <1>1, <2>2
  <2> QED  BY <1>0, <1>9, <2>1, <2>2, <2>3
<1>17. Count'
  <2>1. Cardinality(Waiting') = Cardinality(Waiting)  BY <1>0, <1>2, WaitingIs
  <2>2. Unread' = Unread /\ Owed' = Owed  BY DEF Unread, Owed
  <2> QED  BY <2>1, <2>2 DEF Count
<1> QED  BY <1>5, <1>6, <1>8, <1>14, <1>15, <1>16, <1>17

\* A call that returns is over, or Main looks at its outcome.
LEMMA Returned ==
    ASSUME Types, NEW t \in Threads, NEW ok \in BOOLEAN, Return(t, ok)
    PROVE  \E r \in Recs : /\ th' = [th EXCEPT ![t] = r] /\ r.pc \in {"idle", "ok", "failed"}
                           /\ r.pc # "idle" => r.id = th[t].id
<1>1. CASE th[t].kind = "hook"
  <2>1. th' = [th EXCEPT ![t] = Idle]  BY <1>1 DEF Return
  <2>2. Idle \in Recs /\ Idle.pc = "idle"  BY HostAssumption DEF Idle, Recs
  <2> QED  BY <2>1, <2>2
<1>2. CASE th[t].kind # "hook"
  <2> DEFINE pc == IF ok THEN "ok" ELSE "failed"  r == [th[t] EXCEPT !.pc = pc]
  <2>1. th' = [th EXCEPT ![t] = r]  BY <1>2 DEF Return, Types
  <2>2. th[t] \in Recs /\ pc \in {"ok", "failed"}  BY DEF Types
  <2> HIDE DEF pc
  <2>3. r \in Recs /\ r.pc = pc /\ r.id = th[t].id  BY <2>2 DEF Recs
  <2> QED  BY <2>1, <2>2, <2>3
<1> QED  BY <1>1, <1>2

\* The first call: the worker owes its ready message to Main, who waits.
LEMMA SpawnInv ==
    ASSUME IInv, Spawn
    PROVE  IInv'
<1> USE HostAssumption DEF IInv
<1>0. /\ calls = 0 /\ inp = <<>> /\ out = <<>> /\ buf = <<>> /\ Busy = {}
  BY DEF Spawn, Unborn
<1> DEFINE r == [pc |-> "select", kind |-> "ready", id |-> 1]
<1>1. /\ calls' = 1 /\ th' = [th EXCEPT ![Main] = r] /\ era' \in 0..1
      /\ burst' = [burst EXCEPT ![1] = era'] /\ crowd' \in BOOLEAN /\ blind' = blind
      /\ worker' = [st |-> "boot", req |-> 0] /\ proc' = TRUE /\ entry' = "loading"
      /\ UNCHANGED <<inp, out, buf, got>>
  BY <1>0 DEF Spawn, Call, Types
<1>2. r \in Recs /\ r.pc = "select" /\ r.id = 1 /\ 1 \in Calls  BY DEF Recs, Calls
<1> HIDE DEF r
<1>3. Types'
  <2>1. burst' \in [Calls -> 0..MaxCalls]  BY <1>1, <1>2 DEF Types
  <2>2. th' \in [Threads -> Recs]  BY <1>1, <1>2 DEF Types
  <2> QED  BY <1>1, <2>1, <2>2 DEF Types
<1>4. Unborn'  BY <1>1 DEF Unborn
<1>5. \A u \in Threads : th'[u] = IF u = Main THEN r ELSE th[u]  BY <1>1 DEF Types
<1>6. \A u \in Threads : th[u].pc = "idle"  BY <1>0 DEF Busy
<1>7. Hand' = {1}  BY <1>1, <1>2 DEF Hand
<1>8. Tokens' = {1} /\ Live' \subseteq {1}  BY <1>0, <1>1, <1>7, NoMail DEF Tokens, Live
<1>9. Mail'
  <2>1. Tokens' \subseteq 1..calls'  BY <1>1, <1>8
  <2> QED  BY <1>0, <1>1, <2>1, NoMail DEF Mail
<1>10. burst'[1] = era'  BY <1>1, <1>2 DEF Types
<1>11. Callers'
  <2>1. Busy' = {Main}  BY <1>2, <1>5, <1>6 DEF Busy
  <2>2. \A u \in Threads : th'[u].pc # "write"  BY <1>2, <1>5, <1>6
  <2> QED  BY <1>1, <1>2, <1>5, <1>10, <2>1, <2>2 DEF Callers
<1>12. Current'  BY <1>8, <1>10 DEF Current
<1>13. Given'
  <2>1. \A c \in Calls : got[c] = 0
    <3>1. \A c \in Calls : got[c] # 0 => c <= 0  BY <1>0 DEF Given
    <3> QED  BY <3>1 DEF Calls
  <2> QED  BY <1>1, <2>1 DEF Given
<1>14. Count'
  <2>1. /\ Cardinality(Waiting') = Cardinality(Waiting) + 1 /\ Cardinality(Waiting) \in Nat
        /\ Cardinality(Threads) \in Nat /\ Cardinality(Waiting') <= Cardinality(Threads)
    BY <1>1, <1>2, <1>6, WaitingIs
  <2>2. Unread' = 0 /\ Owed' = 1 /\ Len(inp') = 0  BY <1>0, <1>1, NoMail DEF Unread, Owed
  <2> QED  BY <2>1, <2>2 DEF Count
<1> QED  BY <1>3, <1>4, <1>9, <1>11, <1>12, <1>13, <1>14

\* A thread goes on with its call or ends it while messages only vanish.
LEMMA MoveInv ==
    ASSUME IInv, NEW t \in Busy, NEW r \in Recs, th' = [th EXCEPT ![t] = r],
           r.pc # "write", r.pc # "idle" => r.id = th[t].id,
           r.pc = "read" => proc, proc' => proc, UNCHANGED kept,
           Tokens' \subseteq Tokens, Live' \subseteq Live,
           \A c \in Calls : got'[c] = got[c] \/ got'[c] \in Tokens
    PROVE  Callers' /\ Current'
<1> USE DEF IInv
<1>1. t \in Threads  BY DEF Busy
<1>2. \A u \in Threads : th'[u] = IF u = t THEN r ELSE th[u]  BY <1>1 DEF Types
<1>3. \A u \in Busy' : u \in Busy /\ u \in Threads /\ th'[u].id = th[u].id
  BY <1>1, <1>2 DEF Busy
<1>4. \A u \in Threads : th'[u].pc = "write" => u # t /\ th'[u] = th[u]  BY <1>1, <1>2
<1>5. Callers'
  <2>1. \A u \in Busy' : th'[u].id \in 1..calls' /\ burst'[th'[u].id] = era'
    BY <1>3 DEF Callers
  <2>2. \A u, v \in Busy' : th'[u].id = th'[v].id => u = v  BY <1>3 DEF Callers
  <2>3. ASSUME NEW u \in Threads, th'[u].pc = "write"
        PROVE  th'[u].id \notin Tokens' /\ \A c \in Calls : got'[c] # th'[u].id
    <3>1. th[u].id \notin Tokens /\ \A c \in Calls : got[c] # th[u].id
      BY <1>4, <2>3 DEF Callers
    <3> QED  BY <1>4, <2>3, <3>1
  <2> QED  BY <2>1, <2>2, <2>3 DEF Callers
<1>6. Current'  BY <1>1, <1>2 DEF Current
<1> QED  BY <1>5, <1>6

\* The same when no message changes, with the count.
LEMMA QuietMoveInv ==
    ASSUME IInv, NEW t \in Busy, NEW r \in Recs, th' = [th EXCEPT ![t] = r],
           r.pc # "write", r.pc # "idle" => r.id = th[t].id,
           r.pc = "read" => proc, entry' = entry \/ entry' = "in",
           UNCHANGED <<worker, inp, out, buf, proc, got, kept>>,
           \/ ~proc \/ Unread + Owed = 0
           \/ th[t].pc \notin {"select", "read", "terminate"}
           \/ r.pc \in {"select", "read", "terminate"}
    PROVE  IInv'
<1> USE DEF IInv
<1>0. t \in Threads /\ entry # "none"  BY DEF Busy, Unborn
<1>1. Types'
  <2>1. th' \in [Threads -> Recs]  BY <1>0 DEF Types
  <2> QED  BY <2>1 DEF Types
<1>2. Unborn'  BY <1>0 DEF Unborn, Alive
<1>3. Hand' = Hand /\ Tokens' = Tokens /\ Live' = Live  BY DEF Tokens, Live, Hand, Alive
<1>4. Mail'  BY <1>3 DEF Mail
<1>5. Callers' /\ Current'  BY <1>3, MoveInv
<1>6. Given'  BY <1>3 DEF Given
<1>7. Count'
  <2>1. /\ Len(inp) \in Nat /\ Len(out) \in Nat /\ Len(buf) \in Nat
        /\ Cardinality(Waiting) \in Nat /\ Cardinality(Waiting') \in Nat
    BY <1>0, WaitingIs, CountTypes
  <2>2. Unread' = Unread /\ Owed' = Owed /\ Unread \in Nat /\ Owed \in Nat
    BY <2>1 DEF Unread, Owed
  <2>3. CASE ~proc \/ Unread + Owed = 0
    BY <2>1, <2>2, <2>3 DEF Count
  <2>4. CASE \/ th[t].pc \notin {"select", "read", "terminate"}
             \/ r.pc \in {"select", "read", "terminate"}
    <3>1. Cardinality(Waiting') \in {Cardinality(Waiting), Cardinality(Waiting) + 1}
      BY <1>0, <2>4, WaitingIs
    <3> QED  BY <2>1, <2>2, <3>1 DEF Count
  <2> QED  BY <2>3, <2>4
<1> QED  BY <1>1, <1>2, <1>4, <1>5, <1>6, <1>7

\* The same when the process is stopped: nothing is owed any more.
LEMMA StopMoveInv ==
    ASSUME IInv, NEW t \in Busy, NEW r \in Recs, th' = [th EXCEPT ![t] = r],
           r.pc \in {"idle", "ok", "failed"}, r.pc # "idle" => r.id = th[t].id,
           Stop, entry' = entry \/ entry' = "out",
           UNCHANGED <<out, buf, got, kept>>
    PROVE  IInv'
<1> USE HostAssumption DEF IInv, Stop
<1>0. t \in Threads /\ entry # "none"  BY DEF Busy, Unborn
<1>1. Types'
  <2>1. th' \in [Threads -> Recs]  BY <1>0 DEF Types
  <2>2. inp' \in Seq(Calls)  BY EmptySeq
  <2>3. worker' \in [st: {"none", "boot", "up", "busy", "dead"}, req: 0..MaxCalls]  BY DEF Dead
  <2> QED  BY <2>1, <2>2, <2>3 DEF Types
<1>2. ~Alive' /\ Hand' = {} /\ Seen(inp') = {} /\ NoTwice(inp') /\ Len(inp') = 0
  BY NoMail DEF Alive, Dead, Hand
<1>3. Unborn'  BY <1>0, <1>2 DEF Unborn
<1>4. Tokens' \subseteq Tokens /\ Live' \subseteq Live  BY <1>2 DEF Tokens, Live
<1>5. Mail'  BY <1>2, <1>4 DEF Mail, Dead
<1>6. Callers' /\ Current'  BY <1>4, MoveInv
<1>7. Given'  BY <1>4 DEF Given
<1>8. Count'
  <2>1. Len(inp) \in Nat /\ Len(out) \in Nat /\ Len(buf) \in Nat /\ Cardinality(Threads) \in Nat
    BY CountTypes
  <2>2. Unread' = Unread /\ Unread \in Nat  BY <2>1 DEF Unread
  <2> QED  BY <1>2, <2>1, <2>2 DEF Count
<1> QED  BY <1>1, <1>3, <1>5, <1>6, <1>7, <1>8

\* A request is written, or the call fails for want of a process.
LEMMA WriteInv ==
    ASSUME IInv, NEW t \in Threads, Write(t)
    PROVE  IInv'
<1> USE HostAssumption DEF IInv
<1>0. /\ th[t].pc = "write" /\ t \in Busy /\ th[t] \in Recs /\ entry # "none"
      /\ UNCHANGED <<worker, out, buf, proc, entry, got, kept>>
  BY DEF Write, Busy, Types, Unborn
<1>1. CASE ~(proc /\ Alive)
  <2>1. PICK ok \in BOOLEAN : Return(t, ok) /\ UNCHANGED inp  BY <1>1 DEF Write
  <2>2. PICK r \in Recs : /\ th' = [th EXCEPT ![t] = r] /\ r.pc \in {"idle", "ok", "failed"}
                          /\ r.pc # "idle" => r.id = th[t].id
    BY <2>1, Returned
  <2> QED  BY <1>0, <2>1, <2>2, QuietMoveInv
<1>2. CASE proc /\ Alive
  <2> DEFINE c == th[t].id  r == [th[t] EXCEPT !.pc = "select"]
  <2>1. inp' = Append(inp, c) /\ th' = [th EXCEPT ![t] = r]  BY <1>2 DEF Write, Types
  <2>2. r \in Recs /\ r.pc = "select" /\ r.id = c  BY <1>0 DEF Recs
  <2>3. /\ c \in 1..calls /\ c \in Calls /\ burst[c] = era /\ c \notin Tokens
        /\ \A d \in Calls : got[d] # c
    BY <1>0 DEF Callers, Types, Calls
  <2> HIDE DEF r, c
  <2>4. /\ Seen(inp') = Seen(inp) \cup {c} /\ (NoTwice(inp) /\ c \notin Seen(inp) => NoTwice(inp'))
        /\ inp' \in Seq(Calls) /\ Len(inp') = Len(inp) + 1
    BY <2>1, <2>3, AppendSeen, Appended DEF Types
  <2>5. Types'
    <3>1. th' \in [Threads -> Recs]  BY <2>1, <2>2 DEF Types
    <3> QED  BY <1>0, <2>4, <3>1 DEF Types
  <2>6. Unborn'  BY <1>0 DEF Unborn, Alive
  <2>7. /\ Hand' = Hand /\ Tokens' = Tokens \cup {c} /\ Live' \subseteq Live \cup {c}
    BY <1>0, <2>4 DEF Tokens, Live, Hand, Alive
  <2>8. Mail'
    <3>1. c \notin Seen(inp) /\ c \notin Hand /\ c \notin Ids(out) /\ c \notin Ids(buf)
      BY <2>3 DEF Tokens
    <3>2. Tokens' \subseteq 1..calls'  BY <1>0, <2>3, <2>7 DEF Mail
    <3> QED  BY <1>0, <2>4, <2>7, <3>1, <3>2 DEF Mail
  <2>9. \A u \in Threads : th'[u] = IF u = t THEN r ELSE th[u]  BY <2>1 DEF Types
  <2>10. \A u \in Threads : (u \in Busy' <=> u \in Busy) /\ th'[u].id = th[u].id
    BY <1>0, <2>2, <2>9 DEF Busy, c
  <2>11. Callers'
    <3>1. \A u \in Busy' : th'[u].id \in 1..calls' /\ burst'[th'[u].id] = era'
      BY <1>0, <2>10 DEF Callers, Busy
    <3>2. \A u, v \in Busy' : th'[u].id = th'[v].id => u = v
      BY <2>10 DEF Callers, Busy
    <3>3. ASSUME NEW u \in Threads, th'[u].pc = "write"
          PROVE  th'[u].id \notin Tokens' /\ \A d \in Calls : got'[d] # th'[u].id
      <4>1. u # t /\ th'[u] = th[u] /\ u \in Busy  BY <2>2, <2>9, <3>3 DEF Busy
      <4>2. th[u].id # c  BY <1>0, <4>1 DEF Callers, c
      <4> QED  BY <1>0, <2>7, <3>3, <4>1, <4>2 DEF Callers
    <3> QED  BY <3>1, <3>2, <3>3 DEF Callers
  <2>12. Current'  BY <1>0, <1>2, <2>3, <2>7 DEF Current
  <2>13. Given'  BY <1>0, <2>3, <2>7 DEF Given
  <2>14. Count'
    <3>1. /\ Len(inp) \in Nat /\ Len(out) \in Nat /\ Len(buf) \in Nat  BY CountTypes
    <3>2. /\ Cardinality(Waiting') = Cardinality(Waiting) + 1 /\ Cardinality(Waiting) \in Nat
          /\ Cardinality(Threads) \in Nat /\ Cardinality(Waiting') <= Cardinality(Threads)
      BY <1>0, <2>1, <2>2, WaitingIs
    <3>3. Unread' = Unread /\ Unread \in Nat  BY <1>0, <3>1 DEF Unread
    <3>4. Owed' = Owed + 1 /\ Owed >= Len(inp) /\ Owed \in Nat
      BY <1>0, <1>2, <2>4, <3>1 DEF Owed, Alive, Types
    <3>5. Unread + Owed <= Cardinality(Waiting)  BY <1>2 DEF Count
    <3> QED  BY <2>4, <3>1, <3>2, <3>3, <3>4, <3>5 DEF Count
  <2> QED  BY <2>5, <2>6, <2>8, <2>11, <2>12, <2>13, <2>14
<1> QED  BY <1>1, <1>2

\* The other moves of a thread that read no answer.
LEMMA WaitInv ==
    ASSUME IInv, NEW t \in Threads, Ready(t) \/ Timeout(t) \/ Terminate(t)
    PROVE  IInv'
<1> USE DEF IInv
<1>0. th[t].pc \in {"select", "terminate"} /\ t \in Busy /\ th[t] \in Recs
  BY DEF Ready, Timeout, Terminate, Busy, Types
<1>1. CASE Ready(t) /\ proc
  <2>1. th' = [th EXCEPT ![t] = [th[t] EXCEPT !.pc = "read"]]  BY <1>1 DEF Ready, Types
  <2>2. [th[t] EXCEPT !.pc = "read"] \in Recs  BY <1>0 DEF Recs
  <2>3. /\ [th[t] EXCEPT !.pc = "read"].pc = "read"
        /\ [th[t] EXCEPT !.pc = "read"].id = th[t].id
    BY <1>0 DEF Recs
  <2> QED  BY <1>0, <1>1, <2>1, <2>2, <2>3, QuietMoveInv DEF Ready
<1>2. CASE Ready(t) /\ ~proc
  <2>1. PICK r \in Recs : /\ th' = [th EXCEPT ![t] = r] /\ r.pc \in {"idle", "ok", "failed"}
                          /\ r.pc # "idle" => r.id = th[t].id
    BY <1>2, Returned DEF Ready
  <2> QED  BY <1>0, <1>2, <2>1, QuietMoveInv DEF Ready
<1>3. CASE Timeout(t)
  <2>1. th' = [th EXCEPT ![t] = [th[t] EXCEPT !.pc = "terminate"]]  BY <1>3 DEF Timeout, Types
  <2>2. [th[t] EXCEPT !.pc = "terminate"] \in Recs  BY <1>0 DEF Recs
  <2>3. /\ [th[t] EXCEPT !.pc = "terminate"].pc = "terminate"
        /\ [th[t] EXCEPT !.pc = "terminate"].id = th[t].id
    BY <1>0 DEF Recs
  <2> QED  BY <1>0, <1>3, <2>1, <2>2, <2>3, QuietMoveInv DEF Timeout
<1>4. CASE Terminate(t)
  <2>1. PICK r \in Recs : /\ th' = [th EXCEPT ![t] = r] /\ r.pc \in {"idle", "ok", "failed"}
                          /\ r.pc # "idle" => r.id = th[t].id
    BY <1>4, Returned DEF Terminate
  <2> QED  BY <1>0, <1>4, <2>1, StopMoveInv DEF Terminate
<1> QED  BY <1>1, <1>2, <1>3, <1>4

\* An answer is handed to the thread that reads it, the rest is kept for the next.
LEMMA ReceiveInv ==
    ASSUME IInv, NEW t \in Threads, th[t].pc = "read", NEW line \in Answer, Receive(t, line),
           UNCHANGED <<worker, inp, proc, entry, kept>>,
           line.id \in Ids(buf) \cup Ids(out), buf' \in Seq(Answer), out' \in Seq(Answer),
           Ids(buf') \subseteq (Ids(buf) \cup Ids(out)) \ {line.id},
           Ids(out') \subseteq Ids(out) \ {line.id}, Ids(buf') \cap Ids(out') = {},
           NoTwiceId(buf'), NoTwiceId(out'), Unread' = Unread - 1
    PROVE  IInv'
<1> USE HostAssumption DEF IInv
<1>0. t \in Busy /\ th[t].id \in 1..calls /\ th[t].id \in Calls /\ burst[th[t].id] = era /\ entry # "none"
  <2>1. t \in Busy  BY DEF Busy
  <2>2. th[t].id \in 1..calls /\ burst[th[t].id] = era /\ entry # "none"
    BY <2>1 DEF Callers, Unborn
  <2>3. 1..calls \subseteq Calls  BY DEF Types, Calls
  <2> QED  BY <2>1, <2>2, <2>3
<1> DEFINE c == th[t].id  a == line.id
<1>1. got' = [got EXCEPT ![c] = a] /\ a \in Calls /\ Return(t, line.ok) /\ line.ok \in BOOLEAN
  BY DEF Receive, Answer
<1>2. PICK r \in Recs : /\ th' = [th EXCEPT ![t] = r] /\ r.pc \in {"idle", "ok", "failed"}
                        /\ r.pc # "idle" => r.id = th[t].id
  BY <1>1, Returned
<1>3. a \in Tokens /\ a \in Live /\ a \in 1..calls  BY DEF Tokens, Live, Mail
<1>4. burst[a] = era /\ burst[c] = era  BY <1>0, <1>3 DEF Current
<1>5. Hand' = Hand /\ (Alive' <=> Alive) /\ Owed' = Owed  BY DEF Hand, Alive, Owed
<1>6. Tokens' \subseteq Tokens \ {a} /\ Live' \subseteq Live
  <2>1. a \notin Hand /\ a \notin Seen(inp)  BY DEF Mail
  <2>2. Tokens' \subseteq Tokens \ {a}  BY <1>5, <2>1 DEF Tokens
  <2> QED  BY <1>5, <2>2 DEF Live
<1> HIDE DEF c, a
<1>7. \A d \in Calls : got'[d] = IF d = c THEN a ELSE got[d]  BY <1>1 DEF Types
<1>8. Types'
  <2>1. got' \in [Calls -> 0..MaxCalls]
    <3>1. a \in 0..MaxCalls  BY <1>1 DEF Calls
    <3> QED  BY <1>1, <3>1 DEF Types
  <2>2. th' \in [Threads -> Recs]  BY <1>2 DEF Types
  <2> QED  BY <2>1, <2>2 DEF Types
<1>9. Unborn'  BY <1>0, <1>5 DEF Unborn
<1>10. Mail'  BY <1>5, <1>6 DEF Mail
<1>11. Callers' /\ Current'  BY <1>0, <1>2, <1>3, <1>6, <1>7, MoveInv
<1>12. Given'
  <2> SUFFICES ASSUME NEW d \in Calls, got'[d] # 0
               PROVE  /\ d <= calls /\ got'[d] <= calls /\ got'[d] \notin Tokens'
                      /\ burst[got'[d]] = burst[d]
                      /\ \A e \in Calls : got'[e] = got'[d] => e = d
    BY DEF Given
  <2>0. \A e \in Calls : got[e] # 0 => got[e] # a  BY <1>3 DEF Given
  <2>1. a # 0 /\ c <= calls /\ a <= calls /\ c \in Calls  BY <1>0, <1>1, <1>3 DEF c, Types, Calls
  <2>2. CASE d = c
    <3>1. got'[d] = a  BY <1>7, <2>2
    <3>2. \A e \in Calls : got'[e] = a => e = c  BY <1>7, <2>0, <2>1
    <3> QED  BY <1>4, <1>6, <2>1, <2>2, <3>1, <3>2
  <2>3. CASE d # c
    <3>1. got'[d] = got[d] /\ got[d] # a  BY <1>7, <2>0, <2>3
    <3>2. \A e \in Calls : got'[e] = got[d] => e = d  BY <1>7, <3>1 DEF Given
    <3> QED  BY <1>6, <3>1, <3>2 DEF Given
  <2> QED  BY <2>2, <2>3
<1>13. Count'
  <2>1. /\ Len(inp) \in Nat /\ Len(out) \in Nat /\ Len(buf) \in Nat
        /\ Cardinality(Threads) \in Nat
    BY CountTypes
  <2>2. Cardinality(Waiting') = Cardinality(Waiting) - 1 /\ Cardinality(Waiting) \in Nat
    BY <1>2, WaitingIs
  <2>3. Unread \in Nat /\ Owed \in Nat  BY <2>1 DEF Unread, Owed
  <2> QED  BY <1>5, <2>1, <2>2, <2>3 DEF Count
<1> QED  BY <1>8, <1>9, <1>10, <1>11, <1>12, <1>13

LEMMA ReadLineInv ==
    ASSUME IInv, NEW t \in Threads, ReadLine(t)
    PROVE  IInv'
<1> USE DEF IInv
<1>0. /\ th[t].pc = "read" /\ t \in Busy /\ UNCHANGED <<worker, inp, proc, entry, kept>>
      /\ Len(out) \in Nat /\ Len(buf) \in Nat /\ Len(inp) \in Nat
  BY CountTypes DEF ReadLine, Busy
<1>1. CASE buf # <<>> /\ Receive(t, Head(buf)) /\ buf' = Tail(buf) /\ UNCHANGED out
  <2>1. /\ Head(buf).id \in Ids(buf) /\ Ids(buf') \subseteq Ids(buf) \ {Head(buf).id}
        /\ NoTwiceId(buf') /\ buf' \in Seq(Answer) /\ Len(buf') = Len(buf) - 1
        /\ Head(buf) \in Answer
    BY <1>1, TailIds, Shortened DEF Types, Mail
  <2>2. Unread' = Unread - 1  BY <1>0, <1>1, <2>1 DEF Unread
  <2>3. /\ Ids(out') \subseteq Ids(out) \ {Head(buf).id} /\ NoTwiceId(out')
        /\ Ids(buf') \cap Ids(out') = {} /\ out' \in Seq(Answer)
    BY <1>1, <2>1 DEF Mail, Types
  <2> QED  BY <1>0, <1>1, <2>1, <2>2, <2>3, ReceiveInv
<1>2. CASE buf = <<>> /\ out # <<>> /\ Receive(t, Head(out)) /\ buf' = Tail(out) /\ out' = <<>>
  <2>1. /\ Head(out).id \in Ids(out) /\ Ids(buf') \subseteq Ids(out) \ {Head(out).id}
        /\ NoTwiceId(buf') /\ buf' \in Seq(Answer) /\ Len(buf') = Len(out) - 1
        /\ Head(out) \in Answer
    BY <1>2, TailIds, Shortened DEF Types, Mail
  <2>2. Ids(out') = {} /\ NoTwiceId(out') /\ out' \in Seq(Answer) /\ Len(out') = 0 /\ Len(buf) = 0
    BY <1>2, NoMail, EmptySeq
  <2>3. Unread' = Unread - 1  BY <1>0, <2>1, <2>2 DEF Unread
  <2>4. Ids(out') \subseteq Ids(out) \ {Head(out).id} /\ Ids(buf') \cap Ids(out') = {}
    BY <2>2
  <2> QED  BY <1>0, <1>2, <2>1, <2>2, <2>3, <2>4, ReceiveInv
<1>3. CASE buf = <<>> /\ out = <<>> /\ ~Alive /\ Return(t, FALSE) /\ UNCHANGED <<got, buf, out>>
  <2>1. PICK r \in Recs : /\ th' = [th EXCEPT ![t] = r] /\ r.pc \in {"idle", "ok", "failed"}
                          /\ r.pc # "idle" => r.id = th[t].id
    BY <1>3, Returned
  <2>2. Unread + Owed = 0  BY <1>3, NoMail DEF Unread, Owed, Alive
  <2> QED  BY <1>0, <1>3, <2>1, <2>2, QuietMoveInv
<1> QED  BY <1>1, <1>2, <1>3 DEF ReadLine

\* Main's steps between calls.
LEMMA LifecycleInv ==
    ASSUME IInv, Lifecycle \/ Unload
    PROVE  IInv'
<1> USE HostAssumption DEF IInv, MainAt
<1>i. Idle \in Recs /\ Idle.pc = "idle"  BY DEF Idle, Recs
<1>b. th[Main].pc # "idle" => Main \in Busy  BY DEF Busy
<1>1. CASE StartFails \/ LoadFails \/ Close
  BY <1>1, <1>i, <1>b, StopMoveInv DEF StartFails, LoadFails, Close, MainEnds
<1>2. CASE Register
  BY <1>2, <1>i, <1>b, QuietMoveInv DEF Register, MainEnds
<1>3. CASE Initialize \/ Refuse
  <2>1. Main \in Busy /\ entry # "none"  BY <1>3, <1>b DEF Initialize, Refuse, Unborn
  <2> QED  BY <1>3, <2>1, CallInv DEF Initialize, Refuse
<1>4. CASE Unload  BY <1>4, CallInv DEF Unload
<1> QED  BY <1>1, <1>2, <1>3, <1>4 DEF Lifecycle

LEMMA StutterInv == IInv /\ UNCHANGED vars => IInv'
<1> SUFFICES ASSUME IInv, UNCHANGED vars PROVE IInv'  OBVIOUS
<1> USE DEF IInv, vars
<1>1. Types'  BY DEF Types
<1>2. Busy' = Busy /\ Hand' = Hand /\ Tokens' = Tokens /\ Live' = Live
  BY DEF Busy, Hand, Tokens, Live, Alive
<1>3. Unborn' /\ Mail'  BY <1>2 DEF Unborn, Mail, Alive
<1>4. Callers' /\ Current' /\ Given'  BY <1>2, ThreadsKept
<1>5. Count'  BY DEF Count, Unread, Owed, Waiting
<1> QED  BY <1>1, <1>3, <1>4, <1>5

THEOREM Inductive == Spec => []IInv
<1>1. IInv /\ [Next]_vars => IInv'
  <2> SUFFICES ASSUME IInv, [Next]_vars PROVE IInv'  OBVIOUS
  <2>1. ASSUME NEW t \in Threads, Begin(t) PROVE IInv'  BY <2>1, CallInv DEF Begin
  <2>2. ASSUME NEW t \in Threads, Step(t) PROVE IInv'
    BY <2>2, WriteInv, WaitInv, ReadLineInv DEF Step
  <2> QED  BY <2>1, <2>2, SpawnInv, LifecycleInv, WorkerInv, StutterInv DEF Next
<1> QED  BY <1>1, InitInv, PTL DEF Spec

-----------------------------------------------------------------------------
(* The theorems *)

\* The state stays well typed, and no more messages are under way than threads
\* can have sent, whatever times out or dies.
THEOREM TypeCorrect == Spec => []TypeOK
<1>1. IInv => TypeOK
  <2> SUFFICES ASSUME IInv PROVE TypeOK  OBVIOUS
  <2> USE DEF IInv
  <2>1. Len(inp) + Len(out) + Len(buf) <= Cardinality(Threads)
    BY CountTypes DEF Count, Unread
  <2>2. era \in 0..MaxCalls  BY HostAssumption DEF Types
  <2> QED  BY <2>1, <2>2 DEF TypeOK, Types, Recs
<1> QED  BY <1>1, Inductive, PTL

\* Calls without a lock and messages without a number: still no answer is given
\* twice, and none is read by a call of a later burst.
THEOREM AnswersStayInBurst == Spec => []SameBurst
<1>1. IInv => SameBurst  BY DEF IInv, Given, SameBurst
<1> QED  BY <1>1, Inductive, PTL

\* Refused, failed or unloaded, a plugin leaves no process behind.
THEOREM NoProcessLeft == Spec => []NoOrphan
<1>1. Init => NoOrphan  BY DEF Init, NoOrphan, Alive
<1>2. NoOrphan /\ [Next]_vars => NoOrphan'
  <2> SUFFICES ASSUME NoOrphan, [Next]_vars PROVE NoOrphan'  OBVIOUS
  <2> USE DEF NoOrphan, Alive, Dead, Stop, Quiet
  <2>1. ASSUME NEW t \in Threads, Begin(t) \/ Step(t) PROVE NoOrphan'
    <3>1. CASE Begin(t) \/ Write(t) \/ Ready(t) \/ Timeout(t) \/ ReadLine(t)
      <4>1. UNCHANGED <<worker, entry>>  BY <3>1 DEF Begin, Write, Ready, Timeout, ReadLine
      <4> QED  BY <4>1
    <3>2. CASE Terminate(t)  BY <3>2 DEF Terminate
    <3> QED  BY <2>1, <3>1, <3>2 DEF Step
  <2>2. CASE Spawn \/ Unload  BY <2>2 DEF Spawn, Unload
  <2>3. CASE Lifecycle
    BY <2>3 DEF Lifecycle, StartFails, Initialize, Register, Refuse, LoadFails, Close
  <2>4. CASE Worker  BY <2>4 DEF Worker, Boot, Recv, Reply, Crash
  <2>5. CASE UNCHANGED vars  BY <2>5 DEF vars
  <2> QED  BY <2>1, <2>2, <2>3, <2>4, <2>5 DEF Next
<1> QED  BY <1>1, <1>2, PTL DEF Spec

-----------------------------------------------------------------------------
(* Who can block.  readline has no timeout of its own: what keeps a reader   *)
(* from blocking is that select() saw the pipe ready for it, and that nobody *)
(* read in between.                                                          *)

\* Where select() works, a reader whose readline would block is one that another
\* call overlapped.
OnlyOvertakenBlocks ==
    \A t \in Threads : th[t].pc = "read" /\ buf = <<>> /\ out = <<>> /\ Alive /\ ~blind
                     => crowd = TRUE

\* Without an overlap there is one thread in a call.
AloneInv == crowd = FALSE => \A t, u \in Busy : t = u

\* A step in which no thread begins a call or goes on to read, and no answer is
\* taken from the host.
LEMMA NoNewReader ==
    ASSUME Types, AloneInv, OnlyOvertakenBlocks, UNCHANGED <<crowd, blind>>, Alive' => Alive,
           \A t \in Threads : th'[t].pc # "idle" => th[t].pc # "idle",
           \A t \in Threads : th'[t].pc = "read" => th[t].pc = "read",
           out' = <<>> => out = <<>>, buf' = <<>> => buf = <<>>
    PROVE  AloneInv' /\ OnlyOvertakenBlocks'
<1>1. AloneInv'  BY DEF AloneInv, Busy
<1>2. OnlyOvertakenBlocks'  BY DEF OnlyOvertakenBlocks
<1> QED  BY <1>1, <1>2

LEMMA CallReads ==
    ASSUME Types, NEW t \in Threads, NEW kind, NEW pc \in {"write", "select"}, Call(t, kind, pc),
           AloneInv, OnlyOvertakenBlocks
    PROVE  AloneInv' /\ OnlyOvertakenBlocks'
<1>1. th' = [th EXCEPT ![t] = [pc |-> pc, kind |-> kind, id |-> calls']]
      /\ crowd' = (Others(t) # {})
  BY DEF Call
<1>2. th'[t].pc = pc /\ \A u \in Threads : u # t => th'[u] = th[u]  BY <1>1 DEF Types
<1>3. CASE Others(t) = {}
  <2>1. \A u \in Threads : u # t => th'[u].pc = "idle"  BY <1>2, <1>3 DEF Others, Busy
  <2> QED  BY <1>2, <2>1 DEF AloneInv, OnlyOvertakenBlocks, Busy
<1>4. CASE Others(t) # {}
  <2>1. crowd' = TRUE  BY <1>1, <1>4
  <2> QED  BY <2>1 DEF AloneInv, OnlyOvertakenBlocks
<1> QED  BY <1>3, <1>4

\* Return leaves every other thread where it is.
LEMMA ReturnIs ==
    ASSUME Types, NEW t \in Threads, NEW ok, Return(t, ok)
    PROVE  th'[t].pc \in {"idle", "ok", "failed"} /\ \A u \in Threads : u # t => th'[u] = th[u]
<1>1. th[t] \in Recs /\ th \in [Threads -> Recs]  BY DEF Types
<1>2. [th[t] EXCEPT !.pc = IF ok THEN "ok" ELSE "failed"].pc = (IF ok THEN "ok" ELSE "failed")
  BY <1>1 DEF Recs
<1>3. CASE th[t].kind = "hook"
  <2>1. th' = [th EXCEPT ![t] = Idle]  BY <1>3 DEF Return
  <2> QED  BY <1>1, <2>1 DEF Idle
<1>4. CASE th[t].kind # "hook"
  <2>1. th' = [th EXCEPT ![t] = [th[t] EXCEPT !.pc = IF ok THEN "ok" ELSE "failed"]]
    BY <1>4 DEF Return
  <2>2. th'[t].pc = (IF ok THEN "ok" ELSE "failed")  BY <1>1, <1>2, <2>1
  <2>3. \A u \in Threads : u # t => th'[u] = th[u]  BY <1>1, <2>1
  <2> QED  BY <2>2, <2>3
<1> QED  BY <1>3, <1>4

LEMMA StepReads ==
    ASSUME Types, NEW t \in Threads, Step(t), AloneInv, OnlyOvertakenBlocks
    PROVE  AloneInv' /\ OnlyOvertakenBlocks'
<1>0. UNCHANGED <<crowd, blind>> /\ th[t].pc # "idle"
  BY DEF Step, Write, Ready, Timeout, Terminate, ReadLine, kept
<1>1. ASSUME NEW pc, th' = [th EXCEPT ![t] = [th[t] EXCEPT !.pc = pc]]
      PROVE  th'[t].pc = pc /\ \A u \in Threads : u # t => th'[u] = th[u]
  <2>1. th[t] \in Recs  BY DEF Types
  <2>2. [th[t] EXCEPT !.pc = pc].pc = pc  BY <2>1 DEF Recs
  <2> QED  BY <1>1, <2>2 DEF Types
<1>2. ASSUME th'[t].pc # "read", \A u \in Threads : u # t => th'[u] = th[u],
             UNCHANGED <<out, buf>>, Alive' => Alive
      PROVE  AloneInv' /\ OnlyOvertakenBlocks'
  <2>1. \A u \in Threads : th'[u].pc # "idle" => th[u].pc # "idle"  BY <1>0, <1>2
  <2>2. \A u \in Threads : th'[u].pc = "read" => th[u].pc = "read"  BY <1>2
  <2> QED  BY <1>0, <1>2, <2>1, <2>2, NoNewReader
<1>3. CASE Write(t)
  <2>1. UNCHANGED <<worker, out, buf>> /\ (Return(t, FALSE) \/ th' = [th EXCEPT ![t].pc = "select"])
    BY <1>3 DEF Write
  <2>2. th'[t].pc # "read" /\ \A u \in Threads : u # t => th'[u] = th[u]  BY <1>1, <2>1, ReturnIs
  <2> QED  BY <1>2, <2>1, <2>2 DEF Alive
<1>4. CASE Timeout(t)
  <2>1. UNCHANGED <<worker, out, buf>> /\ th' = [th EXCEPT ![t].pc = "terminate"]  BY <1>4 DEF Timeout
  <2>2. th'[t].pc = "terminate" /\ \A u \in Threads : u # t => th'[u] = th[u]  BY <1>1, <2>1
  <2>3. th'[t].pc # "read"  BY <2>2
  <2> QED  BY <1>2, <2>1, <2>2, <2>3 DEF Alive
<1>5. CASE Terminate(t)
  <2>1. UNCHANGED <<out, buf>> /\ worker' = Dead /\ Return(t, FALSE)  BY <1>5 DEF Terminate, Stop
  <2>2. th'[t].pc # "read" /\ \A u \in Threads : u # t => th'[u] = th[u]  BY <2>1, ReturnIs
  <2>3. ~Alive'  BY <2>1 DEF Alive, Dead
  <2> QED  BY <1>2, <2>1, <2>2, <2>3
<1>6. CASE Ready(t)
  <2>1. UNCHANGED <<worker, out, buf>> /\ (blind \/ out # <<>> \/ ~Alive)
        /\ (Return(t, FALSE) \/ th' = [th EXCEPT ![t].pc = "read"])
    BY <1>6 DEF Ready
  <2>2. CASE Return(t, FALSE)
    <3>1. th'[t].pc # "read" /\ \A u \in Threads : u # t => th'[u] = th[u]  BY <2>2, ReturnIs
    <3> QED  BY <1>2, <2>1, <3>1 DEF Alive
  <2>3. CASE th' = [th EXCEPT ![t].pc = "read"]
    <3>1. \A u \in Threads : u # t => th'[u] = th[u]  BY <1>1, <2>3
    <3>2. AloneInv'  BY <1>0, <3>1 DEF AloneInv, Busy
    <3>3. OnlyOvertakenBlocks'  BY <1>0, <2>1 DEF OnlyOvertakenBlocks, Alive
    <3> QED  BY <3>2, <3>3
  <2> QED  BY <2>1, <2>2, <2>3
<1>7. CASE ReadLine(t)
  <2>1. UNCHANGED worker /\ \E ok : Return(t, ok)  BY <1>7 DEF ReadLine, Receive
  <2>2. th'[t].pc # "read" /\ \A u \in Threads : u # t => th'[u] = th[u]  BY <2>1, ReturnIs
  <2>3. AloneInv'  BY <1>0, <2>2 DEF AloneInv, Busy
  <2>4. ASSUME NEW u \in Threads, th'[u].pc = "read" PROVE crowd' = TRUE
    <3>1. u # t /\ th[u].pc = "read"  BY <2>2, <2>4
    <3>2. crowd # FALSE  BY <1>0, <3>1 DEF AloneInv, Busy
    <3> QED  BY <1>0, <3>2 DEF Types
  <2> QED  BY <2>3, <2>4 DEF OnlyOvertakenBlocks
<1> QED  BY <1>3, <1>4, <1>5, <1>6, <1>7 DEF Step

LEMMA OtherReads ==
    ASSUME Types, Lifecycle \/ Worker \/ UNCHANGED vars, AloneInv, OnlyOvertakenBlocks
    PROVE  AloneInv' /\ OnlyOvertakenBlocks'
<1>1. CASE Initialize \/ Refuse
  <2>1. PICK kind \in {"init", "shutdown"} : Call(Main, kind, "write")  BY <1>1 DEF Initialize, Refuse
  <2> QED  BY <2>1, CallReads, HostAssumption
<1>2. CASE StartFails \/ Register \/ LoadFails \/ Close
  <2>1. th' = [th EXCEPT ![Main] = Idle] /\ UNCHANGED <<out, buf, crowd, blind>>
        /\ (worker' = worker \/ worker' = Dead)
    BY <1>2 DEF StartFails, Register, LoadFails, Close, MainEnds, Stop, kept
  <2>2. \A u \in Threads : th'[u] \in {Idle, th[u]}  BY <2>1 DEF Types
  <2>3. Idle.pc = "idle"  BY DEF Idle
  <2>4. Alive' => Alive  BY <2>1 DEF Alive, Dead
  <2> QED  BY <2>1, <2>2, <2>3, <2>4, NoNewReader
<1>3. CASE Worker
  <2>1. UNCHANGED <<buf, th, crowd, blind>>  BY <1>3 DEF Worker, Boot, Recv, Reply, Crash, Quiet, kept
  <2>2. Alive' => Alive  BY <1>3 DEF Worker, Boot, Recv, Reply, Crash, Alive, Dead
  <2>3. out' = out \/ \E m : out' = Append(out, m)  BY <1>3 DEF Worker, Boot, Recv, Reply, Crash
  <2>4. \A m : Append(out, m) # <<>>
    <3>1. out \in Seq(Answer)  BY DEF Types
    <3>2. ASSUME NEW m PROVE Append(out, m) # <<>>
      <4>1. Len(Append(out, m)) = Len(out) + 1 /\ Len(out) \in Nat  BY <3>1
      <4> QED  BY <4>1
    <3> QED  BY <3>2
  <2>5. out' = <<>> => out = <<>>  BY <2>3, <2>4
  <2> QED  BY <2>1, <2>2, <2>5, NoNewReader
<1>4. CASE UNCHANGED vars  BY <1>4, NoNewReader DEF vars, kept, Alive
<1> QED  BY <1>1, <1>2, <1>3, <1>4 DEF Lifecycle

\* Where select() works on the pipe, a call that overlaps no other never blocks in
\* readline, whatever the plugin does: select() has seen an answer or the end of
\* the stream, and nobody else takes it (_read_message, plugin_host.py).  Only
\* calls that other threads make at the same time can overtake a reader.
THEOREM LoneReaderNeverBlocks == Spec => []OnlyOvertakenBlocks
<1>1. Init => AloneInv /\ OnlyOvertakenBlocks
  <2>1. Idle.pc = "idle"  BY DEF Idle
  <2> QED  BY <2>1 DEF Init, AloneInv, OnlyOvertakenBlocks, Busy
<1>2. IInv /\ AloneInv /\ OnlyOvertakenBlocks /\ [Next]_vars => AloneInv' /\ OnlyOvertakenBlocks'
  <2> SUFFICES ASSUME Types, AloneInv, OnlyOvertakenBlocks, [Next]_vars PROVE AloneInv' /\ OnlyOvertakenBlocks'
    BY DEF IInv
  <2>1. CASE Spawn \/ Unload
    <3>1. PICK kind \in {"ready", "shutdown"}, pc \in {"write", "select"} : Call(Main, kind, pc)
      BY <2>1 DEF Spawn, Unload
    <3> QED  BY <3>1, CallReads, HostAssumption
  <2>2. ASSUME NEW t \in Threads, Begin(t) PROVE AloneInv' /\ OnlyOvertakenBlocks'
    BY <2>2, CallReads DEF Begin
  <2> QED  BY <2>1, <2>2, StepReads, OtherReads DEF Next
<1> QED  BY <1>1, <1>2, Inductive, PTL DEF Spec
=============================================================================
