--------------------------- MODULE WsFanoutProofs ----------------------------
(***************************************************************************)
(* Proofs about WsFanout for any clients, organisations, channels, events  *)
(* and queue size: type correctness with bounded queues, an exact channel  *)
(* index, every event delivered or counted as lost, and delivery before a  *)
(* broadcast returns.                                                      *)
(***************************************************************************)
EXTENDS WsFanout, FiniteSetTheorems, SequenceTheorems, FunctionTheorems, TLAPS

-----------------------------------------------------------------------------
(* The inductive invariant *)

Conns == [pc: {"new", "open", "closed"}, auth: BOOLEAN, alive: BOOLEAN]
Subs == [known: BOOLEAN, chans: SUBSET Names, org: Owners]
Outs == [pump: {"none", "run", "done"}, queue: Seq(Events), hand: 0..MaxEvents]
Casts == [pc: {"none", "drain", "returned", "timeout"}, waits: SUBSET Clients, stuck: BOOLEAN]

Typed ==
    /\ loop \in {"none", "up", "ended"}
    /\ event \in Seq([type: Types, org: Owners]) /\ Len(event) <= MaxEvents
    /\ ready \in Seq(1..Len(event))
    /\ conn \in [Clients -> Conns]
    /\ connections \in [Names -> SUBSET Clients]
    /\ sub \in [Clients -> Subs]
    /\ out \in [Clients -> Outs]
    /\ cast \in [Events -> Casts]
    /\ due \in [Clients -> SUBSET Events] /\ sent \in [Clients -> Seq(Events)]
    /\ dropped \in Nat /\ full \subseteq Clients \X Events

\* The index and what hangs on it: a socket that has not authenticated, or is
\* closed, is in no channel and has no pump.
Index(c) ==
    /\ \A n \in Names : c \in connections[n] <=> n \in sub[c].chans
    /\ sub[c].chans # {} => sub[c].known
    /\ ~conn[c].auth \/ conn[c].pc = "closed" => out[c] = NoPump /\ sub[c].chans = {}
    /\ conn[c].pc = "new" => ~conn[c].auth /\ sent[c] = <<>> /\ due[c] = {}

\* A pump that ended has taken its connection with it.
Pumps(c) ==
    /\ conn[c].alive => conn[c].pc = "open" /\ out[c].pump # "done"
    /\ out[c].pump = "none" => out[c] = NoPump
    /\ out[c].pump = "done" => out[c].hand = 0
    /\ Len(out[c].queue) <= QueueSize

Elems(s) == {s[k] : k \in DOMAIN s}
Inc(s) == \A i, j \in DOMAIN s : i < j => s[i] < s[j]
Holds(c, e) == e \in Elems(out[c].queue) \/ (e = out[c].hand /\ e # 0)

\* Broadcasts are made in the order of the events.
InTurn ==
    /\ Inc(ready)
    /\ \A e \in Events : cast[e].pc # "none" =>
         e <= Len(event) /\ \A a \in Elems(ready) : e < a

\* Clients know only of events that were broadcast.
Past(c) ==
    \A e \in Events :
        e \in Elems(sent[c]) \/ Holds(c, e) \/ e \in due[c] \/ <<c, e>> \in full
            => cast[e].pc # "none"

\* What a working client was sent, its pump holds and its queue holds: in this
\* order, and together what was meant for it and found room.
Feed(c) ==
    conn[c].alive =>
        /\ Inc(sent[c]) /\ Inc(out[c].queue)
        /\ \A a \in Elems(sent[c]), b \in Events : Holds(c, b) => a < b
        /\ out[c].hand # 0 => \A b \in Elems(out[c].queue) : out[c].hand < b
        /\ \A e \in Events : e \in Elems(sent[c]) \/ Holds(c, e) <=> e \in due[c] /\ <<c, e>> \notin full

\* A broadcast waits for every working client that still holds its message.
Waited(c) ==
    conn[c].alive => \A e \in Events : Holds(c, e) =>
        cast[e].pc # "returned" /\ (cast[e].pc = "drain" => c \in cast[e].waits)

Counted == IsFiniteSet(full) /\ dropped = Cardinality(full)

PerClient(c) == Index(c) /\ Pumps(c) /\ Past(c) /\ Feed(c) /\ Waited(c)

IInv == Typed /\ InTurn /\ Counted /\ \A c \in Clients : PerClient(c)

-----------------------------------------------------------------------------
(* The operators *)

LEMMA EmptyIs == Elems(<<>>) = {} /\ Inc(<<>>) /\ Len(<<>>) = 0
BY DEF Elems, Inc

\* Appending a greater element keeps a sequence increasing.
LEMMA AppendIs ==
    ASSUME NEW S \in SUBSET Int, NEW s \in Seq(S), NEW e \in S
    PROVE  /\ Append(s, e) \in Seq(S) /\ Len(Append(s, e)) = Len(s) + 1 /\ Len(s) \in Nat
           /\ Elems(Append(s, e)) = Elems(s) \cup {e}
           /\ Elems(s) \subseteq S
           /\ Inc(s) /\ (\A a \in Elems(s) : a < e) => Inc(Append(s, e))
<1> DEFINE a == Append(s, e)  n == Len(s)
<1>1. n \in Nat /\ DOMAIN s = 1..n /\ \A k \in 1..n : s[k] \in S  BY LenProperties
<1>2. a \in Seq(S) /\ Len(a) = n + 1  OBVIOUS
<1>3. DOMAIN a = 1..(n + 1)  BY <1>2, LenProperties
<1>4. \A k \in 1..n : a[k] = s[k]  OBVIOUS
<1>5. a[n + 1] = e  OBVIOUS
<1> HIDE DEF a, n
<1>6. \A k \in 1..(n + 1) : k \in 1..n \/ k = n + 1  BY <1>1
<1>7. 1..n \subseteq 1..(n + 1) /\ n + 1 \in 1..(n + 1)  BY <1>1
<1>8. Elems(a) = Elems(s) \cup {e}  BY <1>1, <1>3, <1>4, <1>5, <1>6, <1>7 DEF Elems
<1>9. Elems(s) \subseteq S  BY <1>1 DEF Elems
<1>10. ASSUME Inc(s), \A b \in Elems(s) : b < e PROVE Inc(a)
  <2> SUFFICES ASSUME NEW i \in 1..(n + 1), NEW j \in 1..(n + 1), i < j PROVE a[i] < a[j]
    BY <1>3 DEF Inc
  <2>1. i \in 1..n  BY <1>1, <1>6
  <2>2. CASE j \in 1..n  BY <1>1, <1>4, <1>10, <2>1, <2>2 DEF Inc
  <2>3. CASE j = n + 1
    <3>1. s[i] \in Elems(s)  BY <1>1, <2>1 DEF Elems
    <3> QED  BY <1>4, <1>5, <1>10, <2>1, <2>3, <3>1
  <2> QED  BY <1>6, <2>2, <2>3
<1> QED  BY <1>1, <1>2, <1>8, <1>9, <1>10 DEF a, n

\* The head of an increasing sequence comes before the rest.
LEMMA TailIs ==
    ASSUME NEW S \in SUBSET Int, NEW s \in Seq(S), s # <<>>
    PROVE  /\ Tail(s) \in Seq(S) /\ Len(Tail(s)) = Len(s) - 1 /\ Len(s) \in Nat
           /\ Head(s) \in S /\ Elems(s) = Elems(Tail(s)) \cup {Head(s)}
           /\ Elems(s) \subseteq S
           /\ Inc(s) => Inc(Tail(s)) /\ \A b \in Elems(Tail(s)) : Head(s) < b
<1> DEFINE u == Tail(s)  n == Len(s)
<1>1. n \in Nat /\ DOMAIN s = 1..n /\ \A k \in 1..n : s[k] \in S  BY LenProperties
<1>2. u \in Seq(S) /\ Len(u) = n - 1 /\ Head(s) \in S  BY HeadTailProperties
<1>3. n >= 1  BY <1>1, EmptySeq
<1>4. DOMAIN u = 1..(n - 1)  BY <1>2, LenProperties
<1>5. \A k \in 1..(n - 1) : u[k] = s[k + 1]  BY <1>1, <1>3
<1>6. Head(s) = s[1]  OBVIOUS
<1> HIDE DEF u, n
<1>7. \A k \in 1..(n - 1) : k + 1 \in 1..n /\ 1 < k + 1  BY <1>1, <1>3
<1>8. \A k \in 1..n : k = 1 \/ (k - 1 \in 1..(n - 1) /\ (k - 1) + 1 = k)  BY <1>1, <1>3
<1>9. 1 \in 1..n  BY <1>1, <1>3
<1>10. Elems(s) = Elems(u) \cup {Head(s)}
  <2>1. Elems(u) \subseteq Elems(s)  BY <1>1, <1>4, <1>5, <1>7 DEF Elems
  <2>2. Head(s) \in Elems(s)  BY <1>1, <1>6, <1>9 DEF Elems
  <2>3. ASSUME NEW k \in 1..n PROVE s[k] \in Elems(u) \cup {Head(s)}
    <3>1. CASE k = 1  BY <1>6, <3>1
    <3>2. CASE k # 1
      <4>1. k - 1 \in 1..(n - 1) /\ s[k] = u[k - 1]  BY <1>5, <1>8, <3>2
      <4> QED  BY <1>4, <4>1 DEF Elems
    <3> QED  BY <3>1, <3>2
  <2>4. Elems(s) \subseteq Elems(u) \cup {Head(s)}  BY <1>1, <2>3 DEF Elems
  <2> QED  BY <2>1, <2>2, <2>4
<1>11. Elems(s) \subseteq S  BY <1>1 DEF Elems
<1>12. ASSUME Inc(s) PROVE Inc(u) /\ \A b \in Elems(u) : Head(s) < b
  <2>1. ASSUME NEW i \in 1..(n - 1), NEW j \in 1..(n - 1), i < j PROVE u[i] < u[j]
    <3>1. i + 1 < j + 1  BY <2>1
    <3> QED  BY <1>1, <1>5, <1>7, <1>12, <3>1 DEF Inc
  <2>2. \A k \in 1..(n - 1) : Head(s) < u[k]  BY <1>1, <1>5, <1>6, <1>7, <1>9, <1>12 DEF Inc
  <2> QED  BY <1>4, <2>1, <2>2 DEF Inc, Elems
<1> QED  BY <1>1, <1>2, <1>10, <1>11, <1>12 DEF u, n

\* Settling a client touches no broadcast's outcome and no other client's wait.
LEMMA SettleIs ==
    ASSUME Typed, NEW c \in Clients, NEW left \in BOOLEAN
    PROVE  /\ Settle(c, left) \in [Events -> Casts]
           /\ \A e \in Events :
                /\ Settle(c, left)[e].pc = cast[e].pc
                /\ \A d \in Clients : d # c => (d \in Settle(c, left)[e].waits <=> d \in cast[e].waits)
<1> SUFFICES ASSUME NEW e \in Events
             PROVE  /\ Settle(c, left)[e] \in Casts
                    /\ Settle(c, left)[e].pc = cast[e].pc
                    /\ \A d \in Clients : d # c => (d \in Settle(c, left)[e].waits <=> d \in cast[e].waits)
  BY DEF Settle
<1>1. cast[e] \in Casts  BY DEF Typed
<1>2. CASE c \notin cast[e].waits
  <2>1. Settle(c, left)[e] = cast[e]  BY <1>2 DEF Settle
  <2> QED  BY <1>1, <2>1
<1>3. CASE c \in cast[e].waits
  <2> DEFINE r == [cast[e] EXCEPT !.waits = cast[e].waits \ {c}, !.stuck = cast[e].stuck \/ left]
  <2>1. Settle(c, left)[e] = r  BY <1>3 DEF Settle
  <2>2. cast[e].waits \ {c} \in SUBSET Clients  BY <1>1 DEF Casts
  <2>3. (cast[e].stuck \/ left) \in BOOLEAN  OBVIOUS
  <2>4. r \in Casts /\ r.pc = cast[e].pc /\ r.waits = cast[e].waits \ {c}
    BY <1>1, <2>2, <2>3 DEF Casts
  <2> QED  BY <2>1, <2>4
<1> QED  BY <1>2, <1>3

\* A client of which nothing changes keeps its part while others settle.
LEMMA Kept ==
    ASSUME NEW d \in Clients, PerClient(d),
           conn'[d] = conn[d], sub'[d] = sub[d], out'[d] = out[d], due'[d] = due[d], sent'[d] = sent[d],
           \A n \in Names : d \in connections'[n] <=> d \in connections[n],
           \A e \in Events : <<d, e>> \in full' <=> <<d, e>> \in full,
           \A e \in Events : /\ cast'[e].pc = cast[e].pc
                             /\ d \in cast'[e].waits <=> d \in cast[e].waits
    PROVE  PerClient(d)'
<1> USE DEF PerClient
<1>1. Index(d)'  BY DEF Index
<1>2. Pumps(d)'  BY DEF Pumps
<1>3. \A e \in Events : Holds(d, e)' <=> Holds(d, e)  BY DEF Holds
<1>4. Past(d)'  BY <1>3 DEF Past
<1>5. Feed(d)'  BY <1>3 DEF Feed
<1>6. Waited(d)'  BY <1>3 DEF Waited
<1> QED  BY <1>1, <1>2, <1>4, <1>5, <1>6

LEMMA InitInv == Init => IInv
<1> SUFFICES ASSUME Init PROVE IInv  OBVIOUS
<1> USE WsAssumption DEF Init
<1>1. Typed
  <2>1. /\ event \in Seq([type: Types, org: Owners]) /\ Len(event) = 0 /\ ready \in Seq(1..Len(event))
        /\ <<>> \in Seq(Events)
    BY EmptySeq
  <2>2. NoPump \in Outs  BY <2>1 DEF NoPump, Outs
  <2>3. NoSub \in Subs  BY DEF NoSub, Subs, Owners
  <2>4. NoCast \in Casts  BY DEF NoCast, Casts
  <2>5. conn \in [Clients -> Conns]  BY DEF Conns
  <2> QED  BY <2>1, <2>2, <2>3, <2>4, <2>5 DEF Typed
<1>2. InTurn  BY EmptyIs DEF InTurn, NoCast
<1>3. Counted  BY FS_EmptySet DEF Counted
<1>4. ASSUME NEW c \in Clients PROVE PerClient(c)
  <2>1. /\ conn[c].pc = "new" /\ conn[c].auth = FALSE /\ conn[c].alive = FALSE /\ sub[c] = NoSub
        /\ out[c] = NoPump /\ due[c] = {} /\ sent[c] = <<>>
    OBVIOUS
  <2>2. Index(c)  BY <2>1 DEF Index, NoSub
  <2>3. Pumps(c)
    <3>1. out[c].queue = <<>> /\ out[c].pump = "none"  BY <2>1 DEF NoPump
    <3> QED  BY <2>1, <3>1, EmptyIs DEF Pumps
  <2>4. \A e \in Events : ~Holds(c, e)
    <3>1. out[c].queue = <<>> /\ out[c].hand = 0  BY <2>1 DEF NoPump
    <3> QED  BY <3>1, EmptyIs DEF Holds
  <2>5. Past(c)  BY <2>1, <2>4, EmptyIs DEF Past
  <2>6. Feed(c) /\ Waited(c)  BY <2>1 DEF Feed, Waited
  <2> QED  BY <2>2, <2>3, <2>5, <2>6 DEF PerClient
<1> QED  BY <1>1, <1>2, <1>3, <1>4 DEF IInv

\* Moving a client touches no other, and puts it in the given channels only.
LEMMA MovedIs ==
    ASSUME IInv, NEW c \in Clients, NEW chans \in SUBSET Names
    PROVE  /\ Moved(c, chans) \in [Names -> SUBSET Clients]
           /\ \A n \in Names : /\ c \in Moved(c, chans)[n] <=> n \in chans
                               /\ \A d \in Clients : d # c => (d \in Moved(c, chans)[n] <=> d \in connections[n])
<1>1. Index(c)  BY DEF IInv, PerClient
<1>2. ASSUME NEW n \in Names
      PROVE  Moved(c, chans)[n] = (connections[n] \ {x \in {c} : n \in sub[x].chans}) \cup {x \in {c} : n \in chans}
  BY DEF Moved
<1>3. ASSUME NEW n \in Names PROVE c \in Moved(c, chans)[n] <=> n \in chans
  BY <1>1, <1>2 DEF Index
<1>4. ASSUME NEW n \in Names, NEW d \in Clients, d # c
      PROVE  d \in Moved(c, chans)[n] <=> d \in connections[n]
  BY <1>2, <1>4
<1>5. Moved(c, chans) \in [Names -> SUBSET Clients]
  <2>1. \A n \in Names : Moved(c, chans)[n] \in SUBSET Clients  BY <1>2 DEF IInv, Typed
  <2>2. Moved(c, chans) = [n \in Names |-> Moved(c, chans)[n]]  BY DEF Moved
  <2> QED  BY <2>1, <2>2
<1> QED  BY <1>3, <1>4, <1>5

\* A socket that connects has no history.
LEMMA ConnectInv ==
    ASSUME IInv, NEW c \in Clients, NEW auth \in BOOLEAN, NEW o \in Owners, Connect(c, auth, o)
    PROVE  IInv'
<1> USE WsAssumption DEF IInv
<1> DEFINE k == [pc |-> "open", auth |-> auth, alive |-> TRUE]
           u == [known |-> TRUE, chans |-> {}, org |-> o]
<1>1. /\ conn[c].pc = "new" /\ conn' = [conn EXCEPT ![c] = k] /\ sub' = [sub EXCEPT ![c] = u]
      /\ UNCHANGED <<loop, event, ready, cast, dropped, full, connections, out, due, sent>>
  BY DEF Connect, Endpoint
<1>2. k \in Conns /\ k.pc = "open" /\ k.auth = auth /\ k.alive /\ u \in Subs /\ u.chans = {}
  BY DEF Conns, Subs
<1> HIDE DEF k, u
<1>3. Typed'  BY <1>1, <1>2 DEF Typed
<1>4. InTurn' /\ Counted'  BY <1>1 DEF InTurn, Counted
<1>5. ASSUME NEW d \in Clients, d # c PROVE PerClient(d)'
  <2>1. conn'[d] = conn[d] /\ sub'[d] = sub[d]  BY <1>1, <1>5 DEF Typed
  <2> QED  BY <1>1, <2>1, Kept
<1>6. PerClient(c)'
  <2>0. conn'[c] = k /\ sub'[c] = u  BY <1>1 DEF Typed
  <2>1. Index(c) /\ Pumps(c) /\ Past(c)  BY DEF PerClient
  <2>2. /\ out[c] = NoPump /\ sub[c].chans = {} /\ sent[c] = <<>> /\ due[c] = {}
    BY <1>1, <2>1 DEF Index
  <2>3. out[c].queue = <<>> /\ out[c].hand = 0 /\ out[c].pump = "none"  BY <2>2 DEF NoPump
  <2>4. \A e \in Events : ~Holds(c, e) /\ ~Holds(c, e)'  BY <1>1, <2>3, EmptyIs DEF Holds
  <2>5. Index(c)'  BY <1>1, <1>2, <2>0, <2>1, <2>2 DEF Index
  <2>6. Pumps(c)'  BY <1>1, <1>2, <2>0, <2>1, <2>3 DEF Pumps
  <2>7. Past(c)'  BY <1>1, <2>1, <2>4 DEF Past
  <2>8. Feed(c)'  BY <1>1, <2>2, <2>3, <2>4, EmptyIs DEF Feed
  <2>9. Waited(c)'  BY <2>4 DEF Waited
  <2> QED  BY <2>5, <2>6, <2>7, <2>8, <2>9 DEF PerClient
<1> QED  BY <1>3, <1>4, <1>5, <1>6

\* The other steps of an open session change who may be sent what, not the mail.
LEMMA SessionInv ==
    ASSUME IInv, NEW c \in Clients, conn[c].pc = "open",
           NEW k \in Conns, NEW u \in Subs,
           conn' = [conn EXCEPT ![c] = k], sub' = [sub EXCEPT ![c] = u],
           connections' \in [Names -> SUBSET Clients],
           \A n \in Names : /\ c \in connections'[n] <=> n \in u.chans
                            /\ \A d \in Clients : d # c => (d \in connections'[n] <=> d \in connections[n]),
           k.alive => k.pc = "open" /\ conn[c].alive, k.pc # "new",
           u.chans # {} => u.known,
           ~k.auth \/ k.pc = "closed" => ~conn[c].auth /\ u.chans = {},
           UNCHANGED <<loop, event, ready, cast, dropped, full, out, due, sent>>
    PROVE  IInv'
<1> USE DEF IInv
<1>1. Typed'  BY DEF Typed
<1>2. InTurn' /\ Counted'  BY DEF InTurn, Counted
<1>3. ASSUME NEW d \in Clients, d # c PROVE PerClient(d)'
  <2>1. conn'[d] = conn[d] /\ sub'[d] = sub[d]  BY <1>3 DEF Typed
  <2>2. \A n \in Names : d \in connections'[n] <=> d \in connections[n]  BY <1>3
  <2> QED  BY <2>1, <2>2, Kept
<1>4. PerClient(c)'
  <2>0. conn'[c] = k /\ sub'[c] = u  BY DEF Typed
  <2>1. Index(c) /\ Pumps(c) /\ Past(c) /\ Feed(c) /\ Waited(c)  BY DEF PerClient
  <2>2. \A e \in Events : Holds(c, e)' <=> Holds(c, e)  BY DEF Holds
  <2>3. Index(c)'  BY <2>0, <2>1 DEF Index
  <2>4. Pumps(c)'  BY <2>0, <2>1 DEF Pumps
  <2>5. Past(c)'  BY <2>1, <2>2 DEF Past
  <2>6. Feed(c)'  BY <2>0, <2>1, <2>2 DEF Feed
  <2>7. Waited(c)'  BY <2>0, <2>1, <2>2 DEF Waited
  <2> QED  BY <2>3, <2>4, <2>5, <2>6, <2>7 DEF PerClient
<1> QED  BY <1>1, <1>2, <1>3, <1>4

LEMMA OpenSessionInv ==
    ASSUME IInv, NEW c \in Clients,
           (\E o \in Owners : Authenticate(c, o)) \/ Deny(c) \/ (\E chans \in Requests : Subscribe(c, chans))
    PROVE  IInv'
<1> USE WsAssumption DEF IInv
<1>0. conn[c] \in Conns /\ sub[c] \in Subs /\ Index(c) /\ connections \in [Names -> SUBSET Clients]
  BY DEF PerClient, Typed
<1>1. ASSUME NEW o \in Owners, Authenticate(c, o) PROVE IInv'
  <2> DEFINE k == [conn[c] EXCEPT !.auth = TRUE]  u == [sub[c] EXCEPT !.org = o]
  <2>1. k \in Conns /\ k.pc = conn[c].pc /\ k.alive = conn[c].alive /\ k.auth  BY <1>0 DEF Conns
  <2>2. u \in Subs /\ u.chans = sub[c].chans /\ u.known = sub[c].known  BY <1>0 DEF Subs
  <2>3. /\ conn' = [conn EXCEPT ![c] = k] /\ sub' = [sub EXCEPT ![c] = u] /\ conn[c].pc = "open"
        /\ UNCHANGED <<loop, event, ready, cast, dropped, full, out, due, sent, connections>>
    BY <1>1 DEF Authenticate, Endpoint, Typed
  <2> HIDE DEF k, u
  <2>4. \A n \in Names : c \in connections[n] <=> n \in u.chans  BY <1>0, <2>2 DEF Index
  <2>5. u.chans # {} => u.known  BY <1>0, <2>2 DEF Index
  <2>6. k.pc = "open" /\ (k.alive => conn[c].alive)  BY <2>1, <2>3
  <2>7. ~(~k.auth \/ k.pc = "closed")  BY <2>1, <2>3
  <2>8. /\ connections' \in [Names -> SUBSET Clients]
        /\ \A n \in Names : /\ c \in connections'[n] <=> n \in u.chans
                            /\ \A d \in Clients : d # c => (d \in connections'[n] <=> d \in connections[n])
    BY <1>0, <2>3, <2>4
  <2> QED  BY <2>1, <2>2, <2>3, <2>5, <2>6, <2>7, <2>8, SessionInv
<1>2. CASE Deny(c)
  <2> DEFINE k == [conn[c] EXCEPT !.pc = "closed", !.alive = FALSE]
  <2>1. k \in Conns /\ k.pc = "closed" /\ ~k.alive  BY <1>0 DEF Conns
  <2>2. /\ conn' = [conn EXCEPT ![c] = k] /\ conn[c].pc = "open" /\ ~conn[c].auth
        /\ UNCHANGED <<loop, event, ready, cast, dropped, full, out, due, sent, connections, sub>>
    BY <1>2 DEF Deny, Endpoint, Typed
  <2> HIDE DEF k
  <2>3. sub' = [sub EXCEPT ![c] = sub[c]]  BY <2>2 DEF Typed
  <2>4. sub[c].chans = {} /\ \A n \in Names : c \in connections[n] <=> n \in sub[c].chans
    BY <1>0, <2>2 DEF Index
  <2> QED  BY <1>0, <2>1, <2>2, <2>3, <2>4, SessionInv
<1>3. ASSUME NEW chans \in Requests, Subscribe(c, chans) PROVE IInv'
  <2> DEFINE u == [sub[c] EXCEPT !.chans = chans, !.known = TRUE]
  <2>0. chans \in SUBSET Names  BY DEF Names
  <2>1. u \in Subs /\ u.chans = chans /\ u.known  BY <1>0, <2>0 DEF Subs
  <2>2. /\ sub' = [sub EXCEPT ![c] = u] /\ conn[c].pc = "open" /\ conn[c].auth
        /\ connections' = Moved(c, chans)
        /\ UNCHANGED <<loop, event, ready, cast, dropped, full, out, due, sent, conn>>
    BY <1>3 DEF Subscribe, Endpoint, Typed
  <2> HIDE DEF u
  <2>3. conn' = [conn EXCEPT ![c] = conn[c]]  BY <2>2 DEF Typed
  <2>4. /\ connections' \in [Names -> SUBSET Clients]
        /\ \A n \in Names : /\ c \in connections'[n] <=> n \in u.chans
                            /\ \A d \in Clients : d # c => (d \in connections'[n] <=> d \in connections[n])
    BY <2>0, <2>1, <2>2, MovedIs
  <2>5. ~(~conn[c].auth \/ conn[c].pc = "closed")  BY <2>2
  <2> QED  BY <1>0, <2>1, <2>2, <2>3, <2>4, <2>5, SessionInv
<1> QED  BY <1>1, <1>2, <1>3

\* A socket that is disconnected leaves nothing behind.
LEMMA DisconnectInv ==
    ASSUME IInv, NEW c \in Clients, Disconnect(c)
    PROVE  IInv'
<1> USE WsAssumption DEF IInv
<1> DEFINE k == [conn[c] EXCEPT !.pc = "closed", !.alive = FALSE]  left == out[c].queue # <<>>
<1>0. conn[c] \in Conns /\ left \in BOOLEAN  BY DEF Typed
<1>1. /\ conn' = [conn EXCEPT ![c] = k] /\ connections' = Moved(c, {})
      /\ sub' = [sub EXCEPT ![c] = NoSub] /\ out' = [out EXCEPT ![c] = NoPump]
      /\ cast' = Settle(c, left)
      /\ due' = [due EXCEPT ![c] = {}] /\ sent' = [sent EXCEPT ![c] = <<>>]
      /\ UNCHANGED <<loop, event, ready, dropped, full>>
  BY DEF Disconnect, Typed
<1>2. k \in Conns /\ k.pc = "closed" /\ ~k.alive  BY <1>0 DEF Conns
<1> HIDE DEF k, left
<1>3. /\ cast' \in [Events -> Casts]
      /\ \A e \in Events : /\ cast'[e].pc = cast[e].pc
                           /\ \A d \in Clients : d # c => (d \in cast'[e].waits <=> d \in cast[e].waits)
  BY <1>0, <1>1, SettleIs
<1>4. /\ connections' \in [Names -> SUBSET Clients]
      /\ \A n \in Names : /\ c \notin connections'[n]
                          /\ \A d \in Clients : d # c => (d \in connections'[n] <=> d \in connections[n])
  BY <1>1, MovedIs
<1>5. Typed'
  <2>1. <<>> \in Seq(Events)  BY EmptySeq
  <2>2. NoPump \in Outs /\ NoSub \in Subs  BY <2>1 DEF NoPump, Outs, NoSub, Subs, Owners
  <2>3. sent' \in [Clients -> Seq(Events)] /\ due' \in [Clients -> SUBSET Events]
    BY <1>1, <2>1 DEF Typed
  <2>4. out' \in [Clients -> Outs] /\ sub' \in [Clients -> Subs]  BY <1>1, <2>2 DEF Typed
  <2>5. conn' \in [Clients -> Conns]  BY <1>1, <1>2 DEF Typed
  <2> QED  BY <1>1, <1>3, <1>4, <2>3, <2>4, <2>5 DEF Typed
<1>6. InTurn' /\ Counted'  BY <1>1, <1>3 DEF InTurn, Counted
<1>7. ASSUME NEW d \in Clients, d # c PROVE PerClient(d)'
  <2>1. /\ conn'[d] = conn[d] /\ sub'[d] = sub[d] /\ out'[d] = out[d] /\ due'[d] = due[d]
        /\ sent'[d] = sent[d]
    BY <1>1, <1>7 DEF Typed
  <2> QED  BY <1>1, <1>3, <1>4, <1>7, <2>1, Kept
<1>8. PerClient(c)'
  <2>1. /\ conn'[c] = k /\ sub'[c] = NoSub /\ out'[c] = NoPump /\ due'[c] = {} /\ sent'[c] = <<>>
    BY <1>1 DEF Typed
  <2>2. Past(c)  BY DEF PerClient
  <2>3. out'[c].queue = <<>> /\ out'[c].hand = 0 /\ out'[c].pump = "none"  BY <2>1 DEF NoPump
  <2>4. \A e \in Events : ~Holds(c, e)'  BY <2>3, EmptyIs DEF Holds
  <2>5. Index(c)'  BY <1>2, <1>4, <2>1 DEF Index, NoSub
  <2>6. Pumps(c)'  BY <1>2, <2>1, <2>3, EmptyIs DEF Pumps
  <2>7. Past(c)'  BY <1>1, <1>3, <2>1, <2>2, <2>4, EmptyIs DEF Past
  <2>8. Feed(c)' /\ Waited(c)'  BY <1>2, <2>1 DEF Feed, Waited
  <2> QED  BY <2>5, <2>6, <2>7, <2>8 DEF PerClient
<1> QED  BY <1>5, <1>6, <1>7, <1>8

\* The loop starts or ends, or a broadcast returns or times out.
LEMMA BarrierInv ==
    ASSUME IInv, NEW e \in Events, Return(e) \/ Timeout(e)
    PROVE  IInv'
<1> USE DEF IInv, Sockets
<1>0. cast[e] \in Casts /\ cast[e].pc = "drain"  BY DEF Return, Timeout, Typed
<1>1. PICK pc \in {"returned", "timeout"} :
        /\ cast' = [cast EXCEPT ![e] = [cast[e] EXCEPT !.pc = pc]]
        /\ pc = "returned" => cast[e].waits = {}
        /\ UNCHANGED <<conn, connections, sub, loop, event, ready, out, dropped, due, sent, full>>
  BY DEF Return, Timeout, Typed
<1> DEFINE r == [cast[e] EXCEPT !.pc = pc]
<1>2. r \in Casts /\ r.pc = pc /\ r.waits = cast[e].waits  BY <1>0 DEF Casts
<1> HIDE DEF r
<1>3. \A x \in Events : cast'[x] = IF x = e THEN r ELSE cast[x]  BY <1>1 DEF Typed, r
<1>4. Typed'
  <2>1. cast' \in [Events -> Casts]  BY <1>1, <1>2 DEF Typed, r
  <2> QED  BY <1>1, <2>1 DEF Typed
<1>5. \A x \in Events : cast'[x].pc # "none" <=> cast[x].pc # "none"  BY <1>0, <1>2, <1>3
<1>6. InTurn' /\ Counted'  BY <1>1, <1>5 DEF InTurn, Counted
<1>7. ASSUME NEW d \in Clients PROVE PerClient(d)'
  <2>1. Index(d) /\ Pumps(d) /\ Past(d) /\ Feed(d) /\ Waited(d)  BY DEF PerClient
  <2>2. \A x \in Events : Holds(d, x)' <=> Holds(d, x)  BY <1>1 DEF Holds
  <2>3. Index(d)' /\ Pumps(d)'  BY <1>1, <2>1 DEF Index, Pumps
  <2>4. Past(d)'  BY <1>1, <1>5, <2>1, <2>2 DEF Past
  <2>5. Feed(d)'  BY <1>1, <2>1, <2>2 DEF Feed
  <2>6. Waited(d)'
    <3> SUFFICES ASSUME conn[d].alive, NEW x \in Events, Holds(d, x)
                 PROVE  cast'[x].pc # "returned" /\ (cast'[x].pc = "drain" => d \in cast'[x].waits)
      BY <1>1, <2>2 DEF Waited
    <3>1. cast[x].pc # "returned" /\ (cast[x].pc = "drain" => d \in cast[x].waits)
      BY <2>1 DEF Waited
    <3> QED  BY <1>0, <1>1, <1>2, <1>3, <3>1
  <2> QED  BY <2>3, <2>4, <2>5, <2>6 DEF PerClient
<1> QED  BY <1>4, <1>6, <1>7

LEMMA LoopInv ==
    ASSUME IInv, Startup \/ Shutdown
    PROVE  IInv'
<1> USE DEF IInv, Sockets, Startup, Shutdown
<1>1. Typed'  BY DEF Typed
<1>2. InTurn' /\ Counted'  BY DEF InTurn, Counted
<1>3. ASSUME NEW d \in Clients PROVE PerClient(d)'  BY Kept
<1> QED  BY <1>1, <1>2, <1>3

\* A new event comes after all that were broadcast or are to be.
LEMMA PublishInv ==
    ASSUME IInv, NEW ty \in Types, NEW o \in Owners, Publish(ty, o)
    PROVE  IInv'
<1> USE WsAssumption DEF IInv, Sockets
<1> DEFINE x == [type |-> ty, org |-> o]  n == Len(event) + 1
<1>0. /\ Len(event) < MaxEvents /\ event' = Append(event, x)
      /\ ready' = IF loop = "up" THEN Append(ready, Len(event')) ELSE ready
      /\ UNCHANGED <<conn, connections, sub, loop, out, cast, dropped, due, sent, full>>
  BY DEF Publish
<1>1. /\ x \in [type: Types, org: Owners] /\ Len(event) \in Nat
      /\ event' \in Seq([type: Types, org: Owners]) /\ Len(event') = n
  BY <1>0, LenProperties DEF Typed
<1> HIDE DEF x
<1>2. 1..Len(event) \subseteq 1..n /\ n \in 1..n /\ 1..n \in SUBSET Int /\ n <= MaxEvents /\ n > Len(event)
  BY <1>0, <1>1
<1>3. ready \in Seq(1..n)  BY <1>2, SeqMonotonic DEF Typed
<1>4. Elems(ready) \subseteq 1..Len(event)
  <2>1. DOMAIN ready = 1..Len(ready) /\ \A k \in 1..Len(ready) : ready[k] \in 1..Len(event)
    BY LenProperties DEF Typed
  <2> QED  BY <2>1 DEF Elems
<1>5. \A a \in Elems(ready) : a < n  BY <1>1, <1>4
<1> HIDE DEF n
<1>6. ready' \in Seq(1..n) /\ Inc(ready') /\ Elems(ready') \subseteq Elems(ready) \cup {n}
  <2>1. CASE loop = "up"
    <3>1. ready' = Append(ready, n)  BY <1>0, <1>1, <2>1
    <3> QED  BY <1>2, <1>3, <1>5, <3>1, AppendIs DEF InTurn
  <2>2. CASE loop # "up"  BY <1>0, <1>3, <2>2 DEF InTurn
  <2> QED  BY <2>1, <2>2
<1>7. Typed'  BY <1>0, <1>1, <1>2, <1>6 DEF Typed
<1>8. InTurn'
  <2>1. ASSUME NEW e \in Events, cast[e].pc # "none"
        PROVE  e <= Len(event') /\ \A a \in Elems(ready') : e < a
    <3>1. e <= Len(event) /\ \A a \in Elems(ready) : e < a  BY <2>1 DEF InTurn
    <3>2. e \in Int /\ n \in Int  BY <1>2 DEF Events
    <3>3. e < n  BY <1>1, <1>2, <3>1, <3>2
    <3> QED  BY <1>1, <1>6, <3>1, <3>2, <3>3
  <2> QED  BY <1>0, <1>6, <2>1 DEF InTurn
<1>9. Counted'  BY <1>0 DEF Counted
<1>10. ASSUME NEW d \in Clients PROVE PerClient(d)'  BY <1>0, Kept
<1> QED  BY <1>7, <1>8, <1>9, <1>10

\* A step of one client's pump, with what it settles.
LEMMA PumpInv ==
    ASSUME IInv, NEW c \in Clients, NEW r \in Outs, out' = [out EXCEPT ![c] = r],
           sent' \in [Clients -> Seq(Events)], conn' \in [Clients -> Conns], cast' \in [Events -> Casts],
           \A e \in Events : /\ cast'[e].pc = cast[e].pc
                             /\ \A d \in Clients : d # c => (d \in cast'[e].waits <=> d \in cast[e].waits),
           \A d \in Clients : d # c => sent'[d] = sent[d] /\ conn'[d] = conn[d],
           UNCHANGED <<loop, event, ready, connections, sub, dropped, due, full>>,
           PerClient(c)'
    PROVE  IInv'
<1> USE DEF IInv
<1>1. Typed'
  <2>1. out' \in [Clients -> Outs]  BY DEF Typed
  <2> QED  BY <2>1 DEF Typed
<1>2. InTurn' /\ Counted'  BY DEF InTurn, Counted
<1>3. ASSUME NEW d \in Clients, d # c PROVE PerClient(d)'
  <2>1. out'[d] = out[d]  BY <1>3 DEF Typed
  <2> QED  BY <1>3, <2>1, Kept
<1> QED  BY <1>1, <1>2, <1>3

LEMMA GetInv ==
    ASSUME IInv, NEW c \in Clients, Get(c)
    PROVE  IInv'
<1> USE WsAssumption DEF IInv, Sockets
<1> DEFINE q == out[c].queue  r == [out[c] EXCEPT !.hand = Head(q), !.queue = Tail(q)]
<1>0. /\ out[c] \in Outs /\ q \in Seq(Events) /\ out[c].pump = "run" /\ out[c].hand = 0 /\ q # <<>>
      /\ Events \in SUBSET Int
  BY DEF Typed, Outs, Get, Events
<1>1. /\ out' = [out EXCEPT ![c] = r]
      /\ UNCHANGED <<conn, connections, sub, loop, event, ready, cast, dropped, due, sent, full>>
  BY DEF Get, Typed
<1>2. /\ Tail(q) \in Seq(Events) /\ Len(Tail(q)) = Len(q) - 1 /\ Len(q) \in Nat
      /\ Head(q) \in Events /\ Elems(q) = Elems(Tail(q)) \cup {Head(q)}
      /\ Inc(q) => Inc(Tail(q)) /\ \A b \in Elems(Tail(q)) : Head(q) < b
  BY <1>0, TailIs
<1>3. Head(q) \in 0..MaxEvents /\ Head(q) # 0  BY <1>2 DEF Events
<1>4. r \in Outs /\ r.hand = Head(q) /\ r.queue = Tail(q) /\ r.pump = "run"
  BY <1>0, <1>2, <1>3 DEF Outs
<1> HIDE DEF r
<1>5. out'[c] = r  BY <1>1 DEF Typed
<1>6. Index(c) /\ Pumps(c) /\ Past(c) /\ Feed(c) /\ Waited(c)  BY DEF PerClient
<1>7. \A e \in Events : Holds(c, e)' <=> Holds(c, e)
  BY <1>0, <1>2, <1>3, <1>4, <1>5 DEF Holds
<1>8. PerClient(c)'
  <2>1. out[c] # NoPump  BY <1>0 DEF NoPump
  <2>2. Index(c)'  BY <1>1, <1>6, <2>1 DEF Index
  <2>0. Len(r.queue) <= QueueSize
    <3>1. Len(q) <= QueueSize /\ QueueSize \in Nat  BY <1>6 DEF Pumps
    <3> HIDE DEF q
    <3> QED  BY <1>2, <1>4, <3>1
  <2>3. Pumps(c)'  BY <1>1, <1>4, <1>5, <1>6, <1>0, <2>0 DEF Pumps
  <2>4. Past(c)'  BY <1>1, <1>6, <1>7 DEF Past
  <2>5. Feed(c)'  BY <1>1, <1>2, <1>4, <1>5, <1>6, <1>7 DEF Feed
  <2>6. Waited(c)'  BY <1>1, <1>6, <1>7 DEF Waited
  <2> QED  BY <2>2, <2>3, <2>4, <2>5, <2>6 DEF PerClient
<1> QED  BY <1>1, <1>4, <1>8, PumpInv DEF Typed

LEMMA SendInv ==
    ASSUME IInv, NEW c \in Clients, Send(c)
    PROVE  IInv'
<1> USE WsAssumption DEF IInv, Sockets
<1> DEFINE h == out[c].hand  q == out[c].queue  r == [out[c] EXCEPT !.hand = 0]
<1>0. /\ out[c] \in Outs /\ q \in Seq(Events) /\ h # 0 /\ h \in Events /\ conn[c].alive
      /\ sent[c] \in Seq(Events) /\ Events \in SUBSET Int
  BY DEF Typed, Outs, Send, Events
<1>1. /\ out' = [out EXCEPT ![c] = r] /\ sent' = [sent EXCEPT ![c] = Append(sent[c], h)]
      /\ cast' = IF q = <<>> THEN Settle(c, FALSE) ELSE cast
      /\ UNCHANGED <<conn, connections, sub, loop, event, ready, dropped, due, full>>
  BY DEF Send, Typed
<1>a. 0 \in 0..MaxEvents  OBVIOUS
<1>2. r \in Outs /\ r.hand = 0 /\ r.queue = q /\ r.pump = out[c].pump  BY <1>0, <1>a DEF Outs
<1> HIDE DEF r, h
<1>3. out'[c] = r /\ sent'[c] = Append(sent[c], h)  BY <1>1 DEF Typed
<1>4. /\ Append(sent[c], h) \in Seq(Events) /\ Elems(sent'[c]) = Elems(sent[c]) \cup {h}
      /\ Inc(sent[c]) /\ (\A a \in Elems(sent[c]) : a < h) => Inc(sent'[c])
  BY <1>0, <1>3, AppendIs
<1>5. sent' \in [Clients -> Seq(Events)]  BY <1>1, <1>4 DEF Typed
<1>6. /\ cast' \in [Events -> Casts]
      /\ \A e \in Events : /\ cast'[e].pc = cast[e].pc
                           /\ \A d \in Clients : d # c => (d \in cast'[e].waits <=> d \in cast[e].waits)
  BY <1>1, SettleIs DEF Typed
<1>7. Index(c) /\ Pumps(c) /\ Past(c) /\ Feed(c) /\ Waited(c)  BY DEF PerClient
<1>8. \A e \in Events : /\ Holds(c, e) <=> e \in Elems(q) \/ e = h
                        /\ Holds(c, e)' <=> e \in Elems(q)
  BY <1>0, <1>2, <1>3 DEF Holds, h
<1>9. PerClient(c)'
  <2>1. out[c] # NoPump  BY <1>0 DEF NoPump, h
  <2>2. Index(c)'  BY <1>1, <1>7, <2>1 DEF Index
  <2>3. Pumps(c)'  BY <1>0, <1>1, <1>2, <1>3, <1>7, <2>1 DEF Pumps
  <2>4. Past(c)'  BY <1>1, <1>4, <1>6, <1>7, <1>8 DEF Past
  <2>5. Feed(c)'
    <3>1. /\ Inc(sent[c]) /\ Inc(q) /\ \A a \in Elems(sent[c]), b \in Events : Holds(c, b) => a < b
          /\ \A b \in Elems(q) : h < b
      BY <1>0, <1>7 DEF Feed, h
    <3>2. Inc(sent'[c])  BY <1>0, <1>4, <1>8, <3>1
    <3>3. \A a \in Elems(sent'[c]), b \in Events : Holds(c, b)' => a < b  BY <1>4, <1>8, <3>1
    <3>4. \A e \in Events : e \in Elems(sent'[c]) \/ Holds(c, e)' <=> e \in due[c] /\ <<c, e>> \notin full
      BY <1>0, <1>4, <1>7, <1>8 DEF Feed
    <3> QED  BY <1>1, <1>2, <1>3, <3>1, <3>2, <3>3, <3>4 DEF Feed
  <2>6. Waited(c)'
    <3>1. CASE q = <<>>
      <4>1. \A e \in Events : ~Holds(c, e)'  BY <1>8, <3>1, EmptyIs
      <4> QED  BY <4>1 DEF Waited
    <3>2. CASE q # <<>>  BY <1>1, <1>7, <1>8, <3>2 DEF Waited
    <3> QED  BY <3>1, <3>2
  <2> QED  BY <2>2, <2>3, <2>4, <2>5, <2>6 DEF PerClient
<1>10. \A d \in Clients : d # c => sent'[d] = sent[d] /\ conn'[d] = conn[d]  BY <1>1 DEF Typed
<1>11. conn' \in [Clients -> Conns]  BY <1>1 DEF Typed
<1> QED  BY <1>1, <1>2, <1>5, <1>6, <1>9, <1>10, <1>11, PumpInv

LEMMA SendFailsInv ==
    ASSUME IInv, NEW c \in Clients, SendFails(c)
    PROVE  IInv'
<1> USE WsAssumption DEF IInv
<1> DEFINE q == out[c].queue  r == [out[c] EXCEPT !.hand = 0, !.pump = "done"]
           k == [conn[c] EXCEPT !.alive = FALSE]
<1>0. /\ out[c] \in Outs /\ out[c].hand # 0 /\ conn[c] \in Conns  BY DEF Typed, SendFails
<1>1. /\ out' = [out EXCEPT ![c] = r] /\ conn' = [conn EXCEPT ![c] = k]
      /\ cast' = Settle(c, q # <<>>)
      /\ UNCHANGED <<connections, sub, loop, event, ready, dropped, due, full, sent>>
  BY DEF SendFails, Typed
<1>a. 0 \in 0..MaxEvents  OBVIOUS
<1>2. r \in Outs /\ r.hand = 0 /\ r.queue = q /\ r.pump = "done"  BY <1>0, <1>a DEF Outs
<1>3. k \in Conns /\ ~k.alive /\ k.pc = conn[c].pc /\ k.auth = conn[c].auth  BY <1>0 DEF Conns
<1> HIDE DEF r, k
<1>4. out'[c] = r /\ conn'[c] = k  BY <1>1 DEF Typed
<1>5. /\ cast' \in [Events -> Casts]
      /\ \A e \in Events : /\ cast'[e].pc = cast[e].pc
                           /\ \A d \in Clients : d # c => (d \in cast'[e].waits <=> d \in cast[e].waits)
  BY <1>1, SettleIs
<1>6. Index(c) /\ Pumps(c) /\ Past(c)  BY DEF PerClient
<1>7. \A e \in Events : Holds(c, e)' => Holds(c, e)  BY <1>2, <1>4 DEF Holds
<1>8. PerClient(c)'
  <2>1. out[c] # NoPump  BY <1>0 DEF NoPump
  <2>2. conn[c].auth /\ conn[c].pc # "closed" /\ conn[c].pc # "new"  BY <1>6, <2>1 DEF Index
  <2>3. k.auth /\ k.pc # "closed" /\ k.pc # "new"  BY <1>3, <2>2
  <2>4. Index(c)'  BY <1>1, <1>4, <1>6, <2>3 DEF Index
  <2>5. Pumps(c)'  BY <1>2, <1>3, <1>4, <1>6 DEF Pumps
  <2>6. Past(c)'  BY <1>1, <1>5, <1>6, <1>7 DEF Past
  <2>7. Feed(c)' /\ Waited(c)'  BY <1>3, <1>4 DEF Feed, Waited
  <2> QED  BY <2>4, <2>5, <2>6, <2>7 DEF PerClient
<1>9. sent' \in [Clients -> Seq(Events)] /\ conn' \in [Clients -> Conns]  BY <1>1, <1>3 DEF Typed
<1>10. \A d \in Clients : d # c => sent'[d] = sent[d] /\ conn'[d] = conn[d]  BY <1>1 DEF Typed
<1> QED  BY <1>1, <1>2, <1>5, <1>8, <1>9, <1>10, PumpInv

\* The channel index finds the clients that want the event, and no other.
LEMMA CandidatesAre ==
    ASSUME IInv, NEW ev \in [type: Types, org: Owners]
    PROVE  Candidates(ev) \subseteq Clients /\ \A c \in Clients : c \in Candidates(ev) <=> Wants(c, ev)
<1> USE DEF IInv
<1>1. Candidates(ev) \subseteq Clients  BY DEF Candidates, Typed
<1>2. ASSUME NEW c \in Clients PROVE c \in Candidates(ev) <=> Wants(c, ev)
  <2>1. Index(c)  BY DEF PerClient
  <2>2. sub[c].chans \subseteq Names  BY DEF Typed, Subs
  <2>3. c \in UNION {connections[n] : n \in Names \cap {All, ev.type}}
          <=> {All, ev.type} \cap sub[c].chans # {}
    BY <2>1, <2>2 DEF Index
  <2>4. {All, ev.type} \cap sub[c].chans # {} => sub[c].known  BY <2>1 DEF Index
  <2> QED  BY <2>3, <2>4 DEF Candidates, Wants
<1> QED  BY <1>1, <1>2

\* A pump that runs, or is started, has the queue and the message it had,
\* unless it had ended.
LEMMA ReadyIs ==
    ASSUME IInv, NEW c \in Clients
    PROVE  /\ Ready(c) \in Outs /\ Ready(c).pump = "run" /\ Ready(c).hand = out[c].hand
           /\ Elems(Ready(c).queue) \subseteq Elems(out[c].queue)
           /\ Len(Ready(c).queue) <= QueueSize
           /\ conn[c].alive => Ready(c).queue = out[c].queue
<1> USE WsAssumption DEF IInv
<1>1. Pumps(c) /\ out[c] \in Outs  BY DEF PerClient, Typed
<1>2. CASE out[c].pump = "run"
  <2>1. Ready(c) = out[c]  BY <1>2 DEF Ready
  <2> QED  BY <1>1, <1>2, <2>1 DEF Pumps
<1>3. CASE out[c].pump # "run"
  <2>1. <<>> \in Seq(Events) /\ 0 \in 0..MaxEvents  BY EmptySeq
  <2>2. Ready(c) = [pump |-> "run", queue |-> <<>>, hand |-> 0]  BY <1>3 DEF Ready, NoPump
  <2>3. Ready(c) \in Outs /\ Ready(c).pump = "run" /\ Ready(c).queue = <<>> /\ Ready(c).hand = 0
    BY <2>1, <2>2 DEF Outs
  <2>4. out[c].pump = "none" \/ out[c].pump = "done"  BY <1>1, <1>3 DEF Outs
  <2>5. out[c].pump = "none" => out[c].hand = 0 /\ out[c].queue = <<>>  BY <1>1 DEF Pumps, NoPump
  <2>6. out[c].hand = 0  BY <1>1, <2>4, <2>5 DEF Pumps
  <2>7. conn[c].alive => out[c].queue = <<>>  BY <1>1, <2>4, <2>5 DEF Pumps
  <2>8. Len(Ready(c).queue) <= QueueSize  BY <2>3, EmptyIs
  <2>9. Elems(Ready(c).queue) \subseteq Elems(out[c].queue)  BY <2>3, EmptyIs
  <2> QED  BY <2>3, <2>6, <2>7, <2>8, <2>9
<1> QED  BY <1>2, <1>3

\* One loss is recorded for every client.
LEMMA PairsAre ==
    ASSUME NEW S, IsFiniteSet(S), NEW e
    PROVE  IsFiniteSet({<<c, e>> : c \in S}) /\ Cardinality({<<c, e>> : c \in S}) = Cardinality(S)
<1> DEFINE P == {<<c, e>> : c \in S}  f == [c \in S |-> <<c, e>>]
<1>1. f \in [S -> P] /\ \A a, b \in S : f[a] = f[b] => a = b  OBVIOUS
<1>2. \A p \in P : \E c \in S : f[c] = p  OBVIOUS
<1> HIDE DEF f, P
<1>3. f \in Bijection(S, P)  BY <1>1, <1>2 DEF Bijection, Injection, Surjection, IsInjective
<1>4. ExistsBijection(S, P)  BY <1>3 DEF ExistsBijection
<1> QED  BY <1>4, FS_Bijection DEF P

\* A broadcast finds room in a queue or counts the loss, for those who want it.
LEMMA BroadcastInv ==
    ASSUME IInv, Broadcast
    PROVE  IInv'
<1> USE WsAssumption DEF IInv, Sockets
<1> DEFINE e == Head(ready)
           to == Candidates(event[e])
           put == {c \in to : Fits(c)}
           b == [pc |-> IF put = {} THEN "returned" ELSE "drain", waits |-> put, stuck |-> FALSE]
<1>1. /\ ready # <<>> /\ ready' = Tail(ready)
      /\ out' = [c \in Clients |-> IF c \in put THEN [Ready(c) EXCEPT !.queue = Append(@, e)]
                                  ELSE IF c \in to THEN Ready(c) ELSE out[c]]
      /\ dropped' = dropped + Cardinality(to \ put)
      /\ full' = full \cup {<<c, e>> : c \in to \ put}
      /\ cast' = [cast EXCEPT ![e] = b]
      /\ due' = [c \in Clients |-> IF Wants(c, event[e]) THEN due[c] \cup {e} ELSE due[c]]
      /\ UNCHANGED <<loop, event, sent, conn, connections, sub>>
  BY DEF Broadcast
<1>2. Len(event) \in Nat /\ 1..Len(event) \in SUBSET Int /\ 1..Len(event) \subseteq Events
      /\ Events \in SUBSET Int
  BY LenProperties DEF Typed, Events
<1>3. /\ Tail(ready) \in Seq(1..Len(event)) /\ e \in 1..Len(event)
      /\ Elems(ready) = Elems(Tail(ready)) \cup {e}
      /\ Inc(ready) => Inc(Tail(ready)) /\ \A a \in Elems(Tail(ready)) : e < a
  BY <1>1, <1>2, TailIs DEF Typed
<1>4. e \in Events /\ e \in Int /\ e # 0 /\ e <= Len(event)  BY <1>2, <1>3
<1>5. event[e] \in [type: Types, org: Owners]
  <2>1. event \in Seq([type: Types, org: Owners])  BY DEF Typed
  <2>2. \A k \in 1..Len(event) : event[k] \in [type: Types, org: Owners]  BY <2>1, LenProperties
  <2> HIDE DEF e
  <2> QED  BY <1>3, <2>2
<1>6. to \subseteq Clients /\ \A c \in Clients : c \in to <=> Wants(c, event[e])
  BY <1>5, CandidatesAre
<1>7. put \subseteq to /\ \A c \in to : c \in put <=> Len(Ready(c).queue) < QueueSize  BY DEF Fits
<1>8. b \in Casts /\ b.pc # "none" /\ b.waits = put /\ (b.pc = "returned" => put = {})
  <2>1. put \in SUBSET Clients  BY <1>6
  <2> HIDE DEF put
  <2> QED  BY <2>1 DEF Casts
<1> HIDE DEF e, to, put, b
<1>9. \A x \in Events : cast[x].pc # "none" => x < e  BY <1>3 DEF InTurn
<1>10. cast[e].pc = "none"  BY <1>4, <1>9
<1>11. \A x \in Events : cast'[x] = IF x = e THEN b ELSE cast[x]  BY <1>1 DEF Typed
<1>12. \A c \in Clients : \A x \in Events :
          <<c, x>> \in full' <=> <<c, x>> \in full \/ (x = e /\ c \in to /\ c \notin put)
  BY <1>1
<1>13. ASSUME NEW c \in put
       PROVE  /\ out'[c] = [Ready(c) EXCEPT !.queue = Append(Ready(c).queue, e)]
              /\ out'[c] \in Outs /\ out'[c].pump = "run" /\ out'[c].hand = out[c].hand
              /\ out'[c].queue = Append(Ready(c).queue, e)
              /\ Append(Ready(c).queue, e) \in Seq(Events)
  <2>0. c \in Clients  BY <1>6, <1>7
  <2>1. out'[c] = [Ready(c) EXCEPT !.queue = Append(Ready(c).queue, e)]  BY <1>1, <2>0
  <2>2. Ready(c) \in Outs /\ Ready(c).pump = "run" /\ Ready(c).hand = out[c].hand  BY <2>0, ReadyIs
  <2>3. Append(Ready(c).queue, e) \in Seq(Events)  BY <1>4, <2>2 DEF Outs
  <2> QED  BY <2>1, <2>2, <2>3 DEF Outs
<1>14. ASSUME NEW c \in to, c \notin put PROVE out'[c] = Ready(c) /\ out'[c] \in Outs
  BY <1>1, <1>6, <1>14, ReadyIs
<1>15. ASSUME NEW c \in Clients, c \notin to PROVE out'[c] = out[c] /\ out'[c] \in Outs
  BY <1>1, <1>7, <1>15 DEF Typed
<1>16. Typed'
  <2>1. out' \in [Clients -> Outs]
    <3>1. out' = [c \in Clients |-> out'[c]]  BY <1>1
    <3>2. \A c \in Clients : out'[c] \in Outs  BY <1>13, <1>14, <1>15
    <3> QED  BY <3>1, <3>2
  <2>2. cast' \in [Events -> Casts]  BY <1>1, <1>8 DEF Typed
  <2>3. due' \in [Clients -> SUBSET Events]
    <3>1. due' = [c \in Clients |-> due'[c]]  BY <1>1
    <3>2. \A c \in Clients : due'[c] \in SUBSET Events  BY <1>1, <1>4 DEF Typed
    <3> QED  BY <3>1, <3>2
  <2>4. full' \subseteq Clients \X Events  BY <1>1, <1>4, <1>6 DEF Typed
  <2>5. dropped' \in Nat
    <3>1. IsFiniteSet(to \ put)  BY <1>6, FS_Subset
    <3>2. Cardinality(to \ put) \in Nat  BY <3>1, FS_CardinalityType
    <3> QED  BY <1>1, <3>2 DEF Typed
  <2> QED  BY <1>1, <1>3, <2>1, <2>2, <2>3, <2>4, <2>5 DEF Typed
<1>17. InTurn'
  <2>1. Inc(ready')  BY <1>1, <1>3 DEF InTurn
  <2>2. ASSUME NEW x \in Events, cast'[x].pc # "none"
        PROVE  x <= Len(event) /\ \A a \in Elems(ready') : x < a
    <3>1. CASE x = e  BY <1>1, <1>3, <1>4, <3>1 DEF InTurn
    <3>2. CASE x # e  BY <1>1, <1>3, <1>11, <2>2, <3>2 DEF InTurn
    <3> QED  BY <3>1, <3>2
  <2> QED  BY <1>1, <2>1, <2>2 DEF InTurn
<1>18. Counted'
  <2> DEFINE lost == {<<c, e>> : c \in to \ put}
  <2>1. IsFiniteSet(to \ put)  BY <1>6, FS_Subset
  <2>2. IsFiniteSet(lost) /\ Cardinality(lost) = Cardinality(to \ put)  BY <2>1, PairsAre
  <2>3. full \cap lost = {}
    <3>1. ASSUME NEW c \in to \ put, <<c, e>> \in full PROVE FALSE
      <4>1. c \in Clients /\ Past(c)  BY <1>6 DEF PerClient
      <4> QED  BY <1>4, <1>10, <3>1, <4>1 DEF Past
    <3> QED  BY <3>1
  <2> HIDE DEF lost
  <2>4. Cardinality(full \cap lost) = 0  BY <2>3, FS_EmptySet
  <2>5. /\ IsFiniteSet(full \cup lost)
        /\ Cardinality(full \cup lost) = Cardinality(full) + Cardinality(lost) - Cardinality(full \cap lost)
    BY <2>2, FS_Union DEF Counted
  <2>6. Cardinality(full) \in Nat /\ Cardinality(lost) \in Nat  BY <2>2, FS_CardinalityType DEF Counted
  <2>7. full' = full \cup lost /\ dropped' = dropped + Cardinality(lost)  BY <1>1, <2>2 DEF lost
  <2> QED  BY <2>4, <2>5, <2>6, <2>7 DEF Counted
<1>19. ASSUME NEW c \in Clients PROVE PerClient(c)'
  <2>1. Index(c) /\ Pumps(c) /\ Past(c) /\ Feed(c) /\ Waited(c)  BY DEF PerClient
  <2>2. ~Holds(c, e) /\ e \notin Elems(sent[c]) /\ e \notin due[c] /\ <<c, e>> \notin full
    BY <1>4, <1>10, <2>1 DEF Past
  <2>3. CASE c \notin to
    <3>1. out'[c] = out[c] /\ due'[c] = due[c]  BY <1>1, <1>6, <1>15, <2>3
    <3>2. \A x \in Events : Holds(c, x)' <=> Holds(c, x)  BY <3>1 DEF Holds
    <3>3. \A x \in Events : <<c, x>> \in full' <=> <<c, x>> \in full  BY <1>12, <2>3
    <3>4. Index(c)' /\ Pumps(c)'  BY <1>1, <2>1, <3>1 DEF Index, Pumps
    <3>5. Past(c)'  BY <1>1, <1>8, <1>11, <2>1, <3>1, <3>2, <3>3 DEF Past
    <3>6. Feed(c)'  BY <1>1, <2>1, <3>1, <3>2, <3>3 DEF Feed
    <3>7. Waited(c)'  BY <1>1, <1>11, <2>1, <2>2, <3>2 DEF Waited
    <3> QED  BY <3>4, <3>5, <3>6, <3>7 DEF PerClient
  <2>4. CASE c \in to
    <3> DEFINE q == Ready(c).queue
    <3>0. due'[c] = due[c] \cup {e}  BY <1>1, <1>6, <2>4
    <3>1. /\ q \in Seq(Events) /\ Ready(c).pump = "run" /\ Ready(c).hand = out[c].hand
          /\ Elems(q) \subseteq Elems(out[c].queue) /\ Len(q) <= QueueSize
          /\ conn[c].alive => q = out[c].queue
      BY ReadyIs DEF Outs
    <3>2. /\ Append(q, e) \in Seq(Events) /\ Len(Append(q, e)) = Len(q) + 1 /\ Len(q) \in Nat
          /\ Elems(Append(q, e)) = Elems(q) \cup {e} /\ Elems(q) \subseteq Events
          /\ Inc(q) /\ (\A a \in Elems(q) : a < e) => Inc(Append(q, e))
      BY <1>2, <1>4, <3>1, AppendIs
    <3>3. /\ c \in put => out'[c].queue = Append(q, e)
          /\ c \notin put => out'[c].queue = q
          /\ out'[c].pump = "run" /\ out'[c].hand = out[c].hand
      BY <1>13, <1>14, <2>4, <3>1
    <3>4. c \in put <=> Len(q) < QueueSize  BY <1>7, <2>4
    <3> HIDE DEF q
    <3>5. \A x \in Events : Holds(c, x)' => Holds(c, x) \/ (x = e /\ c \in put)
      BY <3>1, <3>2, <3>3 DEF Holds
    <3>6. sub[c].chans # {}  BY <1>6, <2>4 DEF Wants
    <3>7. Index(c)'
      <4>1. conn[c].auth /\ conn[c].pc # "closed" /\ conn[c].pc # "new"  BY <2>1, <3>6 DEF Index
      <4> QED  BY <1>1, <2>1, <4>1 DEF Index
    <3>8. Pumps(c)'
      <4>1. Len(out'[c].queue) <= QueueSize  BY <3>1, <3>2, <3>3, <3>4
      <4> QED  BY <1>1, <2>1, <3>3, <4>1 DEF Pumps
    <3>9. Past(c)'
      <4> SUFFICES ASSUME NEW x \in Events, cast'[x].pc = "none"
                   PROVE  /\ x \notin Elems(sent'[c]) /\ ~Holds(c, x)'
                          /\ x \notin due'[c] /\ <<c, x>> \notin full'
        BY DEF Past
      <4>1. x # e /\ cast[x].pc = "none"  BY <1>8, <1>11
      <4> QED  BY <1>1, <1>12, <2>1, <3>0, <3>5, <4>1 DEF Past
    <3>10. ASSUME conn[c].alive
           PROVE  \A x \in Events : Holds(c, x)' <=> Holds(c, x) \/ (x = e /\ c \in put)
      <4>1. CASE c \in put  BY <3>1, <3>2, <3>3, <3>10, <4>1 DEF Holds
      <4>2. CASE c \notin put  BY <3>1, <3>3, <3>10, <4>2 DEF Holds
      <4> QED  BY <4>1, <4>2
    <3>11. Feed(c)'
      <4> SUFFICES ASSUME conn[c].alive
                   PROVE  /\ Inc(sent[c]) /\ Inc(out'[c].queue)
                          /\ \A a \in Elems(sent[c]), x \in Events : Holds(c, x)' => a < x
                          /\ out'[c].hand # 0 => \A x \in Elems(out'[c].queue) : out'[c].hand < x
                          /\ \A x \in Events : x \in Elems(sent[c]) \/ Holds(c, x)'
                                                <=> x \in due'[c] /\ <<c, x>> \notin full'
        BY <1>1 DEF Feed
      <4>1. /\ Inc(sent[c]) /\ Inc(q)
            /\ \A a \in Elems(sent[c]), x \in Events : Holds(c, x) => a < x
            /\ out[c].hand # 0 => \A x \in Elems(q) : out[c].hand < x
            /\ \A x \in Events : x \in Elems(sent[c]) \/ Holds(c, x) <=> x \in due[c] /\ <<c, x>> \notin full
        BY <2>1, <3>1 DEF Feed
      <4>2. \A x \in Events : Holds(c, x) \/ x \in Elems(sent[c]) => x < e
        BY <1>9, <2>1 DEF Past
      <4>3. \A a \in Elems(q) : a \in Events /\ Holds(c, a)  BY <3>1, <3>2 DEF Holds
      <4>4. Elems(sent[c]) \subseteq Events
        <5>1. sent[c] \in Seq(Events)  BY DEF Typed
        <5>2. DOMAIN sent[c] = 1..Len(sent[c]) /\ \A k \in 1..Len(sent[c]) : sent[c][k] \in Events
          BY <5>1, LenProperties
        <5> QED  BY <5>2 DEF Elems
      <4>5. Inc(out'[c].queue)  BY <3>2, <3>3, <4>1, <4>2, <4>3
      <4>6. \A a \in Elems(sent[c]), x \in Events : Holds(c, x)' => a < x
        BY <3>10, <4>1, <4>2, <4>4
      <4>7. out'[c].hand # 0 => \A x \in Elems(out'[c].queue) : out'[c].hand < x
        <5> SUFFICES ASSUME out[c].hand # 0, NEW x \in Elems(out'[c].queue) PROVE out[c].hand < x
          BY <3>3
        <5>1. out[c].hand \in 0..MaxEvents  BY DEF Typed, Outs
        <5>2. out[c].hand \in Events /\ Holds(c, out[c].hand)  BY <5>1 DEF Events, Holds
        <5>3. x \in Elems(q) \/ x = e  BY <3>2, <3>3
        <5> QED  BY <4>1, <4>2, <5>2, <5>3
      <4>8. ASSUME NEW x \in Events
            PROVE  x \in Elems(sent[c]) \/ Holds(c, x)' <=> x \in due'[c] /\ <<c, x>> \notin full'
        <5>1. CASE x = e
          <6>1. Holds(c, x)' <=> c \in put  BY <2>2, <3>10, <5>1
          <6>2. x \in due'[c] /\ x \notin Elems(sent[c])  BY <2>2, <3>0, <5>1
          <6>3. <<c, x>> \in full' <=> c \notin put  BY <1>12, <2>2, <2>4, <5>1
          <6> QED  BY <6>1, <6>2, <6>3
        <5>2. CASE x # e
          <6>1. Holds(c, x)' <=> Holds(c, x)  BY <3>10, <5>2
          <6>2. x \in due'[c] <=> x \in due[c]  BY <3>0, <5>2
          <6>3. <<c, x>> \in full' <=> <<c, x>> \in full  BY <1>12, <5>2
          <6> QED  BY <4>1, <6>1, <6>2, <6>3
        <5> QED  BY <5>1, <5>2
      <4> QED  BY <4>1, <4>5, <4>6, <4>7, <4>8
    <3>12. Waited(c)'
      <4> SUFFICES ASSUME conn[c].alive, NEW x \in Events, Holds(c, x)'
                   PROVE  cast'[x].pc # "returned" /\ (cast'[x].pc = "drain" => c \in cast'[x].waits)
        BY <1>1 DEF Waited
      <4>1. CASE x = e
        <5>1. c \in put  BY <2>2, <3>10, <4>1
        <5> QED  BY <1>8, <1>11, <4>1, <5>1
      <4>2. CASE x # e  BY <1>11, <2>1, <3>10, <4>2 DEF Waited
      <4> QED  BY <4>1, <4>2
    <3> QED  BY <3>7, <3>8, <3>9, <3>11, <3>12 DEF PerClient
  <2> QED  BY <2>3, <2>4
<1> QED  BY <1>16, <1>17, <1>18, <1>19

\* A broadcast that fails takes its event with it and touches no client.
LEMMA BroadcastFailsInv ==
    ASSUME IInv, BroadcastFails
    PROVE  IInv'
<1> USE DEF IInv
<1>1. /\ ready # <<>> /\ ready' = Tail(ready)
      /\ UNCHANGED <<loop, event, conn, connections, sub, out, cast, dropped, due, sent, full>>
  BY DEF BroadcastFails, Sockets
<1>2. 1..Len(event) \in SUBSET Int /\ ready \in Seq(1..Len(event))  BY DEF Typed
<1>3. /\ ready' \in Seq(1..Len(event)) /\ Elems(ready') \subseteq Elems(ready)
      /\ Inc(ready) => Inc(ready')
  BY <1>1, <1>2, TailIs
<1>4. Typed'  BY <1>1, <1>3 DEF Typed
<1>5. InTurn' /\ Counted'  BY <1>1, <1>3 DEF InTurn, Counted
<1>6. ASSUME NEW d \in Clients PROVE PerClient(d)'  BY <1>1, Kept
<1> QED  BY <1>4, <1>5, <1>6

LEMMA StutterInv ==
    ASSUME IInv, UNCHANGED vars
    PROVE  IInv'
<1> USE DEF IInv, vars
<1>1. Typed'  BY DEF Typed
<1>2. InTurn' /\ Counted'  BY DEF InTurn, Counted
<1>3. ASSUME NEW d \in Clients PROVE PerClient(d)'  BY Kept
<1> QED  BY <1>1, <1>2, <1>3

\* Every step of the fan-out keeps the invariant.
THEOREM Inductive == Spec => []IInv
<1>1. ASSUME IInv, [Next]_vars PROVE IInv'
  <2>1. CASE UNCHANGED vars  BY <1>1, <2>1, StutterInv
  <2>2. CASE Startup \/ Shutdown  BY <1>1, <2>2, LoopInv
  <2>3. CASE Broadcast \/ BroadcastFails  BY <1>1, <2>3, BroadcastInv, BroadcastFailsInv
  <2>4. CASE \E ty \in Types, o \in Owners : Publish(ty, o)  BY <1>1, <2>4, PublishInv
  <2>5. CASE \E e \in Events : Barrier(e)  BY <1>1, <2>5, BarrierInv DEF Barrier
  <2>6. ASSUME NEW c \in Clients, Session(c) PROVE IInv'
    <3>1. CASE \E auth \in BOOLEAN, o \in Owners : Connect(c, auth, o)  BY <1>1, <3>1, ConnectInv
    <3>2. CASE Disconnect(c)  BY <1>1, <3>2, DisconnectInv
    <3>3. CASE \/ \E o \in Owners : Authenticate(c, o)
               \/ \E chans \in Requests : Subscribe(c, chans)
               \/ Deny(c)
      BY <1>1, <3>3, OpenSessionInv
    <3> QED  BY <2>6, <3>1, <3>2, <3>3 DEF Session
  <2>7. ASSUME NEW c \in Clients, Pump(c) \/ SendFails(c) PROVE IInv'
    BY <1>1, <2>7, GetInv, SendInv, SendFailsInv DEF Pump
  <2> QED  BY <1>1, <2>1, <2>2, <2>3, <2>4, <2>5, <2>6, <2>7 DEF Next
<1> QED  BY <1>1, InitInv, PTL DEF Spec

-----------------------------------------------------------------------------
(* The theorems *)

\* Every variable keeps its type and no queue of the fan-out ever holds more
\* than OUTBOUND_QUEUE_SIZE messages (websocket_manager.py, _enqueue).
THEOREM TypeCorrect == Spec => []TypeOK
<1>1. ASSUME IInv PROVE TypeOK
  <2>1. Typed  BY <1>1 DEF IInv
  <2>2. DOMAIN event = 1..Len(event)  BY <2>1, LenProperties DEF Typed
  <2>3. ready \in Seq(DOMAIN event)  BY <2>1, <2>2 DEF Typed
  <2>4. ASSUME NEW c \in Clients
        PROVE  /\ out[c].pump \in {"none", "run", "done"} /\ out[c].hand \in 0..MaxEvents
               /\ out[c].queue \in Seq(Events) /\ Len(out[c].queue) <= QueueSize
               /\ due[c] \subseteq Events /\ sent[c] \in Seq(Events)
    <3>1. out[c] \in Outs /\ due[c] \subseteq Events /\ sent[c] \in Seq(Events)  BY <2>1 DEF Typed
    <3>2. Len(out[c].queue) <= QueueSize  BY <1>1 DEF IInv, PerClient, Pumps
    <3> QED  BY <3>1, <3>2 DEF Outs
  <2> QED  BY <2>1, <2>3, <2>4 DEF Typed, TypeOK, Conns, Subs, Casts
<1> QED  BY <1>1, Inductive, PTL

\* Through every subscription and every way a session ends, the channel index
\* lists a socket under exactly its own channels, and a closed socket is in no
\* channel and has no pump (websocket_manager.py, subscribe and disconnect).
THEOREM IndexIsExact == Spec => []IndexExact
<1>1. IInv => IndexExact  BY DEF IInv, PerClient, Index, IndexExact
<1> QED  BY <1>1, Inductive, PTL

LEMMA HeldIs ==
    ASSUME IInv, NEW c \in Clients
    PROVE  Held(c) \in Seq(Events) /\ \A e \in Events : e \in Elems(Held(c)) <=> Holds(c, e)
<1> USE WsAssumption
<1>1. out[c] \in Outs /\ out[c].queue \in Seq(Events) /\ out[c].hand \in 0..MaxEvents  BY DEF IInv, Typed, Outs
<1> DEFINE q == out[c].queue  h == out[c].hand  n == Len(q)
<1>2. n \in Nat /\ DOMAIN q = 1..n  BY <1>1, LenProperties
<1>3. CASE h = 0
  <2>1. Held(c) = q  BY <1>1, <1>3 DEF Held
  <2> QED  BY <1>1, <1>3, <2>1 DEF Holds
<1>4. CASE h # 0
  <2>1. h \in Events  BY <1>1, <1>4 DEF Events
  <2>2. Held(c) = <<h>> \o q /\ <<h>> \in Seq(Events) /\ Len(<<h>>) = 1 /\ <<h>>[1] = h
    BY <1>4, <2>1 DEF Held
  <2>3. /\ Held(c) \in Seq(Events) /\ Len(Held(c)) = 1 + n /\ Held(c)[1] = h
        /\ \A k \in 1..n : Held(c)[k + 1] = q[k]
    BY <1>1, <1>2, <2>2
  <2>4. DOMAIN Held(c) = 1..(1 + n)  BY <2>3, LenProperties
  <2> HIDE DEF q, h, n
  <2>5. \A k \in 1..(1 + n) : k = 1 \/ (k - 1 \in 1..n /\ (k - 1) + 1 = k)  BY <1>2
  <2>6. 1 \in 1..(1 + n) /\ \A k \in 1..n : k + 1 \in 1..(1 + n)  BY <1>2
  <2>7. h \in Elems(Held(c)) /\ Elems(q) \subseteq Elems(Held(c))  BY <1>2, <2>3, <2>4, <2>6 DEF Elems
  <2>8. ASSUME NEW k \in 1..(1 + n) PROVE Held(c)[k] \in Elems(q) \cup {h}
    <3>1. CASE k = 1  BY <2>3, <3>1
    <3>2. CASE k # 1
      <4>1. k - 1 \in 1..n /\ Held(c)[k] = q[k - 1]  BY <2>3, <2>5, <3>2
      <4> QED  BY <1>2, <4>1 DEF Elems
    <3> QED  BY <3>1, <3>2
  <2>9. Elems(Held(c)) = Elems(q) \cup {h}  BY <2>4, <2>7, <2>8 DEF Elems
  <2> QED  BY <1>4, <2>3, <2>9 DEF Holds, q, h
<1> QED  BY <1>3, <1>4

\* A broadcast that returns before its cap has reached every client it queued
\* for whose connection still works: "delivered-on-return"
\* (websocket_manager.py:39).
THEOREM DeliveredBeforeReturn == Spec => []DeliveredOnReturn
<1>1. ASSUME IInv, NEW e \in Events, NEW c \in Clients, cast[e].pc = "returned", conn[c].alive,
             NEW k \in DOMAIN Held(c), Held(c)[k] = e
      PROVE  FALSE
  <2>1. e \in Elems(Held(c))  BY <1>1 DEF Elems
  <2>2. Holds(c, e)  BY <1>1, <2>1, HeldIs
  <2>3. Waited(c)  BY <1>1 DEF IInv, PerClient
  <2> QED  BY <1>1, <2>2, <2>3 DEF Waited
<1>2. IInv => DeliveredOnReturn  BY <1>1 DEF DeliveredOnReturn
<1> QED  BY <1>2, Inductive, PTL

\* Two increasing sequences, all of the first before all of the second, are
\* one increasing sequence.
LEMMA ConcatIs ==
    ASSUME NEW S \in SUBSET Int, NEW s \in Seq(S), NEW t \in Seq(S)
    PROVE  /\ Elems(s \o t) = Elems(s) \cup Elems(t)
           /\ Inc(s) /\ Inc(t) /\ (\A a \in Elems(s), b \in Elems(t) : a < b) => Inc(s \o t)
<1> DEFINE u == s \o t  m == Len(s)  n == Len(t)
<1>1. /\ m \in Nat /\ DOMAIN s = 1..m /\ \A k \in 1..m : s[k] \in S
      /\ n \in Nat /\ DOMAIN t = 1..n /\ \A k \in 1..n : t[k] \in S
  BY LenProperties
<1>2. u \in Seq(S) /\ Len(u) = m + n  OBVIOUS
<1>3. DOMAIN u = 1..(m + n)  BY <1>2, LenProperties
<1>4. \A k \in 1..m : u[k] = s[k]  OBVIOUS
<1>5. \A k \in 1..n : u[m + k] = t[k]  BY <1>1
<1> HIDE DEF u, m, n
<1>6. \A k \in 1..(m + n) : k \in 1..m \/ (k - m \in 1..n /\ m + (k - m) = k)  BY <1>1
<1>7. 1..m \subseteq 1..(m + n) /\ \A k \in 1..n : m + k \in 1..(m + n)  BY <1>1
<1>8. \A k \in 1..(m + n) : k \notin 1..m => k - m \in 1..n /\ u[k] = t[k - m]  BY <1>5, <1>6
<1>9. Elems(u) = Elems(s) \cup Elems(t)
  <2>1. Elems(s) \subseteq Elems(u) /\ Elems(t) \subseteq Elems(u)
    BY <1>1, <1>3, <1>4, <1>5, <1>7 DEF Elems
  <2>2. ASSUME NEW k \in 1..(m + n) PROVE u[k] \in Elems(s) \cup Elems(t)
    <3>1. CASE k \in 1..m  BY <1>1, <1>4, <3>1 DEF Elems
    <3>2. CASE k \notin 1..m  BY <1>1, <1>8, <3>2 DEF Elems
    <3> QED  BY <3>1, <3>2
  <2>3. Elems(u) \subseteq Elems(s) \cup Elems(t)  BY <1>3, <2>2 DEF Elems
  <2> QED  BY <2>1, <2>3
<1>10. ASSUME Inc(s), Inc(t), \A a \in Elems(s), b \in Elems(t) : a < b PROVE Inc(u)
  <2> SUFFICES ASSUME NEW i \in 1..(m + n), NEW j \in 1..(m + n), i < j PROVE u[i] < u[j]
    BY <1>3 DEF Inc
  <2>1. CASE i \in 1..m /\ j \in 1..m  BY <1>1, <1>4, <1>10, <2>1 DEF Inc
  <2>2. CASE i \in 1..m /\ j \notin 1..m
    <3>1. u[i] \in Elems(s)  BY <1>1, <1>4, <2>2 DEF Elems
    <3>2. u[j] \in Elems(t)  BY <1>1, <1>8, <2>2 DEF Elems
    <3> QED  BY <1>10, <3>1, <3>2
  <2>3. CASE i \notin 1..m
    <3>1. j \notin 1..m /\ i - m < j - m  BY <1>1, <2>3
    <3>2. i - m \in 1..n /\ j - m \in 1..n /\ u[i] = t[i - m] /\ u[j] = t[j - m]  BY <1>8, <2>3, <3>1
    <3> QED  BY <1>1, <1>10, <3>1, <3>2 DEF Inc
  <2> QED  BY <2>1, <2>2, <2>3
<1> QED  BY <1>9, <1>10 DEF u

\* A client whose sends succeed is sent, or still has queued, in order and once,
\* exactly the events meant for it that did not find its queue full, and every
\* one that did is counted: "NEW messages are dropped" (websocket_manager.py:33).
THEOREM LossIsCounted == Spec => []LossCounted
<1>1. ASSUME IInv, NEW c \in Clients, conn[c].alive
      PROVE  LET all == sent[c] \o Held(c) IN
             /\ {all[k] : k \in DOMAIN all} = {e \in due[c] : <<c, e>> \notin full}
             /\ \A i, j \in DOMAIN all : i < j => all[i] < all[j]
  <2> DEFINE s == sent[c]  t == Held(c)  q == out[c].queue  h == out[c].hand
  <2>1. /\ Inc(s) /\ Inc(q)
        /\ \A a \in Elems(s), b \in Events : Holds(c, b) => a < b
        /\ h # 0 => \A b \in Elems(q) : h < b
        /\ \A e \in Events : e \in Elems(s) \/ Holds(c, e) <=> e \in due[c] /\ <<c, e>> \notin full
    BY <1>1 DEF IInv, PerClient, Feed
  <2>2. t \in Seq(Events) /\ \A e \in Events : e \in Elems(t) <=> Holds(c, e)  BY <1>1, HeldIs
  <2>3. s \in Seq(Events) /\ q \in Seq(Events) /\ h \in 0..MaxEvents /\ due[c] \subseteq Events
    BY <1>1 DEF IInv, Typed, Outs
  <2>4. Events \in SUBSET Int  BY WsAssumption DEF Events
  <2>5. Elems(s) \subseteq Events /\ Elems(t) \subseteq Events
    <3>1. DOMAIN s = 1..Len(s) /\ \A k \in 1..Len(s) : s[k] \in Events  BY <2>3, LenProperties
    <3>2. DOMAIN t = 1..Len(t) /\ \A k \in 1..Len(t) : t[k] \in Events  BY <2>2, LenProperties
    <3> HIDE DEF s, t
    <3> QED  BY <3>1, <3>2 DEF Elems
  <2>6. Inc(t)
    <3>1. CASE h = 0
      <4>1. t = q  BY <2>3, <3>1 DEF Held
      <4> QED  BY <2>1, <4>1
    <3>2. CASE h # 0
      <4>1. h \in Events  BY <2>3, <3>2, WsAssumption DEF Events
      <4>2. t = <<h>> \o q /\ <<h>> \in Seq(Events)  BY <3>2, <4>1 DEF Held
      <4>3. Elems(<<h>>) = {h} /\ Inc(<<h>>)  BY DEF Elems, Inc
      <4> HIDE DEF q, h, t
      <4> QED  BY <2>1, <2>3, <2>4, <3>2, <4>2, <4>3, ConcatIs
    <3> QED  BY <3>1, <3>2
  <2> HIDE DEF s, t, q, h
  <2>7. Inc(s \o t) /\ Elems(s \o t) = Elems(s) \cup Elems(t)
    BY <2>1, <2>2, <2>3, <2>4, <2>5, <2>6, ConcatIs
  <2>8. Elems(s \o t) = {e \in due[c] : <<c, e>> \notin full}  BY <2>1, <2>2, <2>3, <2>5, <2>7
  <2> QED  BY <2>7, <2>8 DEF Elems, Inc, s, t
<1>2. IInv => LossCounted  BY <1>1 DEF LossCounted, IInv, Counted
<1> QED  BY <1>2, Inductive, PTL
=============================================================================
