------------------------------ MODULE WsFanout ------------------------------
(***************************************************************************)
(* The WebSocket fan-out of a picosentry serve process                     *)
(* (serve/services/websocket_manager.py and serve/api/routers/ws.py): the  *)
(* endpoint registers a socket, events become broadcast tasks on the main  *)
(* loop, every socket has a bounded queue and a pump that sends from it,   *)
(* and a broadcast waits a bounded time for the queues it filled.          *)
(*                                                                         *)
(* All of it runs on one event loop; what has no await inside is one step. *)
(* The manager's lock is held over no await, so it is never waited for.    *)
(* Events are numbered in the order in which they reach the loop.          *)
(***************************************************************************)
EXTENDS Integers, Sequences, FiniteSets

CONSTANTS Clients,     \* sockets; a socket connects once
          Fast,        \* clients that read what they are sent
          Orgs, NoOrg,
          Channels,    \* names a client may subscribe to besides All
          All,         \* "*"
          Types,       \* event types
          Requests,    \* channel sets the clients subscribe to
          MaxEvents,   \* bound: events published
          QueueSize    \* OUTBOUND_QUEUE_SIZE

ASSUME WsAssumption ==
    /\ IsFiniteSet(Clients) /\ Fast \subseteq Clients
    /\ Requests \subseteq SUBSET (Channels \cup {All})
    /\ NoOrg \notin Orgs /\ All \notin Channels \cup Types
    /\ MaxEvents \in Nat /\ QueueSize \in Nat \ {0}

VARIABLES loop,          \* ws_manager.main_loop
          event,         \* the events so far: type and org
          ready,         \* events whose broadcast task is scheduled
          conn,          \* per client: where its endpoint is
          connections,   \* per channel: its sockets
          sub,           \* per client: client_channels and client_orgs
          out,           \* per client: queue, pump, and the message in its hand
          cast,          \* per event: the broadcast's drain barrier
          dropped,       \* the drop counter
          due,           \* ghost, per client: events meant for it
          sent,          \* ghost, per client: events sent to it, in order
          full           \* ghost: <<c, e>>: e found the queue of c full

vars == <<loop, event, ready, conn, connections, sub, out, cast, dropped, due, sent, full>>

Events == 1..MaxEvents
Owners == Orgs \cup {NoOrg}
Names == Channels \cup {All}

NoSub == [known |-> FALSE, chans |-> {}, org |-> NoOrg]
NoPump == [pump |-> "none", queue |-> <<>>, hand |-> 0]
NoCast == [pc |-> "none", waits |-> {}, stuck |-> FALSE]

-----------------------------------------------------------------------------
(***************************************************************************)
(* The endpoint.                                                           *)
(***************************************************************************)
Endpoint == UNCHANGED <<loop, event, ready, cast, dropped, full>>

\* accept, then connect with no channels; a token in the query (development
\* only) has been validated before.
Connect(c, auth, o) ==
    /\ loop = "up" /\ conn[c].pc = "new"
    /\ ~auth => o = NoOrg
    /\ conn' = [conn EXCEPT ![c] = [pc |-> "open", auth |-> auth, alive |-> TRUE]]
    /\ sub' = [sub EXCEPT ![c] = [known |-> TRUE, chans |-> {}, org |-> o]]
    /\ Endpoint /\ UNCHANGED <<connections, out, due, sent>>

\* In-band auth; the org is resolved on another thread, then set_org.
Authenticate(c, o) ==
    /\ conn[c].pc = "open" /\ ~conn[c].auth
    /\ conn' = [conn EXCEPT ![c].auth = TRUE]
    /\ sub' = [sub EXCEPT ![c].org = o]
    /\ Endpoint /\ UNCHANGED <<connections, out, due, sent>>

\* Denied: the endpoint closes the socket and returns without disconnect().
Deny(c) ==
    /\ conn[c].pc = "open" /\ ~conn[c].auth
    /\ conn' = [conn EXCEPT ![c].pc = "closed", ![c].alive = FALSE]
    /\ Endpoint /\ UNCHANGED <<connections, sub, out, due, sent>>

\* _remove_from_channel for every channel of the client, then _add_sub.
Moved(c, chans) ==
    [n \in Names |-> (connections[n] \ {x \in {c} : n \in sub[x].chans})
                      \cup {x \in {c} : n \in chans}]

\* A mutant of Subscribe: the old channels keep the socket.
SubscribeAdds(c, chans) ==
    /\ conn[c].pc = "open" /\ conn[c].auth
    /\ connections' = [n \in Names |-> IF n \in chans THEN connections[n] \cup {c} ELSE connections[n]]
    /\ sub' = [sub EXCEPT ![c].chans = chans, ![c].known = TRUE]
    /\ Endpoint /\ UNCHANGED <<conn, out, due, sent>>

Subscribe(c, chans) ==
    /\ conn[c].pc = "open" /\ conn[c].auth
    /\ connections' = Moved(c, chans)
    /\ sub' = [sub EXCEPT ![c].chans = chans, ![c].known = TRUE]
    /\ Endpoint /\ UNCHANGED <<conn, out, due, sent>>

\* What a cancelled pump held is marked done, and that ends the join on a
\* queue with nothing left; a join on anything else waits for its timeout.
Settle(c, left) ==
    [e \in Events |->
        IF c \notin cast[e].waits THEN cast[e]
        ELSE [cast[e] EXCEPT !.waits = @ \ {c}, !.stuck = @ \/ left]]

\* The endpoint notices that the client left, or fails: disconnect().
Disconnect(c) ==
    /\ conn[c].pc = "open"
    /\ conn' = [conn EXCEPT ![c].pc = "closed", ![c].alive = FALSE]
    /\ connections' = Moved(c, {})
    /\ sub' = [sub EXCEPT ![c] = NoSub]
    /\ out' = [out EXCEPT ![c] = NoPump]
    /\ cast' = Settle(c, out[c].queue # <<>>)
    /\ due' = [due EXCEPT ![c] = {}]
    /\ sent' = [sent EXCEPT ![c] = <<>>]
    /\ UNCHANGED <<loop, event, ready, dropped, full>>

-----------------------------------------------------------------------------
(***************************************************************************)
(* Events and broadcasts.                                                  *)
(***************************************************************************)
Sockets == UNCHANGED <<conn, connections, sub>>

\* lifespan: main_loop is captured at startup and cleared at shutdown.
Startup == /\ loop = "none" /\ loop' = "up"
           /\ Sockets /\ UNCHANGED <<event, ready, out, cast, dropped, due, sent, full>>

Shutdown == /\ loop = "up" /\ loop' = "ended"
            /\ Sockets /\ UNCHANGED <<event, ready, out, cast, dropped, due, sent, full>>

\* websocket_event_handler, from a foreign thread: without a main loop the
\* event is dropped, else its broadcast becomes a task.
Publish(ty, o) ==
    /\ Len(event) < MaxEvents
    /\ event' = Append(event, [type |-> ty, org |-> o])
    /\ ready' = IF loop = "up" THEN Append(ready, Len(event')) ELSE ready
    /\ Sockets /\ UNCHANGED <<loop, out, cast, dropped, due, sent, full>>

\* A mutant of Candidates: the org is not looked at.
CandidatesOfAll(ev) == UNION {connections[n] : n \in Names \cap {All, ev.type}}

Candidates(ev) ==
    {c \in UNION {connections[n] : n \in Names \cap {All, ev.type}} :
        IF ev.org = NoOrg THEN sub[c].known ELSE sub[c].org = ev.org}

\* What a client asked for, by its own channels and org.
Wants(c, ev) == /\ {All, ev.type} \cap sub[c].chans # {}
                /\ ev.org \in {NoOrg, sub[c].org}

\* _enqueue: a new queue and pump where there is none or the pump ended.
Ready(c) == IF out[c].pump = "run" THEN out[c] ELSE [NoPump EXCEPT !.pump = "run"]

\* A mutant of Fits: one message too many.
FitsOver(c) == Len(Ready(c).queue) <= QueueSize

Fits(c) == Len(Ready(c).queue) < QueueSize

Broadcast ==
    /\ ready # <<>>
    /\ LET e == Head(ready)
           to == Candidates(event[e])
           put == {c \in to : Fits(c)}
       IN /\ out' = [c \in Clients |->
                       IF c \in put THEN [Ready(c) EXCEPT !.queue = Append(@, e)]
                       ELSE IF c \in to THEN Ready(c) ELSE out[c]]
          /\ dropped' = dropped + Cardinality(to \ put)
          /\ full' = full \cup {<<c, e>> : c \in to \ put}
          /\ cast' = [cast EXCEPT ![e] = [pc |-> IF put = {} THEN "returned" ELSE "drain",
                                          waits |-> put, stuck |-> FALSE]]
          /\ due' = [c \in Clients |-> IF Wants(c, event[e]) THEN due[c] \cup {e} ELSE due[c]]
    /\ ready' = Tail(ready)
    /\ Sockets /\ UNCHANGED <<loop, event, sent>>

\* json.dumps refuses the payload: the task ends before it has looked at any client,
\* and the event is lost for all of them, uncounted.
BroadcastFails ==
    /\ ready # <<>> /\ ready' = Tail(ready)
    /\ Sockets /\ UNCHANGED <<loop, event, out, cast, dropped, due, sent, full>>

\* The drain barrier: every queue was joined, or BROADCAST_DRAIN_TIMEOUT passed.
Return(e) ==
    /\ cast[e].pc = "drain" /\ cast[e].waits = {} /\ ~cast[e].stuck
    /\ cast' = [cast EXCEPT ![e].pc = "returned"]
    /\ Sockets /\ UNCHANGED <<loop, event, ready, out, dropped, due, sent, full>>

\* A mutant of Timeout: the wait has no cap.
TimeoutNever(e) ==
    /\ cast[e].pc = "drain" /\ cast[e].waits = {}
    /\ cast' = [cast EXCEPT ![e].pc = "timeout"]
    /\ Sockets /\ UNCHANGED <<loop, event, ready, out, dropped, due, sent, full>>

Timeout(e) ==
    /\ cast[e].pc = "drain"
    /\ cast' = [cast EXCEPT ![e].pc = "timeout"]
    /\ Sockets /\ UNCHANGED <<loop, event, ready, out, dropped, due, sent, full>>

-----------------------------------------------------------------------------
(***************************************************************************)
(* _pump.                                                                  *)
(***************************************************************************)
\* A mutant of Get: the item is marked done when it is taken.
GetDone(c) ==
    /\ out[c].pump = "run" /\ out[c].hand = 0 /\ out[c].queue # <<>>
    /\ out' = [out EXCEPT ![c].hand = Head(out[c].queue), ![c].queue = Tail(@)]
    /\ cast' = IF Tail(out[c].queue) = <<>> THEN Settle(c, FALSE) ELSE cast
    /\ Sockets /\ UNCHANGED <<loop, event, ready, dropped, due, sent, full>>

Get(c) ==
    /\ out[c].pump = "run" /\ out[c].hand = 0 /\ out[c].queue # <<>>
    /\ out' = [out EXCEPT ![c].hand = Head(out[c].queue), ![c].queue = Tail(@)]
    /\ Sockets /\ UNCHANGED <<loop, event, ready, cast, dropped, due, sent, full>>

\* send_text came back; task_done ends the joins when nothing is left.
Send(c) ==
    /\ out[c].hand # 0 /\ conn[c].alive
    /\ out' = [out EXCEPT ![c].hand = 0]
    /\ sent' = [sent EXCEPT ![c] = Append(@, out[c].hand)]
    /\ cast' = IF out[c].queue = <<>> THEN Settle(c, FALSE) ELSE cast
    /\ Sockets /\ UNCHANGED <<loop, event, ready, dropped, due, full>>

\* send_text raised: the pump ends and leaves the rest of its queue.
SendFails(c) ==
    /\ out[c].hand # 0
    /\ conn' = [conn EXCEPT ![c].alive = FALSE]
    /\ out' = [out EXCEPT ![c].hand = 0, ![c].pump = "done"]
    /\ cast' = Settle(c, out[c].queue # <<>>)
    /\ UNCHANGED <<loop, event, ready, connections, sub, dropped, due, sent, full>>

-----------------------------------------------------------------------------
Init ==
    /\ loop = "none" /\ event = <<>> /\ ready = <<>>
    /\ conn = [c \in Clients |-> [pc |-> "new", auth |-> FALSE, alive |-> FALSE]]
    /\ connections = [n \in Names |-> {}]
    /\ sub = [c \in Clients |-> NoSub]
    /\ out = [c \in Clients |-> NoPump]
    /\ cast = [e \in Events |-> NoCast]
    /\ dropped = 0 /\ full = {}
    /\ due = [c \in Clients |-> {}] /\ sent = [c \in Clients |-> <<>>]

Session(c) ==
    \/ \E auth \in BOOLEAN, o \in Owners : Connect(c, auth, o)
    \/ \E o \in Owners : Authenticate(c, o)
    \/ \E chans \in Requests : Subscribe(c, chans)
    \/ Deny(c) \/ Disconnect(c)
Pump(c) == Get(c) \/ Send(c)
Barrier(e) == Return(e) \/ Timeout(e)

Next == \/ Startup \/ Shutdown \/ Broadcast \/ BroadcastFails
        \/ \E ty \in Types, o \in Owners : Publish(ty, o)
        \/ \E e \in Events : Barrier(e)
        \/ \E c \in Clients : Session(c) \/ Pump(c) \/ SendFails(c)

Spec == Init /\ [][Next]_vars

\* The event loop runs its tasks and timers, and the pumps of clients that read.
FairSpec == /\ Spec
            /\ WF_vars(Broadcast)
            /\ \A e \in Events : WF_vars(Barrier(e))
            /\ \A c \in Fast : WF_vars(Pump(c))

-----------------------------------------------------------------------------
\* Every variable has its type and the queues their bound.
TypeOK ==
    /\ loop \in {"none", "up", "ended"}
    /\ event \in Seq([type: Types, org: Owners]) /\ Len(event) <= MaxEvents
    /\ ready \in Seq(DOMAIN event)
    /\ conn \in [Clients -> [pc: {"new", "open", "closed"}, auth: BOOLEAN, alive: BOOLEAN]]
    /\ connections \in [Names -> SUBSET Clients]
    /\ sub \in [Clients -> [known: BOOLEAN, chans: SUBSET Names, org: Owners]]
    /\ \A c \in Clients :
         /\ out[c].pump \in {"none", "run", "done"} /\ out[c].hand \in 0..MaxEvents
         /\ out[c].queue \in Seq(Events) /\ Len(out[c].queue) <= QueueSize
         /\ due[c] \subseteq Events /\ sent[c] \in Seq(Events)
    /\ cast \in [Events -> [pc: {"none", "drain", "returned", "timeout"},
                            waits: SUBSET Clients, stuck: BOOLEAN]]
    /\ dropped \in Nat /\ full \subseteq Clients \X Events

\* The channel index and the clients' own channels agree through every
\* subscription, and a closed socket is in no channel and has no pump, however
\* its endpoint ended.
IndexExact ==
    \A c \in Clients :
        /\ \A n \in Names : c \in connections[n] <=> n \in sub[c].chans
        /\ conn[c].pc = "closed" => out[c] = NoPump /\ sub[c].chans = {}

Held(c) == (IF out[c].hand = 0 THEN <<>> ELSE <<out[c].hand>>) \o out[c].queue

\* A client whose sends succeed gets the broadcast events its channels and its org
\* allow, also when the org was set after it connected: each once, in order, and no
\* other, save those that found its queue full.  Each of these is counted:
\* "a slow consumer's queue fills and NEW messages are dropped"
\* (websocket_manager.py:33).  (An event that json.dumps refuses is not broadcast.)
LossCounted ==
    /\ dropped = Cardinality(full)
    /\ \A c \in Clients : conn[c].alive =>
         LET all == sent[c] \o Held(c) IN
         /\ {all[k] : k \in DOMAIN all} = {e \in due[c] : <<c, e>> \notin full}
         /\ \A i, j \in DOMAIN all : i < j => all[i] < all[j]

\* A broadcast that returns before its cap has reached every client it queued
\* for whose connection still works ("delivered-on-return", line 39).
DeliveredOnReturn ==
    \A e \in Events, c \in Clients :
        cast[e].pc = "returned" /\ conn[c].alive =>
            \A k \in DOMAIN Held(c) : Held(c)[k] # e

\* Whoever stalls, again and again every broadcast has returned and the clients
\* that read have been sent all that was queued for them.
NoHeadOfLine ==
    []<>(/\ ready = <<>>
         /\ \A e \in Events : cast[e].pc # "drain"
         /\ \A c \in Fast : conn[c].alive => Held(c) = <<>>)
=============================================================================
