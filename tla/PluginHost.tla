----------------------------- MODULE PluginHost -----------------------------
(***************************************************************************)
(* One plugin of picosentry serve: the host object in the server           *)
(* (serve/services/plugin_host.py), its child process (plugin_worker.py),  *)
(* the pipes between them and the threads that call it through the plugin  *)
(* manager (plugin_manager.py): Main, which loads, checks and unloads the  *)
(* plugin, and the threads that run projects.  The host has no lock.       *)
(*                                                                         *)
(* A call is one message and one wait for an answer.  Calls are numbered   *)
(* as they begin, and answers bear the number of their request, which the  *)
(* code's messages do not.  The worker may be silent for ever or die.      *)
(***************************************************************************)
EXTENDS Integers, Sequences, FiniteSets

CONSTANTS Threads, Main,
          MaxCalls     \* bound: calls, the ready message included

ASSUME HostAssumption ==
    IsFiniteSet(Threads) /\ Main \in Threads /\ MaxCalls \in Nat /\ MaxCalls >= 3

VARIABLES worker,    \* the child process and the request it works on
          inp,       \* its stdin: numbers of calls
          out,       \* its stdout: answers
          buf,       \* answers the host's text layer read ahead
          proc,      \* the host has a process (_proc is not None)
          entry,     \* the manager's entry of the plugin
          th,        \* per thread: its call and where it is
          calls,     \* calls begun
          blind,     \* select() does not support the descriptor of its stdout
          got,       \* per call: whose answer it was given
          crowd,     \* ghost: a call of this burst began during another one
          burst,     \* ghost, per call: the burst it belongs to
          era        \* ghost: bursts so far; none is open when no call is

\* What only a new call changes; blind never does.
kept == <<calls, burst, era, crowd, blind>>
vars == <<worker, inp, out, buf, proc, entry, th, got, kept>>

Calls == 1..MaxCalls
Idle == [pc |-> "idle", kind |-> "hook", id |-> 0]
Answer == [id: Calls, ok: BOOLEAN]

Alive == worker.st \notin {"none", "dead"}
Dead == [st |-> "dead", req |-> 0]
Busy == {t \in Threads : th[t].pc # "idle"}
Others(t) == Busy \ {t}

-----------------------------------------------------------------------------
(***************************************************************************)
(* Calls.                                                                  *)
(***************************************************************************)
Call(t, kind, pc) ==
    /\ calls < MaxCalls
    /\ calls' = calls + 1
    /\ th' = [th EXCEPT ![t] = [pc |-> pc, kind |-> kind, id |-> calls']]
    /\ era' = IF Others(t) = {} THEN era + 1 ELSE era
    /\ burst' = [burst EXCEPT ![calls'] = era']
    /\ crowd' = (Others(t) # {})
    /\ UNCHANGED blind

\* dispatch or get_status: a hook's outcome ends the call, for an exception is
\* logged; Main looks at the others.
Return(t, ok) ==
    th' = [th EXCEPT ![t] = IF th[t].kind = "hook" THEN Idle
                            ELSE [@ EXCEPT !.pc = IF ok THEN "ok" ELSE "failed"]]

\* The process is killed and reaped, and the handle cleared.  In between, other
\* threads fail on the dead process as they fail on the cleared handle.
Stop == worker' = Dead /\ inp' = <<>> /\ proc' = FALSE

Begin(t) ==
    /\ entry = "in" /\ th[t].pc = "idle" /\ calls < MaxCalls - 1
    /\ Call(t, "hook", "write")
    /\ UNCHANGED <<worker, inp, out, buf, proc, entry, got>>

\* _send, up to the flush; no process, a dead one or a broken pipe raises.
Write(t) ==
    /\ th[t].pc = "write"
    /\ IF proc /\ Alive
       THEN /\ inp' = Append(inp, th[t].id)
            /\ th' = [th EXCEPT ![t].pc = "select"]
       ELSE Return(t, FALSE) /\ UNCHANGED inp
    /\ UNCHANGED <<worker, out, buf, proc, entry, got, kept>>

\* _read_message: select() sees the pipe, not what the text layer holds.  Where
\* it raises (no pipes in select(), a descriptor past FD_SETSIZE), the read
\* follows at once.
Ready(t) ==
    /\ th[t].pc = "select" /\ (blind \/ out # <<>> \/ ~Alive)
    /\ IF proc THEN th' = [th EXCEPT ![t].pc = "read"] ELSE Return(t, FALSE)
    /\ UNCHANGED <<worker, inp, out, buf, proc, entry, got, kept>>

\* Mutants of Timeout: the request is sent again; no timeout once loaded.
TimeoutResends(t) ==
    /\ th[t].pc = "select" /\ ~blind /\ out = <<>> /\ Alive
    /\ th' = [th EXCEPT ![t].pc = "write"]
    /\ UNCHANGED <<worker, inp, out, buf, proc, entry, got, kept>>
TimeoutAtStart(t) ==
    /\ th[t].pc = "select" /\ ~blind /\ out = <<>> /\ Alive /\ entry = "loading"
    /\ th' = [th EXCEPT ![t].pc = "terminate"]
    /\ UNCHANGED <<worker, inp, out, buf, proc, entry, got, kept>>

Timeout(t) ==
    /\ th[t].pc = "select" /\ ~blind /\ out = <<>> /\ Alive
    /\ th' = [th EXCEPT ![t].pc = "terminate"]
    /\ UNCHANGED <<worker, inp, out, buf, proc, entry, got, kept>>

\* A mutant of Terminate: the worker may answer later.
TerminateNot(t) ==
    /\ th[t].pc = "terminate"
    /\ Return(t, FALSE)
    /\ UNCHANGED <<worker, inp, out, buf, proc, entry, got, kept>>

Terminate(t) ==
    /\ th[t].pc = "terminate"
    /\ Stop
    /\ Return(t, FALSE)
    /\ UNCHANGED <<out, buf, entry, got, kept>>

\* readline: a line read ahead, else all the pipe holds, else the end of the
\* stream; on an empty pipe it blocks, for ever if need be.
Receive(t, line) ==
    /\ got' = [got EXCEPT ![th[t].id] = line.id]
    /\ Return(t, line.ok)

ReadLine(t) ==
    /\ th[t].pc = "read"
    /\ \/ /\ buf # <<>>
          /\ Receive(t, Head(buf)) /\ buf' = Tail(buf) /\ UNCHANGED out
       \/ /\ buf = <<>> /\ out # <<>>
          /\ Receive(t, Head(out)) /\ buf' = Tail(out) /\ out' = <<>>
       \/ /\ buf = <<>> /\ out = <<>> /\ ~Alive
          /\ Return(t, FALSE) /\ UNCHANGED <<got, buf, out>>
    /\ UNCHANGED <<worker, inp, proc, entry, kept>>

-----------------------------------------------------------------------------
(***************************************************************************)
(* The life of the plugin, on the thread Main.                             *)
(***************************************************************************)
MainAt(kind, pc) == th[Main].kind = kind /\ th[Main].pc = pc
MainEnds == th' = [th EXCEPT ![Main] = Idle]

\* _start_worker: the process is spawned and its ready message awaited.
Spawn ==
    /\ entry = "none"
    /\ entry' = "loading" /\ proc' = TRUE
    /\ worker' = [st |-> "boot", req |-> 0]
    /\ Call(Main, "ready", "select")
    /\ UNCHANGED <<inp, out, buf, got>>

StartFails ==
    /\ MainAt("ready", "failed")
    /\ Stop /\ entry' = "out" /\ MainEnds
    /\ UNCHANGED <<out, buf, got, kept>>

Initialize ==
    /\ MainAt("ready", "ok")
    /\ Call(Main, "init", "write")
    /\ UNCHANGED <<worker, inp, out, buf, proc, entry, got>>

\* initialize() returned True: the plugin is registered.
Register ==
    /\ MainAt("init", "ok")
    /\ entry' = "in" /\ MainEnds
    /\ UNCHANGED <<worker, inp, out, buf, proc, got, kept>>

\* It returned False: host.shutdown().
Refuse ==
    /\ MainAt("init", "ok")
    /\ Call(Main, "shutdown", "write")
    /\ UNCHANGED <<worker, inp, out, buf, proc, entry, got>>

\* A mutant of LoadFails: no finalizer.
LoadFailsLeaks ==
    /\ MainAt("init", "failed")
    /\ entry' = "out" /\ MainEnds
    /\ UNCHANGED <<worker, inp, out, buf, proc, got, kept>>

\* It raised: the host is dropped and its finalizer reaps the worker.
LoadFails ==
    /\ MainAt("init", "failed")
    /\ Stop /\ entry' = "out" /\ MainEnds
    /\ UNCHANGED <<out, buf, got, kept>>

\* unload_all: shutdown() sends its message and terminates whatever comes back,
\* then the entry is cleared.
Unload ==
    /\ entry = "in" /\ th[Main].pc = "idle"
    /\ Call(Main, "shutdown", "write")
    /\ UNCHANGED <<worker, inp, out, buf, proc, entry, got>>

Close ==
    /\ MainAt("shutdown", "ok") \/ MainAt("shutdown", "failed")
    /\ Stop /\ entry' = "out" /\ MainEnds
    /\ UNCHANGED <<out, buf, got, kept>>

-----------------------------------------------------------------------------
(***************************************************************************)
(* The worker process.                                                     *)
(***************************************************************************)
Quiet == UNCHANGED <<buf, proc, entry, th, got, kept>>

\* main, up to the ready message, or to an error and its exit.
Boot ==
    /\ worker.st = "boot"
    /\ \E ok \in BOOLEAN :
         /\ out' = Append(out, [id |-> 1, ok |-> ok])
         /\ worker' = IF ok THEN [st |-> "up", req |-> 0] ELSE Dead
    /\ UNCHANGED inp /\ Quiet

Recv ==
    /\ worker.st = "up" /\ inp # <<>>
    /\ worker' = [st |-> "busy", req |-> Head(inp)]
    /\ inp' = Tail(inp)
    /\ UNCHANGED out /\ Quiet

\* One answer for one request; shutdown is acknowledged and leaves the loop.
Reply ==
    /\ worker.st = "busy"
    /\ LET last == th[Main].kind = "shutdown" /\ th[Main].id = worker.req IN
       /\ \E ok \in BOOLEAN :
            (last => ok) /\ out' = Append(out, [id |-> worker.req, ok |-> ok])
       /\ worker' = IF last THEN Dead ELSE [st |-> "up", req |-> 0]
    /\ UNCHANGED inp /\ Quiet

\* A plugin that exits, runs into a limit or is killed.
Crash ==
    /\ Alive
    /\ worker' = Dead /\ inp' = <<>>
    /\ UNCHANGED out /\ Quiet

-----------------------------------------------------------------------------
Init ==
    /\ worker = [st |-> "none", req |-> 0] /\ proc = FALSE
    /\ inp = <<>> /\ out = <<>> /\ buf = <<>>
    /\ entry = "none"
    /\ th = [t \in Threads |-> Idle]
    /\ calls = 0 /\ era = 0 /\ crowd = FALSE /\ blind \in BOOLEAN
    /\ got = [c \in Calls |-> 0] /\ burst = [c \in Calls |-> 0]

Step(t) == Write(t) \/ Ready(t) \/ Timeout(t) \/ Terminate(t) \/ ReadLine(t)
Lifecycle == StartFails \/ Initialize \/ Register \/ Refuse \/ LoadFails \/ Close
Worker == Boot \/ Recv \/ Reply \/ Crash

Next == \/ Spawn \/ Lifecycle \/ Unload \/ Worker
        \/ \E t \in Threads : Begin(t) \/ Step(t)

Spec == Init /\ [][Next]_vars

\* The server's threads are scheduled; nothing is assumed of the worker.
FairSpec == Spec /\ WF_vars(Lifecycle) /\ \A t \in Threads : WF_vars(Step(t))

-----------------------------------------------------------------------------
\* Every variable has its type, and no more messages are under way than threads
\* can have sent.
TypeOK ==
    /\ worker \in [st: {"none", "boot", "up", "busy", "dead"}, req: 0..MaxCalls]
    /\ inp \in Seq(Calls) /\ out \in Seq(Answer) /\ buf \in Seq(Answer)
    /\ Len(inp) + Len(out) + Len(buf) <= Cardinality(Threads)
    /\ proc \in BOOLEAN /\ crowd \in BOOLEAN /\ blind \in BOOLEAN
    /\ entry \in {"none", "loading", "in", "out"}
    /\ th \in [Threads -> [pc: {"idle", "write", "select", "read", "terminate", "ok", "failed"},
                           kind: {"hook", "ready", "init", "shutdown"}, id: 0..MaxCalls]]
    /\ calls \in 0..MaxCalls /\ era \in 0..MaxCalls
    /\ got \in [Calls -> 0..MaxCalls] /\ burst \in [Calls -> 0..MaxCalls]

(***************************************************************************)
(* Calls that overlap may be given one another's answers, for messages     *)
(* have no number and the host no lock; but no answer is given twice, and  *)
(* none outlives a moment without calls: after a timeout, an error or a    *)
(* crash the next call never reads what the last one waited for.  A call   *)
(* that overlapped no other has its own answer.                            *)
(***************************************************************************)
SameBurst ==
    \A c \in Calls : got[c] # 0 =>
        /\ burst[got[c]] = burst[c]
        /\ \A d \in Calls : got[d] = got[c] => d = c

\* A plugin that was refused, failed to load or was unloaded leaves no process
\* behind, whoever was calling it meanwhile.
NoOrphan == entry = "out" => ~Alive

(***************************************************************************)
(* Whatever the plugin does, every call and the unloading end, save in the *)
(* readline that has no timeout: a reader that another call's reader       *)
(* overtook, or any reader where select() does not work, blocks there      *)
(* until the worker answers, or another call's timeout or the end of the   *)
(* process frees it.                                                       *)
(***************************************************************************)
CallsEnd ==
    []<>(\A t \in Threads : th[t].pc = "idle"
                         \/ (th[t].pc = "read" /\ (crowd \/ blind) /\ Alive))
=============================================================================
