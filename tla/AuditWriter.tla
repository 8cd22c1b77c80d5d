---------------------------- MODULE AuditWriter ----------------------------
(***************************************************************************)
(* The audit middleware of one picosentry serve process on top of the      *)
(* chain (serve/middleware/audit.py): every request submits one row to a   *)
(* bounded queue, one writer thread appends them and the process drains    *)
(* the queue at exit.  The response waits for its row, at most a second,   *)
(* and is sent whatever comes of it: the wait changes nothing here.        *)
(* Requests are numbered in the order their handlers call submit.          *)
(***************************************************************************)
EXTENDS AuditChain, Sequences

CONSTANTS Requests,    \* bound: requests of the process's life
          QueueSize    \* _AUDIT_QUEUE_SIZE

ASSUME WriterAssumption == Requests \in Nat /\ QueueSize \in Nat \ {0}

VARIABLES queue,     \* requests whose rows wait
          hand,      \* the request the writer is appending, 0 when none
          fate,      \* per request submitted: the id of its row, or why none
          dropped,   \* the drop counter
          process    \* "up", "flushing", then "drained" or "killed"

writer == <<queue, hand, fate, dropped, process>>
vars == <<chain, writer>>

\* Fates of a row: negative while or because it is not in the table.
Pending == -1
Dropped == -2
Failed  == -3
Lost    == -4

\* A mutant of Submit: one row too many.
SubmitOver ==
    /\ process = "up" /\ Len(fate) < Requests
    /\ IF Len(queue) <= QueueSize
       THEN /\ queue' = Append(queue, Len(fate) + 1)
            /\ fate' = Append(fate, Pending)
            /\ UNCHANGED dropped
       ELSE /\ dropped' = dropped + 1
            /\ fate' = Append(fate, Dropped)
            /\ UNCHANGED queue
    /\ UNCHANGED <<chain, hand, process>>

\* A mutant of Submit: the oldest row makes room, uncounted.
SubmitEvicting ==
    /\ process = "up" /\ Len(fate) < Requests
    /\ IF Len(queue) < QueueSize
       THEN /\ queue' = Append(queue, Len(fate) + 1)
            /\ fate' = Append(fate, Pending)
       ELSE /\ queue' = Append(Tail(queue), Len(fate) + 1)
            /\ fate' = Append([fate EXCEPT ![Head(queue)] = Dropped], Pending)
    /\ UNCHANGED <<chain, hand, dropped, process>>

\* submit: at a full queue the row is dropped, counted, and not waited for.
Submit ==
    /\ process = "up" /\ Len(fate) < Requests
    /\ IF Len(queue) < QueueSize
       THEN /\ queue' = Append(queue, Len(fate) + 1)
            /\ fate' = Append(fate, Pending)
            /\ UNCHANGED dropped
       ELSE /\ dropped' = dropped + 1
            /\ fate' = Append(fate, Dropped)
            /\ UNCHANGED queue
    /\ UNCHANGED <<chain, hand, process>>

Running == process \in {"up", "flushing"}

Take ==
    /\ Running /\ hand = 0 /\ queue # <<>>
    /\ hand' = Head(queue)
    /\ queue' = Tail(queue)
    /\ UNCHANGED <<chain, fate, dropped, process>>

\* The writer's append commits, or fails and is logged; either way the item
\* is done.
Write ==
    /\ Running /\ hand # 0
    /\ hand' = 0
    /\ \/ /\ \E o \in Owners : AppendRow(o)
          /\ fate' = [fate EXCEPT ![hand] = seq']
       \/ /\ fate' = [fate EXCEPT ![hand] = Failed]
          /\ UNCHANGED chain
    /\ UNCHANGED <<queue, dropped, process>>

\* The server stopped: atexit runs flush.
Exit ==
    /\ process = "up"
    /\ process' = "flushing"
    /\ UNCHANGED <<chain, queue, hand, fate, dropped>>

\* The process ends: what the daemon thread has not committed is gone.
End(how) ==
    /\ process' = how
    /\ fate' = [r \in DOMAIN fate |-> IF fate[r] = Pending THEN Lost ELSE fate[r]]
    /\ queue' = <<>> /\ hand' = 0
    /\ UNCHANGED <<chain, dropped>>

\* flush saw an empty queue.
Drained == process = "flushing" /\ queue = <<>> /\ End("drained")

\* flush ran into its deadline, or the process was killed.
Killed == Running /\ End("killed")

-----------------------------------------------------------------------------
Init == /\ ChainInit
        /\ queue = <<>> /\ hand = 0 /\ fate = <<>>
        /\ dropped = 0 /\ process = "up"

Next == \/ Submit \/ Take \/ Write \/ Exit \/ Drained \/ Killed
        \/ Maintenance /\ UNCHANGED writer

Spec == Init /\ [][Next]_vars

-----------------------------------------------------------------------------
\* Every variable has its type and the queue its bound.
TypeOK ==
    /\ ChainTypeOK
    /\ queue \in Seq(DOMAIN fate) /\ Len(queue) <= QueueSize
    /\ hand \in {0} \cup DOMAIN fate
    /\ fate \in Seq(Lost..Pending \cup Ids) /\ Len(fate) <= Requests
    /\ dropped \in 0..Requests
    /\ process \in {"up", "flushing", "drained", "killed"}

(***************************************************************************)
(* Every row submitted is accounted for: it waits, it is the one being     *)
(* written, it is in the chain at an id after those of the rows submitted  *)
(* before it, or it is gone for a reason that was logged or counted.  The  *)
(* gauge dropped_audit_records is exact.  An exit whose flush saw the queue  *)
(* empty loses at most the last row taken: flush does not look at the      *)
(* writer's hand.                                                          *)
(***************************************************************************)
Accounted ==
    /\ dropped = Cardinality({r \in DOMAIN fate : fate[r] = Dropped})
    /\ {r \in DOMAIN fate : fate[r] = Pending} =
         {queue[k] : k \in DOMAIN queue} \cup ({hand} \ {0})
    /\ \A r, s \in DOMAIN fate : r < s /\ fate[r] > 0 /\ fate[s] > 0 => fate[r] < fate[s]
    /\ process = "drained" =>
         \A r, s \in DOMAIN fate : r < s /\ fate[r] = Lost => fate[s] = Dropped
============================================================================
