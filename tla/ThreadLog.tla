----------------------------- MODULE ThreadLog -----------------------------
(***************************************************************************)
(* What the conversation API promises of a thread: a log that is created   *)
(* empty, that grows only at its end, one whole batch at a time, and that  *)
(* disappears as a whole.  A message is identified by its author.          *)
(***************************************************************************)
EXTENDS Naturals, Sequences

CONSTANTS
    Ids,        \* thread ids
    Authors,    \* the requests that append
    BatchSizes, \* how many messages one request brings
    Gone        \* the thread does not exist

VARIABLE logs   \* Ids -> sequence of authors, or Gone

Batch(a, size) == [k \in 1..size |-> a]

Init == logs = [i \in Ids |-> Gone]

Create(i) == logs[i] = Gone /\ logs' = [logs EXCEPT ![i] = <<>>]

Extend(i, a, size) ==
    /\ logs[i] # Gone
    /\ \A k \in DOMAIN logs[i] : logs[i][k] # a
    /\ logs' = [logs EXCEPT ![i] = @ \o Batch(a, size)]

Delete(i) == logs[i] # Gone /\ logs' = [logs EXCEPT ![i] = Gone]

Next ==
    \E i \in Ids :
        \/ Create(i)
        \/ Delete(i)
        \/ \E a \in Authors, size \in BatchSizes : Extend(i, a, size)

Spec == Init /\ [][Next]_logs
=============================================================================
