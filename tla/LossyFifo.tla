----------------------------- MODULE LossyFifo -----------------------------
(***************************************************************************)
(* What the batching audit sinks promise for the entries they take: each   *)
(* is handed to the sink's endpoint at most once, in the order they were   *)
(* taken, in batches, and what has not been handed over may be discarded   *)
(* at the end, after which the sink does nothing any more.                 *)
(***************************************************************************)
EXTENDS Sequences, SequencesExt, Integers

CONSTANTS Sink, Entry, BatchSize

VARIABLES pending,   \* of each sink: taken and not yet handed over
          handed,    \* handed over, in order
          over       \* the sinks that have been closed

vars == <<pending, handed, over>>

Init ==
    /\ pending = [s \in Sink |-> <<>>]
    /\ handed = [s \in Sink |-> <<>>]
    /\ over = {}

Take(s, e) ==
    /\ s \notin over
    /\ ~Contains(handed[s] \o pending[s], e)
    /\ pending' = [pending EXCEPT ![s] = Append(@, e)]
    /\ UNCHANGED <<handed, over>>

HandOver(s, n) ==
    /\ s \notin over
    /\ handed' = [handed EXCEPT ![s] = @ \o SubSeq(pending[s], 1, n)]
    /\ pending' = [pending EXCEPT ![s] = SubSeq(@, n + 1, Len(@))]
    /\ UNCHANGED over

End(s) ==
    /\ over' = over \cup {s}
    /\ pending' = [pending EXCEPT ![s] = <<>>]
    /\ UNCHANGED handed

Next ==
    \E s \in Sink :
        \/ \E e \in Entry : Take(s, e)
        \/ \E n \in 1..Len(pending[s]) : n <= BatchSize /\ HandOver(s, n)
        \/ End(s)

Spec == Init /\ [][Next]_vars
=============================================================================
