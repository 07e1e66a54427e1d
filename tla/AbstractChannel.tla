-------------------------- MODULE AbstractChannel --------------------------
(***************************************************************************)
(* What a Channel promises its users: a first-in first-out queue of at     *)
(* most Capacity messages which, once closed, is empty and stays so.       *)
(***************************************************************************)
EXTENDS Naturals, Sequences

CONSTANTS Messages, Capacity

VARIABLES queue, closed

Init == queue = <<>> /\ closed = FALSE

Push(m) ==
    /\ ~closed
    /\ Len(queue) < Capacity
    /\ queue' = Append(queue, m)
    /\ UNCHANGED closed

Pop ==
    /\ ~closed
    /\ queue # <<>>
    /\ queue' = Tail(queue)
    /\ UNCHANGED closed

\* The channel is first marked, then emptied, with its lock held throughout.
Close == ~closed /\ closed' = TRUE /\ UNCHANGED queue
Clear == closed /\ queue' = <<>> /\ UNCHANGED closed

Next == (\E m \in Messages : Push(m)) \/ Pop \/ Close \/ Clear

Spec == Init /\ [][Next]_<<queue, closed>>
=============================================================================
