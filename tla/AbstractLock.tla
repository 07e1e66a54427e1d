---------------------------- MODULE AbstractLock ----------------------------
(***************************************************************************)
(* What a lock promises: a client takes it only when it is free, and only  *)
(* the client that has it frees it.                                        *)
(***************************************************************************)
CONSTANTS Clients, None

VARIABLE owner

Init == owner = None

Acquire(c) == owner = None /\ owner' = c
Release(c) == owner = c /\ owner' = None

Next == \E c \in Clients : Acquire(c) \/ Release(c)

Spec == Init /\ [][Next]_owner
=============================================================================
